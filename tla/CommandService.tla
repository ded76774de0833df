--------------------------- MODULE CommandService ---------------------------
(***************************************************************************)
(* What the repeater's command phase promises, with no tasks, sockets or   *)
(* bytes: a command (OP_REQ_DEVLIST, OP_REQ_IMPORT) is answered at most    *)
(* once and in the order in which the clients sent them, or is lost in     *)
(* silence; and device_busy is set by every import that was answered, once *)
(* and before the next command is answered, and by nothing else.           *)
(***************************************************************************)
EXTENDS Integers, TLAPS

CONSTANT MaxReq   \* bound on the commands sent

VARIABLES
  stage,       \* how far each command is
  imports,     \* the commands that are imports, among those sent
  owed,        \* an import was answered and device_busy is still to be set
  device_busy

vars == <<stage, imports, owed, device_busy>>

Reqs   == 1..MaxReq
Stages == {"unsent", "waiting", "answered", "lost"}

Init ==
  /\ stage = [r \in Reqs |-> "unsent"]
  /\ imports = {} /\ owed = FALSE /\ device_busy = FALSE

Send(r) ==
  /\ stage[r] = "unsent"
  /\ \A q \in 1..(r - 1) : stage[q] # "unsent"
  /\ stage' = [stage EXCEPT ![r] = "waiting"]
  /\ imports' \in {imports, imports \cup {r}}
  /\ UNCHANGED <<owed, device_busy>>

(* The oldest command that waits is answered.                               *)
Answer(r) ==
  /\ stage[r] = "waiting" /\ ~owed
  /\ \A q \in 1..(r - 1) : stage[q] # "waiting"
  /\ stage' = [stage EXCEPT ![r] = "answered"]
  /\ owed' = (r \in imports)
  /\ UNCHANGED <<imports, device_busy>>

Lost(S) == stage' = [r \in Reqs |-> IF r \in S THEN "lost" ELSE stage[r]]

Lose(S) ==
  /\ \A r \in S : stage[r] = "waiting"
  /\ Lost(S)
  /\ UNCHANGED <<imports, owed, device_busy>>

Grant ==
  /\ owed
  /\ owed' = FALSE /\ device_busy' = TRUE
  /\ UNCHANGED <<stage, imports>>

(* The connection ends, or the device goes.                                 *)
Clear ==
  /\ device_busy' = FALSE
  /\ UNCHANGED <<stage, imports, owed>>

(* The chip is reset.                                                       *)
Reset ==
  /\ Lost({r \in Reqs : stage[r] = "waiting"})
  /\ owed' = FALSE /\ device_busy' = FALSE
  /\ UNCHANGED imports

Next == \/ \E r \in Reqs : Send(r) \/ Answer(r)
        \/ \E S \in SUBSET Reqs : Lose(S)
        \/ Grant \/ Clear \/ Reset

Spec == Init /\ [][Next]_vars

-----------------------------------------------------------------------------
(* What a client may conclude from an answer: everything sent before it, by *)
(* whatever client, has been answered or is lost; no answer comes late.     *)
AnsweredInOrder ==
  \A q, r \in Reqs :
    q < r /\ stage[r] = "answered" => stage[q] \in {"answered", "lost"}

TypeOK ==
  /\ stage \in [Reqs -> Stages]
  /\ imports \subseteq Reqs
  /\ owed \in BOOLEAN /\ device_busy \in BOOLEAN

(* The guards of Send and Answer speak of older commands only at their      *)
(* step; that it stays so needs that commands are sent in order, and that   *)
(* no command begins to wait again.                                         *)
InOrder ==
  \A q, r \in Reqs : q < r =>
    /\ stage[r] # "unsent" => stage[q] # "unsent"
    /\ stage[r] = "answered" => stage[q] # "waiting"

LEMMA InitOrder == Init => TypeOK /\ InOrder
BY DEF Init, TypeOK, InOrder, Stages

LEMMA StepOrder == TypeOK /\ InOrder /\ [Next]_vars => TypeOK' /\ InOrder'
<1> SUFFICES ASSUME TypeOK, InOrder, [Next]_vars PROVE TypeOK' /\ InOrder'
  OBVIOUS
<1> USE DEF TypeOK, Stages
<1>1. ASSUME NEW r \in Reqs, Send(r) \/ Answer(r) PROVE TypeOK' /\ InOrder'
  <2>1. \A q \in Reqs : q < r => q \in 1..(r - 1)
    BY DEF Reqs
  <2>2. TypeOK'
    <3>1. stage' \in [Reqs -> Stages]
      BY <1>1 DEF Send, Answer
    <3>2. imports' \subseteq Reqs /\ device_busy' = device_busy
      BY <1>1 DEF Send, Answer
    <3>3. owed' = owed \/ owed' = (r \in imports)
      BY <1>1 DEF Send, Answer
    <3>4. (r \in imports) \in BOOLEAN
      BY SMT
    <3>5. owed \in BOOLEAN
      BY DEF TypeOK
    <3>6. owed' \in BOOLEAN
      BY <3>3, <3>4, <3>5, Zenon
    <3> QED BY <3>1, <3>2, <3>6
  <2>3. CASE Send(r)
    <3>1. \A q \in Reqs : q < r => stage[q] # "unsent"
      BY <2>1, <2>3 DEF Send
    <3>2. /\ \A q \in Reqs : stage'[q] = IF q = r THEN "waiting" ELSE stage[q]
          /\ stage[r] = "unsent"
      BY <2>3 DEF Send
    <3> QED BY <2>2, <3>1, <3>2 DEF InOrder
  <2>4. CASE Answer(r)
    <3>1. \A q \in Reqs : q < r => stage[q] # "waiting"
      BY <2>1, <2>4 DEF Answer
    <3>2. /\ \A q \in Reqs : stage'[q] = IF q = r THEN "answered" ELSE stage[q]
          /\ stage[r] = "waiting"
      BY <2>4 DEF Answer
    <3> QED BY <2>2, <3>1, <3>2 DEF InOrder
  <2> QED BY <1>1, <2>3, <2>4
<1>2. ASSUME NEW S, \A r \in S : stage[r] = "waiting", Lost(S)
      PROVE  stage' \in [Reqs -> Stages] /\ InOrder'
  BY <1>2 DEF Lost, InOrder
<1>3. ASSUME NEW S \in SUBSET Reqs, Lose(S) PROVE TypeOK' /\ InOrder'
  BY <1>2, <1>3 DEF Lose
<1>4. CASE Reset
  BY <1>2, <1>4 DEF Reset
<1>5. CASE Grant \/ Clear \/ UNCHANGED vars
  BY <1>5 DEF Grant, Clear, vars, InOrder
<1> QED BY <1>1, <1>3, <1>4, <1>5 DEF Next

(* Answers are given in the order in which the commands were sent.          *)
THEOREM OrderPromised == Spec => []AnsweredInOrder
<1>1. TypeOK /\ InOrder => AnsweredInOrder
  BY DEF TypeOK, InOrder, AnsweredInOrder, Stages
<1> QED BY InitOrder, StepOrder, <1>1, PTL DEF Spec
=============================================================================
