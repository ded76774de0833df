----------------------------- MODULE LogService -----------------------------
(***************************************************************************)
(* What the log promises, with no tasks, mutex or files: it is a sequence  *)
(* of entries.  While the repeater runs, lines are added at its end, each  *)
(* once, in two parts of which the second may be missing; no line is taken *)
(* away, except by a clear, which takes the newest first and, if it is     *)
(* completed, leaves nothing.  While the repeater starts, everything may   *)
(* go if the file system has to be formatted; after that the oldest        *)
(* entries may go, but more than Kept stays; then a header is added.  A    *)
(* reset may come at any time, and keeps what there is.                    *)
(***************************************************************************)
EXTENDS Integers, Sequences, FiniteSets, TLAPS, SequenceTheorems

CONSTANTS
  MaxLines,   \* bound on the lines written
  Kept        \* what startup leaves, if it takes entries away

VARIABLES
  log,        \* the entries, oldest first
  phase,      \* reset, starting or running
  clearing    \* a clear is being carried out

vars == <<log, phase, clearing>>

Lines    == 1..MaxLines
Header   == 0                   \* the number of every boot header
Part(n)  == [n |-> n, whole |-> FALSE]
Whole(n) == [n |-> n, whole |-> TRUE]
Size(s)  == Len(s) + Cardinality({i \in DOMAIN s : s[i].whole})

Init == log = <<>> /\ phase = "reset" /\ clearing = FALSE

Start(to) == phase # "running" /\ phase' = to /\ clearing' = clearing
Mount  == phase = "reset" /\ Start("starting") /\ log' \in {log, <<>>}
Run    == Start("running") /\ UNCHANGED log

Forget(k) ==
  /\ phase = "starting"
  /\ log' = SubSeq(log, k + 1, Len(log))
  /\ Size(log') > Kept
  /\ UNCHANGED <<phase, clearing>>

Begin(n) ==
  /\ IF n = Header THEN phase = "starting"
       ELSE /\ phase = "running" /\ ~clearing
            /\ \A i \in DOMAIN log : log[i].n # n
  /\ log' = Append(log, Part(n))
  /\ UNCHANGED <<phase, clearing>>

Finish(n) ==
  /\ log # <<>> /\ log[Len(log)] = Part(n)
  /\ phase # "reset" /\ ~clearing
  /\ log' = [log EXCEPT ![Len(log)] = Whole(n)]
  /\ UNCHANGED <<phase, clearing>>

BeginClear == phase = "running" /\ clearing' = TRUE /\ UNCHANGED <<log, phase>>

Remove(k) ==
  /\ clearing
  /\ log' = SubSeq(log, 1, k)
  /\ UNCHANGED <<phase, clearing>>

EndClear ==
  /\ clearing /\ log = <<>>
  /\ clearing' = FALSE
  /\ UNCHANGED <<log, phase>>

Reset == phase' = "reset" /\ clearing' = FALSE /\ UNCHANGED log

Next == \/ Mount \/ Run \/ BeginClear \/ EndClear \/ Reset
        \/ \E n \in Lines \cup {Header} : Begin(n) \/ Finish(n)
        \/ \E k \in 0..Len(log) : Forget(k) \/ Remove(k)

Spec == Init /\ [][Next]_vars

-----------------------------------------------------------------------------
(* What a reader of the log may conclude: two lines are two messages.       *)
LinesOnce ==
  \A i, j \in DOMAIN log : log[i].n = log[j].n /\ log[i].n # Header => i = j

Entry  == [n : Lines \cup {Header}, whole : BOOLEAN]
TypeOK == log \in Seq(Entry)

LEMMA StepTypeOnce ==
  TypeOK /\ LinesOnce /\ [Next]_vars => TypeOK' /\ LinesOnce'
<1> SUFFICES ASSUME TypeOK, LinesOnce, [Next]_vars PROVE TypeOK' /\ LinesOnce'
  OBVIOUS
<1>0. log \in Seq(Entry) /\ Len(log) \in Nat /\ DOMAIN log = 1..Len(log)
  BY DEF TypeOK
<1>1. CASE UNCHANGED log
  BY <1>1 DEF TypeOK, LinesOnce
<1>2. CASE log' = <<>>
  BY <1>2 DEF TypeOK, LinesOnce
<1>3. ASSUME NEW n \in Lines \cup {Header}, Begin(n) PROVE TypeOK' /\ LinesOnce'
  <2>1. log' = Append(log, Part(n)) /\ Part(n) \in Entry /\ Part(n).n = n
    BY <1>3 DEF Begin, Part, Entry
  <2>2. /\ TypeOK' /\ DOMAIN log' = 1..(Len(log) + 1)
        /\ log'[Len(log) + 1].n = n
        /\ \A i \in 1..Len(log) : log'[i] = log[i]
    BY <1>0, <2>1 DEF TypeOK
  <2>3. n = Header \/ \A i \in 1..Len(log) : log[i].n # n
    BY <1>0, <1>3 DEF Begin
  <2>4. \A i \in DOMAIN log' : i \in 1..Len(log) \/ i = Len(log) + 1
    BY <1>0, <2>2
  <2> QED BY <1>0, <2>2, <2>3, <2>4 DEF LinesOnce
<1>4. ASSUME NEW n \in Lines \cup {Header}, Finish(n) PROVE TypeOK' /\ LinesOnce'
  <2>1. /\ log' = [log EXCEPT ![Len(log)] = Whole(n)] /\ log[Len(log)].n = n
        /\ Whole(n) \in Entry /\ Whole(n).n = n
    BY <1>4 DEF Finish, Part, Whole, Entry
  <2>2. TypeOK' /\ DOMAIN log' = DOMAIN log
    <3>1. Len(log) \in 1..Len(log)
      BY <1>0, <1>4 DEF Finish
    <3> QED BY <1>0, <2>1, <3>1 DEF TypeOK
  <2>3. \A i \in DOMAIN log' : log'[i].n = log[i].n
    BY <1>0, <2>1, <2>2
  <2> QED BY <2>2, <2>3 DEF LinesOnce
<1>5. ASSUME NEW a \in 1..(Len(log) + 1), NEW b \in 0..Len(log),
             log' = SubSeq(log, a, b)
      PROVE  TypeOK' /\ LinesOnce'
  <2>1. /\ TypeOK' /\ DOMAIN log' = 1..Len(log')
        /\ Len(log') = IF a <= b THEN b - a + 1 ELSE 0
        /\ \A i \in 1..(b - a + 1) : log'[i] = log[a + i - 1]
    BY <1>0, <1>5, SubSeqProperties DEF TypeOK
  <2>2. \A i \in DOMAIN log' : /\ i \in Nat /\ log'[i] = log[a + i - 1]
                               /\ a + i - 1 \in DOMAIN log
    BY <1>0, <2>1
  <2>3. \A i, j \in DOMAIN log' : a + i - 1 = a + j - 1 => i = j
    BY <2>2
  <2> QED BY <2>1, <2>2, <2>3 DEF LinesOnce
<1>6. ASSUME NEW k \in 0..Len(log), Forget(k) \/ Remove(k)
      PROVE  TypeOK' /\ LinesOnce'
  <2>1. k + 1 \in 1..(Len(log) + 1) /\ 1 \in 1..(Len(log) + 1)
        /\ Len(log) \in 0..Len(log)
    BY <1>0
  <2> QED BY <1>5, <1>6, <2>1 DEF Forget, Remove
<1>7. CASE Mount \/ Run \/ BeginClear \/ EndClear \/ Reset \/ UNCHANGED vars
  BY <1>1, <1>2, <1>7 DEF Mount, Run, BeginClear, EndClear, Reset, vars
<1> QED BY <1>3, <1>4, <1>6, <1>7 DEF Next

(* No line is in the log twice, whatever is rotated, cleared or cut off.    *)
THEOREM OncePromised == Spec => []LinesOnce
<1>1. Init => TypeOK /\ LinesOnce
  BY DEF Init, TypeOK, LinesOnce
<1> QED BY <1>1, StepTypeOnce, PTL DEF Spec
=============================================================================
