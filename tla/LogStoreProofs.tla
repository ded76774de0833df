--------------------------- MODULE LogStoreProofs ---------------------------
(***************************************************************************)
(* Proofs about LogStore, for every value of its constants.  The           *)
(* invariants, each of which stands on those before it:                    *)
(*   Typed     TypeOK                                                      *)
(*   Owned     who uses the log file has the mutex, and there is a file;   *)
(*             with it MutexIsUsed, that who has the mutex is on its way   *)
(*             through a critical section                                  *)
(*   Tidy      only the last line of a file is torn, and only while it is  *)
(*             written or nothing more fits; what rotation and clearing    *)
(*             have done so far                                            *)
(*   Settled   what /logs has measured or read does not change any more    *)
(*   Distinct  a line is written by one task, and not before               *)
(***************************************************************************)
EXTENDS LogStore, TLAPS, SequenceTheorems, FiniteSetTheorems

-----------------------------------------------------------------------------
(* Files and their sizes.                                                   *)

WholeOf(f) == {i \in DOMAIN f : f[i].whole}

LEMMA SizeOf == \A f : Size(f) = Len(f) + Cardinality(WholeOf(f))
BY DEF Size, WholeOf

LEMMA WholeFinite ==
  ASSUME NEW f \in Files
  PROVE  /\ Len(f) \in Nat /\ DOMAIN f = 1..Len(f)
         /\ IsFiniteSet(WholeOf(f)) /\ Cardinality(WholeOf(f)) \in Nat
<1>1. Len(f) \in Nat /\ DOMAIN f = 1..Len(f)
  BY DEF Files
<1>2. IsFiniteSet(1..Len(f))
  BY <1>1, FS_Interval
<1>3. IsFiniteSet(WholeOf(f))
  BY <1>1, <1>2, FS_Subset DEF WholeOf
<1> QED BY <1>1, <1>3, FS_CardinalityType

LEMMA SizeType == ASSUME NEW f \in Files PROVE Size(f) \in Nat
BY WholeFinite, SizeOf

LEMMA SizeEmpty == << >> \in Files /\ Size(<< >>) = 0
<1>1. << >> \in Files /\ Len(<< >>) = 0
  BY DEF Files
<1>2. WholeOf(<< >>) = {}
  BY DEF WholeOf
<1> QED BY <1>1, <1>2, SizeOf, FS_EmptySet

(* The first half of an entry is one more.                                  *)
LEMMA SizeAppend ==
  ASSUME NEW f \in Files, NEW n \in Lines \cup {Header}
  PROVE  LET g == Append(f, Half(n))
         IN  /\ g \in Files /\ Len(g) = Len(f) + 1 /\ Size(g) = Size(f) + 1
             /\ g[Len(f) + 1] = Half(n)
             /\ \A i \in 1..Len(f) : g[i] = f[i]
<1> DEFINE e == Half(n)
           g == Append(f, e)
<1>1. e \in Entry
  BY DEF Entry, Half
<1>2. g \in Files /\ Len(g) = Len(f) + 1 /\ DOMAIN g = 1..(Len(f) + 1)
  BY <1>1 DEF Files
<1>3. \A i \in 1..Len(f) : g[i] = f[i]
  BY <1>1 DEF Files
<1>4. g[Len(f) + 1] = e
  BY <1>1 DEF Files
<1>5. Len(f) \in Nat /\ DOMAIN f = 1..Len(f)
  BY WholeFinite
<1>6. WholeOf(g) = WholeOf(f)
  <2> HIDE DEF g
  <2>1. ~g[Len(f) + 1].whole
    BY <1>4 DEF Half
  <2> QED BY <1>2, <1>3, <1>5, <2>1 DEF WholeOf
<1> HIDE DEF g
<1>7. Cardinality(WholeOf(f)) \in Nat
  BY WholeFinite
<1>8. Size(g) = Size(f) + 1
  BY <1>2, <1>5, <1>6, <1>7, SizeOf
<1> QED BY <1>2, <1>3, <1>4, <1>8 DEF g

(* And so is the second.                                                    *)
LEMMA SizeWhole ==
  ASSUME NEW f \in Files, NEW n \in Lines \cup {Header}, EndsIn(f, Half(n))
  PROVE  LET g == [f EXCEPT ![Len(f)] = Whole(n)]
         IN  /\ g \in Files /\ Len(g) = Len(f) /\ Size(g) = Size(f) + 1
             /\ g[Len(f)] = Whole(n)
             /\ \A i \in 1..(Len(f) - 1) : g[i] = f[i]
<1> DEFINE k == Len(f)
           g == [f EXCEPT ![k] = Whole(n)]
<1>1. k \in Nat \ {0} /\ DOMAIN f = 1..k /\ k \in 1..k
  BY DEF Files, EndsIn
<1>2. Whole(n) \in Entry
  BY DEF Entry, Whole
<1>3. g \in Files /\ Len(g) = k
  BY <1>1, <1>2, ExceptSeq DEF Files
<1>4. g[k] = Whole(n) /\ \A i \in 1..(k - 1) : g[i] = f[i]
  <2>1. \A j \in 1..k : g[j] = IF j = k THEN Whole(n) ELSE f[j]
    BY <1>1
  <2> HIDE DEF g, k
  <2> QED BY <1>1, <2>1
<1>5. DOMAIN g = 1..k
  BY <1>3, WholeFinite
<1>6. WholeOf(g) = WholeOf(f) \cup {k}
  <2> HIDE DEF g
  <2>1. g[k].whole
    BY <1>4 DEF Whole
  <2> HIDE DEF k
  <2> QED BY <1>1, <1>4, <1>5, <2>1 DEF WholeOf
<1>7. k \notin WholeOf(f)
  BY DEF WholeOf, EndsIn, Half
<1>8. Cardinality(WholeOf(g)) = Cardinality(WholeOf(f)) + 1
  BY <1>6, <1>7, WholeFinite, FS_AddElement
<1> HIDE DEF g
<1>9. Size(g) = Size(f) + 1
  BY <1>1, <1>3, <1>8, WholeFinite, SizeOf
<1> QED BY <1>3, <1>4, <1>9 DEF g

(* A longer prefix is larger.                                               *)
LEMMA Prefix ==
  ASSUME NEW f \in Files, NEW k \in 0..Len(f)
  PROVE  /\ SubSeq(f, 1, k) \in Files /\ Len(SubSeq(f, 1, k)) = k
         /\ \A i \in 1..k : SubSeq(f, 1, k)[i] = f[i]
         /\ WholeOf(SubSeq(f, 1, k)) = {i \in 1..k : f[i].whole}
<1>1. Len(f) \in Nat /\ k \in Nat /\ k <= Len(f)
  BY WholeFinite
<1>2. \A i \in 1..k : f[i] \in Entry
  BY <1>1 DEF Files
<1>3. /\ SubSeq(f, 1, k) \in Seq(Entry)
      /\ Len(SubSeq(f, 1, k)) = IF 1 <= k THEN k - 1 + 1 ELSE 0
      /\ \A i \in 1..(k - 1 + 1) : SubSeq(f, 1, k)[i] = f[1 + i - 1]
  BY <1>1, <1>2, SubSeqProperties DEF Files
<1> DEFINE s == SubSeq(f, 1, k)
<1>4. s \in Files /\ Len(s) = k
  BY <1>1, <1>3 DEF Files
<1>5. \A i \in 1..k : s[i] = f[i]
  BY <1>1, <1>3
<1>6. DOMAIN s = 1..k
  BY <1>4, WholeFinite
<1> HIDE DEF s
<1>7. WholeOf(s) = {i \in 1..k : f[i].whole}
  BY <1>5, <1>6 DEF WholeOf
<1> QED BY <1>4, <1>5, <1>7 DEF s

LEMMA PrefixLarger ==
  ASSUME NEW f \in Files, NEW j \in 0..Len(f), NEW k \in 0..Len(f), j < k
  PROVE  /\ Size(SubSeq(f, 1, j)) \in Nat /\ Size(SubSeq(f, 1, k)) \in Nat
         /\ Size(SubSeq(f, 1, j)) < Size(SubSeq(f, 1, k))
<1> DEFINE A == WholeOf(SubSeq(f, 1, j))
           B == WholeOf(SubSeq(f, 1, k))
<1>1. Len(f) \in Nat
  BY WholeFinite
<1>2. A \subseteq B
  <2>1. A = {i \in 1..j : f[i].whole} /\ B = {i \in 1..k : f[i].whole}
    BY Prefix
  <2> QED BY <1>1, <2>1
<1>3. SubSeq(f, 1, j) \in Files /\ SubSeq(f, 1, k) \in Files
  BY Prefix
<1>4. IsFiniteSet(B) /\ Cardinality(A) \in Nat /\ Cardinality(B) \in Nat
  BY <1>3, WholeFinite
<1>5. Cardinality(A) <= Cardinality(B)
  BY <1>2, <1>4, FS_Subset
<1>6. /\ Size(SubSeq(f, 1, j)) = j + Cardinality(A)
      /\ Size(SubSeq(f, 1, k)) = k + Cardinality(B)
  BY SizeOf, Prefix
<1> HIDE DEF A, B
<1> QED BY <1>1, <1>4, <1>5, <1>6

(* A read of as many halves as a prefix has returns that prefix.            *)
LEMMA CutPrefix ==
  ASSUME NEW f \in Files, NEW m \in 0..Len(f)
  PROVE  Cut(f, Size(SubSeq(f, 1, m))) = SubSeq(f, 1, m)
<1> DEFINE n == Size(SubSeq(f, 1, m))
           Fits(k) == /\ Size(SubSeq(f, 1, k)) <= n
                      /\ k = Len(f) \/ Size(SubSeq(f, 1, k + 1)) > n
           fits == CHOOSE k \in 0..Len(f) : Fits(k)
<1>1. Len(f) \in Nat
  BY WholeFinite
<1>2. n \in Nat
  BY Prefix, SizeType
<1>3. Fits(m)
  <2>1. m # Len(f) => m + 1 \in 0..Len(f) /\ m < m + 1
    BY <1>1
  <2> QED BY <1>2, <2>1, PrefixLarger
<1>4. ASSUME NEW k \in 0..Len(f), Fits(k) PROVE k = m
  <2>1. ~(m < k)
    BY <1>4, PrefixLarger, <1>2
  <2>2. ~(k < m)
    <3>1. SUFFICES ASSUME k < m PROVE FALSE
      OBVIOUS
    <3>2. k # Len(f) /\ k + 1 \in 0..Len(f) /\ k + 1 <= m
      BY <1>1, <3>1
    <3>3. Size(SubSeq(f, 1, k + 1)) <= n
      BY <3>2, <1>2, PrefixLarger
    <3>4. Size(SubSeq(f, 1, k + 1)) \in Nat
      BY <3>2, Prefix, SizeType
    <3> QED BY <1>2, <1>4, <3>2, <3>3, <3>4
  <2> QED BY <1>1, <2>1, <2>2
<1>5. fits \in 0..Len(f) /\ Fits(fits)
  BY <1>3
<1>6. fits = m
  BY <1>4, <1>5
<1>7. Cut(f, n) =
        LET start == SubSeq(f, 1, fits)
        IN IF Size(start) < n /\ fits < Len(f)
             THEN Append(start, [f[fits + 1] EXCEPT !.whole = FALSE]) ELSE start
  BY DEF Cut
<1>8. ~(Size(SubSeq(f, 1, m)) < n)
  BY <1>2
<1> QED BY <1>6, <1>7, <1>8

-----------------------------------------------------------------------------
(* Types.                                                                   *)

FilesOK == /\ cur \in Files /\ old \in Files
           /\ Size(cur) + Size(old) <= Capacity

LEMMA FirstType ==
  ASSUME FilesOK, NEW n \in Lines \cup {Header}, WriteFirst(n), UNCHANGED old
  PROVE  FilesOK'
<1>1. Size(cur) \in Nat /\ Size(old) \in Nat /\ Capacity \in Nat
  BY SizeType, ConstantsAssumption DEF FilesOK
<1>2. CASE Free > 0
  <2>1. cur' \in Files /\ Size(cur') = Size(cur) + 1
    BY <1>2, SizeAppend DEF FilesOK, WriteFirst
  <2> QED BY <1>1, <1>2, <2>1 DEF FilesOK, Free
<1>3. CASE ~(Free > 0)
  BY <1>3 DEF FilesOK, WriteFirst
<1> QED BY <1>2, <1>3

LEMMA RestType ==
  ASSUME FilesOK, NEW n \in Lines \cup {Header}, WriteRest(n), UNCHANGED old
  PROVE  FilesOK'
<1>1. Size(cur) \in Nat /\ Size(old) \in Nat /\ Capacity \in Nat
  BY SizeType, ConstantsAssumption DEF FilesOK
<1>2. CASE Free > 0 /\ EndsIn(cur, Half(n))
  <2>1. cur' \in Files /\ Size(cur') = Size(cur) + 1
    BY <1>2, SizeWhole DEF FilesOK, WriteRest
  <2> QED BY <1>1, <1>2, <2>1 DEF FilesOK, Free
<1>3. CASE ~(Free > 0 /\ EndsIn(cur, Half(n)))
  BY <1>3 DEF FilesOK, WriteRest
<1> QED BY <1>2, <1>3

LEMMA FilesEmptied ==
  ASSUME FilesOK, cur' \in {cur, << >>}, old' \in {old, << >>}
  PROVE  FilesOK'
<1>1. Size(cur) \in Nat /\ Size(old) \in Nat /\ Capacity \in Nat
  BY SizeType, ConstantsAssumption DEF FilesOK
<1> QED BY <1>1, SizeEmpty DEF FilesOK

LEMMA InitType == Init => TypeOK
<1> SUFFICES ASSUME Init PROVE TypeOK
  OBVIOUS
<1>1. writing \in [Tasks -> Writing]
  BY ConstantsAssumption DEF Init, Writing, NotWriting
<1> QED BY <1>1, SizeEmpty, ConstantsAssumption DEF Init, TypeOK

(* The lines that a task carries, and what becomes of writing.              *)
LEMMA WritingType ==
  ASSUME TypeOK, NEW t \in Tasks
  PROVE  /\ writing[t] \in Writing
         /\ writing[t].pc # "idle" => writing[t].n \in 0..MaxLines
         /\ Done(t) => writing' \in [Tasks -> Writing]
         /\ \A pc \in {"take", "write", "rest"} :
              Goto(t, pc) => writing' \in [Tasks -> Writing]
         /\ NewLine(t) => /\ writing' \in [Tasks -> Writing]
                          /\ lines' \in 0..MaxLines
BY ConstantsAssumption
DEF TypeOK, Writing, NotWriting, Done, Goto, NewLine

LEMMA LineType ==
  ASSUME NEW n \in 0..MaxLines
  PROVE  n \in Lines \cup {Header}
BY ConstantsAssumption DEF Lines, Header

LEMMA ResetType == TypeOK /\ Reset => TypeOK'
<1> SUFFICES ASSUME TypeOK, Reset PROVE TypeOK'
  OBVIOUS
<1>1. writing' \in [Tasks -> Writing]
  BY ConstantsAssumption DEF Reset, Writing, NotWriting
<1> QED BY <1>1, SizeEmpty DEF TypeOK, Reset, files
-----------------------------------------------------------------------------
(* Who has the mutex.                                                       *)

Holding == {"measure", "copy", "close", "remove", "remove_old", "reopen"}

Owned ==
  /\ boot # "run" => http = "idle" /\ \A t \in Tasks : writing[t].pc = "idle"
  /\ \A t \in Tasks : Using(t) => log_mutex = t
  /\ \A t \in Tasks : writing[t].pc = "rest" => log_file # "null"
  /\ http \in Holding => log_mutex = Httpd
  /\ http # "restart" => writing[Httpd].pc = "idle"
  /\ boot \in {"reset", "open"} => log_file = "null"
  /\ boot \in {"check", "header", "rest", "return"} => log_file = "open"
  /\ log_file = "closed" => \/ boot \in {"remove", "rename", "reopen"}
                            \/ http \in {"remove", "remove_old", "reopen"}
  /\ http \in {"measure", "alloc", "read", "copy", "close"} => log_file = "open"

LEMMA InitOwned == Init => Owned
BY DEF Init, Owned, NotWriting, Using, Holding, Tasks

LEMMA ResetOwned == TypeOK /\ Reset => Owned'
BY DEF TypeOK, Reset, Owned, NotWriting, Using, Holding, Tasks

(* A task of log_write only takes a free mutex, and gives what it has.      *)
LEMMA WriteOwned ==
  ASSUME TypeOK, Owned, NEW t \in Tasks, Write(t)
  PROVE  Owned'
<1>1. Httpd \in Tasks /\ "free" \notin Tasks /\ "none" \notin Tasks
  BY ConstantsAssumption DEF Tasks
<1>2. \A u \in Tasks : writing[u] \in Writing
  BY DEF TypeOK
<1>3. \A pc : Goto(t, pc) => \A u \in Tasks :
                writing'[u].pc = IF u = t THEN pc ELSE writing[u].pc
  BY <1>2 DEF Goto, TypeOK, Writing
<1>4. Done(t) => \A u \in Tasks :
                writing'[u].pc = IF u = t THEN "idle" ELSE writing[u].pc
  BY DEF Done, TypeOK, NotWriting
<1>5. CASE TakeMutex(t)
  BY <1>1, <1>3, <1>5 DEF TakeMutex, Owned, Using, files, httpVars, Holding
<1>6. CASE TakeTimeout(t)
  BY <1>1, <1>4, <1>6 DEF TakeTimeout, DropsLine, Owned, Using, files, httpVars, Holding
<1>7. CASE WriteLine(t)
  BY <1>1, <1>3, <1>7 DEF WriteLine, Owned, Using, files, httpVars, Holding
<1>8. CASE EndLine(t)
  <2>1. log_mutex = t /\ log_mutex' = "free"
    BY <1>8 DEF EndLine, Owned, Using
  <2>2. http \notin Holding
    BY <1>8, <2>1 DEF EndLine, Owned, Using, Holding
  <2> QED BY <1>1, <1>4, <1>8, <2>1, <2>2
          DEF EndLine, Owned, Using, files, httpVars, Holding
<1>9. CASE Panic(t)
  BY <1>9, ResetOwned DEF Panic
<1> QED BY <1>5, <1>6, <1>7, <1>8, <1>9 DEF Write

LEMMA StartupOwned ==
  ASSUME TypeOK, Owned, Startup
  PROVE  Owned'
<1>1. boot # "run" => \A t \in Tasks : ~Using(t)
  BY DEF Owned, Using
<1> USE <1>1 DEF Owned, Using, Holding, files, httpVars, TypeOK
<1>2. CASE Mount
  BY <1>2 DEF Mount
<1>3. CASE OpenLog
  BY <1>3 DEF OpenLog, Open
<1>4. CASE CheckSize
  BY <1>4 DEF CheckSize, ThenHeader
<1>5. CASE RotateRemove \/ RotateRename
  BY <1>5 DEF RotateRemove, RotateRename
<1>6. CASE RotateReopen
  BY <1>6 DEF RotateReopen, Open, ThenHeader
<1>7. CASE WriteHeader \/ EndHeader \/ Return
  BY <1>7 DEF WriteHeader, EndHeader, Return
<1> QED BY <1>2, <1>3, <1>4, <1>5, <1>6, <1>7 DEF Startup

LEMMA HttpOwned ==
  ASSUME TypeOK, Owned, Request \/ Take \/ Serve
  PROVE  Owned'
<1>1. Httpd \in Tasks /\ "free" \notin Tasks
  BY ConstantsAssumption DEF Tasks
<1>2. http # "idle" => boot = "run"
  BY DEF Owned
<1> USE <1>1, <1>2 DEF Owned, Using, Holding, files, httpVars, TypeOK, HttpStep
<1>3. CASE RequestRestart
  <2>1. CASE Ready /\ lines < MaxLines
    <3>1. \A t \in Tasks : writing'[t].pc =
            IF t = Httpd THEN "take" ELSE writing[t].pc
      BY <1>3, <2>1 DEF RequestRestart, NewLine
    <3> QED BY <1>3, <2>1, <3>1 DEF RequestRestart
  <2>2. CASE ~(Ready /\ lines < MaxLines)
    BY <1>3, <2>2 DEF RequestRestart
  <2> QED BY <2>1, <2>2
<1>4. CASE RequestLogs \/ RequestClear
  BY <1>4 DEF RequestLogs, RequestClear
<1>5. CASE Restart
  BY <1>5, ResetOwned DEF Restart
<1>6. ASSUME NEW t \in Tasks, http \in Holding, Using(t) PROVE FALSE
  BY <1>6
<1>7. CASE TakeToMeasure
  BY <1>7 DEF TakeToMeasure, Ready
<1>8. CASE TakeToRead
  BY <1>8 DEF TakeToRead, Ready
<1>9. CASE TakeToClear
  BY <1>9 DEF TakeToClear, Ready
<1>10. CASE Measure
  BY <1>6, <1>10 DEF Measure
<1>11. CASE Copy
  BY <1>6, <1>11 DEF Copy
<1>12. CASE CopyFails
  BY <1>6, <1>12 DEF CopyFails, GivesMutex
<1>13. CASE Allocate \/ ReplyWithoutLog \/ Respond
  BY <1>13 DEF Allocate, ReplyWithoutLog, Respond
<1>14. CASE ClearClose
  BY <1>14 DEF ClearClose
<1>15. CASE ClearCurrent \/ ClearOld
  BY <1>15 DEF ClearCurrent, ClearOld
<1>16. CASE ClearReopen
  BY <1>6, <1>16 DEF ClearReopen
<1> QED BY <1>3, <1>4, <1>5, <1>7, <1>8, <1>9, <1>10, <1>11, <1>12, <1>13,
           <1>14, <1>15, <1>16 DEF Request, Take, Serve

LEMMA NextOwned == TypeOK /\ Owned /\ [Next]_vars => Owned'
<1> SUFFICES ASSUME TypeOK, Owned, [Next]_vars PROVE Owned'
  OBVIOUS
<1>1. CASE \E t \in Writers : LogWrite(t)
  <2>1. PICK t \in Writers : LogWrite(t)
    BY <1>1
  <2>2. t \in Tasks /\ t # Httpd /\ boot = "run"
    BY <2>1, ConstantsAssumption DEF Tasks, LogWrite
  <2>3. \A u \in Tasks : writing'[u].pc = IF u = t THEN "take" ELSE writing[u].pc
    BY <2>1, <2>2 DEF LogWrite, NewLine, TypeOK
  <2>4. Httpd \in Tasks
    BY DEF Tasks
  <2> QED BY <2>1, <2>2, <2>3, <2>4 DEF LogWrite, Owned, Using, files, httpVars
<1>2. CASE UNCHANGED vars
  BY <1>2 DEF vars, files, httpVars, Owned, Using, Holding
<1> QED BY <1>1, <1>2, WriteOwned, StartupOwned, HttpOwned, ResetOwned DEF Next

(* So the stream is never used while it is closed.                          *)
LEMMA OwnedNoClosed == TypeOK /\ Owned => NoClosedStream
<1> SUFFICES ASSUME TypeOK, Owned PROVE NoClosedStream
  OBVIOUS
<1>1. Httpd \in Tasks
  BY DEF Tasks
<1> QED BY <1>1 DEF Owned, NoClosedStream, Using, Holding, TypeOK
-----------------------------------------------------------------------------
(* What writing does to the end of a file.                                  *)

(* The next line will not be glued to anything.                             *)
Ended == Free <= 0 \/ cur = << >> \/ cur[Len(cur)].whole

LEMMA FreeInt == FilesOK => Free \in Int
BY SizeType, ConstantsAssumption DEF FilesOK, Free

LEMMA FirstTidy ==
  ASSUME FilesOK, NEW n \in Lines \cup {Header}, WriteFirst(n), UNCHANGED old,
         NotGlued(cur), n = Header \/ Ended
  PROVE  NotGlued(cur') /\ (EndsIn(cur, Half(n))' \/ Free' <= 0)
<1>1. CASE Free > 0
  <2>1. /\ cur' \in Files /\ Len(cur') = Len(cur) + 1
        /\ cur'[Len(cur) + 1] = Half(n)
        /\ \A i \in 1..Len(cur) : cur'[i] = cur[i]
    BY <1>1, SizeAppend DEF FilesOK, WriteFirst
  <2>2. Len(cur) \in Nat
    BY WholeFinite DEF FilesOK
  <2>3. cur' # << >>
    BY <2>1, <2>2
  <2>4. EndsIn(cur, Half(n))'
    BY <2>1, <2>3 DEF EndsIn
  <2>5. NotGlued(cur')
    <3> SUFFICES ASSUME NEW i \in 1..(Len(cur') - 1)
                 PROVE  cur'[i].whole \/ cur'[i + 1].n = Header
      BY DEF NotGlued
    <3>1. CASE i < Len(cur)
      BY <2>1, <2>2, <3>1 DEF NotGlued
    <3>2. CASE i = Len(cur)
      <4>1. Half(n).n = n
        BY DEF Half
      <4>2. cur # << >> /\ cur'[i] = cur[Len(cur)]
        BY <2>1, <2>2, <3>2
      <4> QED BY <1>1, <2>1, <3>2, <4>1, <4>2 , FreeInt DEF Ended
    <3> QED BY <2>1, <2>2, <3>1, <3>2
  <2> QED BY <2>4, <2>5
<1>2. CASE ~(Free > 0)
  <2>1. cur' = cur /\ Free' = Free
    BY <1>2 DEF WriteFirst, Free
  <2> QED BY <1>2, <2>1, FreeInt
<1> QED BY <1>1, <1>2

LEMMA RestTidy ==
  ASSUME FilesOK, NEW n \in Lines \cup {Header}, WriteRest(n), UNCHANGED old,
         NotGlued(cur), Ended \/ EndsIn(cur, Half(n))
  PROVE  NotGlued(cur') /\ Ended'
<1>1. CASE Free > 0 /\ EndsIn(cur, Half(n))
  <2>1. /\ cur' \in Files /\ Len(cur') = Len(cur) /\ cur'[Len(cur)] = Whole(n)
        /\ \A i \in 1..(Len(cur) - 1) : cur'[i] = cur[i]
    BY <1>1, SizeWhole DEF FilesOK, WriteRest
  <2>2. Len(cur) \in Nat
    BY WholeFinite DEF FilesOK
  <2>3. cur'[Len(cur')].whole
    BY <2>1 DEF Whole
  <2>4. cur'[Len(cur)].n = cur[Len(cur)].n
    BY <1>1, <2>1 DEF Whole, Half, EndsIn
  <2>5. NotGlued(cur')
    <3> SUFFICES ASSUME NEW i \in 1..(Len(cur') - 1)
                 PROVE  cur'[i].whole \/ cur'[i + 1].n = Header
      BY DEF NotGlued
    <3>1. cur'[i] = cur[i] /\ cur'[i + 1].n = cur[i + 1].n
      BY <2>1, <2>2, <2>4
    <3> QED BY <2>1, <2>2, <3>1 DEF NotGlued
  <2> QED BY <2>3, <2>5 DEF Ended
<1>2. CASE ~(Free > 0 /\ EndsIn(cur, Half(n)))
  <2>1. cur' = cur /\ Free' = Free
    BY <1>2 DEF WriteRest, Free
  <2>2. Ended
    BY <1>2, FreeInt DEF Ended
  <2> QED BY <2>1, <2>2 DEF Ended
<1> QED BY <1>1, <1>2

(* Freeing space takes the end of a file with it.                           *)
LEMMA EmptyEnded == cur = << >> => Ended
BY DEF Ended

-----------------------------------------------------------------------------
(* Torn lines, rotation and clearing.                                       *)

Torn(t) == writing[t].pc = "rest" /\ EndsIn(cur, Half(writing[t].n))

Tidy ==
  /\ NotGlued(cur) /\ NotGlued(old)
  /\ boot = "return" => Ended
  /\ boot = "rest" => EndsIn(cur, Half(Header)) \/ Ended
  /\ boot = "run" /\ log_file # "null" => Ended \/ \E t \in Tasks : Torn(t)
  /\ boot = "remove" => Size(cur) > MaxSize
  /\ boot = "rename" => old = << >>
  /\ boot = "reopen" => cur = << >>
  /\ RotatedAtBoot
  /\ http \in {"remove_old", "reopen"} => cur = << >>
  /\ http = "reopen" => old = << >>

LEMMA EmptyNotGlued == NotGlued(<< >>)
BY DEF NotGlued

LEMMA InitTidy == Init => Tidy
BY EmptyNotGlued DEF Init, Tidy, RotatedAtBoot

LEMMA TypeFiles == TypeOK => FilesOK
BY DEF TypeOK, FilesOK

LEMMA ResetTidy == Tidy /\ Reset => Tidy'
BY DEF Tidy, Reset, files, RotatedAtBoot

LEMMA StartupTidy ==
  ASSUME TypeOK, Owned, Tidy, Startup
  PROVE  Tidy'
<1>1. http = "idle" \/ boot = "run"
  BY DEF Owned
<1>2. Header \in Lines \cup {Header} /\ FilesOK
  BY TypeFiles
<1>3. boot \in {"reset", "open"} => log_file = "null"
  BY DEF Owned
<1> USE <1>1, <1>3, EmptyNotGlued DEF Tidy, RotatedAtBoot, files, httpVars
<1>4. CASE Mount
  BY <1>4 DEF Mount
<1>5. CASE OpenLog
  BY <1>5 DEF OpenLog, Open
<1>6. CASE CheckSize
  <2>1. Size(cur) \in Nat /\ MaxSize \in Nat
    BY <1>2, SizeType, ConstantsAssumption DEF FilesOK
  <2> QED BY <1>6, <2>1 DEF CheckSize, TooLarge, ThenHeader
<1>7. CASE RotateRemove
  BY <1>7 DEF RotateRemove, RemovesOld
<1>8. CASE RotateRename
  BY <1>8 DEF RotateRename
<1>9. CASE RotateReopen
  <2>1. Size(cur) <= MaxSize
    BY <1>9, SizeEmpty, ConstantsAssumption DEF RotateReopen
  <2> QED BY <1>9, <2>1 DEF RotateReopen, Open, ThenHeader
<1>10. CASE WriteHeader
  <2>1. NotGlued(cur') /\ (EndsIn(cur, Half(Header))' \/ Free' <= 0)
    BY <1>2, <1>10, FirstTidy DEF WriteHeader
  <2> QED BY <1>10, <2>1 DEF WriteHeader, Ended
<1>11. CASE EndHeader
  <2>1. NotGlued(cur') /\ Ended'
    BY <1>2, <1>11, RestTidy DEF EndHeader
  <2> QED BY <1>11, <2>1 DEF EndHeader
<1>12. CASE Return
  <2>1. Ended'
    BY <1>12 DEF Return, Ended, Free
  <2> QED BY <1>12, <2>1 DEF Return
<1> QED BY <1>4, <1>5, <1>6, <1>7, <1>8, <1>9, <1>10, <1>11, <1>12 DEF Startup

LEMMA WriteTidy ==
  ASSUME TypeOK, Owned, Tidy, NEW t \in Tasks, Write(t)
  PROVE  Tidy'
<1>1. FilesOK /\ writing[t] \in Writing
  BY TypeFiles DEF TypeOK
<1>2. writing[t].n \in Lines \cup {Header}
  BY <1>1, LineType DEF Writing
<1>3. writing[t].pc # "idle" => boot = "run"
  BY DEF Owned
<1>4. \A u \in Tasks : Using(u) => log_mutex = u
  BY DEF Owned
<1>5. Using(t) => http \notin {"remove", "remove_old", "reopen"}
  <2>1. Using(t) /\ http \in Holding => t = Httpd /\ http = "restart"
    BY DEF Owned, Using
  <2> QED BY <2>1 DEF Holding
<1> USE DEF Tidy, RotatedAtBoot, files, httpVars
<1>6. CASE TakeMutex(t)
  <2>1. \A u \in Tasks : writing[u].pc # "rest"
    BY <1>4, <1>6, ConstantsAssumption DEF TakeMutex, Using, Tasks
  <2>2. Ended => Ended'
    BY <1>6 DEF TakeMutex, Ended, Free
  <2> QED BY <1>3, <1>6, <2>1, <2>2 DEF TakeMutex, Torn
<1>7. CASE TakeTimeout(t)
  <2>1. Ended => Ended'
    BY <1>7 DEF TakeTimeout, Ended, Free
  <2>2. ASSUME NEW u \in Tasks, Torn(u) PROVE Torn(u)'
    <3>1. u # t
      BY <1>7, <2>2 DEF TakeTimeout, Torn
    <3>2. writing'[u] = writing[u]
      BY <1>7, <3>1 DEF TakeTimeout, DropsLine, Done, TypeOK
    <3> QED BY <1>7, <2>2, <3>2 DEF TakeTimeout, Torn
  <2> QED BY <1>3, <1>7, <2>1, <2>2 DEF TakeTimeout
<1>8. CASE WriteLine(t)
  <2>1. Using(t) /\ boot = "run" /\ log_file # "null"
    BY <1>3, <1>8 DEF WriteLine, Using
  <2>2. Ended
    <3>1. \A u \in Tasks : ~Torn(u)
      BY <1>4, <1>8, <2>1 DEF WriteLine, Using, Torn
    <3> QED BY <2>1, <3>1
  <2>3. NotGlued(cur') /\ (EndsIn(cur, Half(writing[t].n))' \/ Free' <= 0)
    <3> DEFINE n == writing[t].n
    <3>1. WriteFirst(n) /\ UNCHANGED old
      BY <1>8 DEF WriteLine
    <3>2. n \in Lines \cup {Header} /\ writing'[t].n = writing[t].n
      BY <1>1, <1>2, <1>8 DEF WriteLine, Goto, TypeOK, Writing
    <3> HIDE DEF n
    <3>3. ASSUME NEW k \in Lines \cup {Header}, k = n
          PROVE  NotGlued(cur') /\ (EndsIn(cur', Half(k)) \/ Free' <= 0)
      <4>1. WriteFirst(k)
        BY <3>1, <3>3
      <4>2. NotGlued(cur') /\ (EndsIn(cur, Half(k))' \/ Free' <= 0)
        BY <1>1, <2>2, <3>1, <4>1, FirstTidy
      <4> QED BY <4>2
    <3> QED BY <3>2, <3>3 DEF n
  <2>4. Ended' \/ Torn(t)'
    <3>1. writing'[t].pc = "rest"
      BY <1>1, <1>8 DEF WriteLine, Goto, TypeOK, Writing
    <3> QED BY <2>3, <3>1 DEF Ended, Torn
  <2>5. http' \notin {"remove_old", "reopen"} /\ boot' = "run" /\ old' = old
    BY <1>5, <1>8, <2>1 DEF WriteLine
  <2> QED BY <2>3, <2>4, <2>5
<1>9. CASE EndLine(t)
  <2>1. Using(t) /\ boot = "run"
    BY <1>3, <1>9 DEF EndLine, Using
  <2>2. Ended \/ EndsIn(cur, Half(writing[t].n))
    <3>1. log_file # "null"
      BY <1>9 DEF EndLine, Owned
    <3> QED BY <1>4, <2>1, <3>1 DEF Using, Torn
  <2>3. http' \notin {"remove_old", "reopen"} /\ boot' = "run" /\ old' = old
    BY <1>5, <1>9, <2>1 DEF EndLine
  <2>4. NotGlued(cur') /\ Ended'
    BY <1>1, <1>2, <1>9, <2>2, RestTidy DEF EndLine
  <2> QED BY <1>9, <2>3, <2>4 DEF EndLine
<1>10. CASE Panic(t)
  BY <1>10, ResetTidy DEF Panic
<1> QED BY <1>6, <1>7, <1>8, <1>9, <1>10 DEF Write
LEMMA HttpTidy ==
  ASSUME TypeOK, Owned, Tidy, Request \/ Take \/ Serve
  PROVE  Tidy'
<1>1. Httpd \in Tasks
  BY DEF Tasks
<1>2. http # "idle" => boot = "run"
  BY DEF Owned
<1>3. ASSUME UNCHANGED <<cur, old, writing>>
      PROVE  /\ Ended => Ended'
             /\ \A t \in Tasks : Torn(t) => Torn(t)'
  BY <1>3 DEF Ended, Free, Torn
<1>4. ASSUME http \in Holding PROVE \A t \in Tasks : ~Torn(t)
  BY <1>4 DEF Owned, Using, Torn, Holding
<1> USE <1>1, <1>2, EmptyNotGlued DEF Tidy, RotatedAtBoot, files, httpVars, HttpStep
<1>5. CASE RequestRestart
  <2>1. ASSUME NEW t \in Tasks, Torn(t) PROVE Torn(t)'
    <3>1. writing[Httpd].pc = "idle" /\ t # Httpd
      BY <1>5, <2>1 DEF RequestRestart, Owned, Torn
    <3>2. writing'[t] = writing[t]
      BY <1>5, <3>1 DEF RequestRestart, NewLine, TypeOK
    <3> QED BY <1>5, <2>1, <3>2 DEF RequestRestart, Torn
  <2>2. Ended => Ended'
    BY <1>5 DEF RequestRestart, Ended, Free
  <2> QED BY <1>5, <2>1, <2>2 DEF RequestRestart
<1>6. CASE Restart
  BY <1>6, ResetTidy DEF Restart
<1>7. CASE RequestLogs \/ RequestClear
  BY <1>3, <1>7 DEF RequestLogs, RequestClear
<1>8. CASE TakeToMeasure \/ TakeToRead \/ TakeToClear
  BY <1>3, <1>8 DEF TakeToMeasure, TakeToRead, TakeToClear
<1>9. CASE Measure \/ Allocate \/ Copy \/ CopyFails \/ ReplyWithoutLog \/ Respond
  BY <1>3, <1>9 DEF Measure, Allocate, Copy, CopyFails, ReplyWithoutLog, Respond
<1>10. CASE ClearClose
  <2>1. Ended'
    <3>1. log_file # "null" /\ \A t \in Tasks : ~Torn(t)
      BY <1>4, <1>10 DEF ClearClose, Owned, Holding
    <3> QED BY <1>3, <1>10, <3>1 DEF ClearClose
  <2> QED BY <1>10, <2>1 DEF ClearClose
<1>11. CASE ClearCurrent
  <2>1. Ended'
    BY <1>11 DEF ClearCurrent, Ended
  <2> QED BY <1>11, <2>1 DEF ClearCurrent
<1>12. CASE ClearOld
  <2>1. Ended'
    BY <1>12 DEF ClearOld, Ended
  <2> QED BY <1>12, <2>1 DEF ClearOld
<1>13. CASE ClearReopen
  <2>1. Ended'
    BY <1>13 DEF ClearReopen, Ended
  <2> QED BY <1>13, <2>1 DEF ClearReopen
<1> QED BY <1>5, <1>6, <1>7, <1>8, <1>9, <1>10, <1>11, <1>12, <1>13
        DEF Request, Take, Serve

LEMMA NextTidy == TypeOK /\ Owned /\ Tidy /\ [Next]_vars => Tidy'
<1> SUFFICES ASSUME TypeOK, Owned, Tidy, [Next]_vars PROVE Tidy'
  OBVIOUS
<1>1. CASE \E t \in Writers : LogWrite(t)
  <2>1. PICK t \in Writers : LogWrite(t)
    BY <1>1
  <2>2. ASSUME NEW u \in Tasks, Torn(u) PROVE Torn(u)'
    <3>1. u # t
      BY <2>1, <2>2 DEF LogWrite, NewLine, Torn
    <3>2. writing'[u] = writing[u]
      BY <2>1, <3>1 DEF LogWrite, NewLine, TypeOK
    <3> QED BY <2>1, <2>2, <3>2 DEF LogWrite, files, Torn
  <2>3. Ended => Ended'
    BY <2>1 DEF LogWrite, files, Ended, Free
  <2> QED BY <2>1, <2>2, <2>3 DEF LogWrite, files, httpVars, Tidy, RotatedAtBoot
<1>2. CASE UNCHANGED vars
  <2>1. (Ended => Ended') /\ \A u \in Tasks : Torn(u) => Torn(u)'
    BY <1>2 DEF vars, files, Ended, Free, Torn
  <2> QED BY <1>2, <2>1 DEF vars, files, httpVars, Tidy, RotatedAtBoot
<1> QED BY <1>1, <1>2, WriteTidy, StartupTidy, HttpTidy, ResetTidy DEF Next

-----------------------------------------------------------------------------
(* What /logs has seen.                                                     *)

(* The first m entries will not change.                                     *)
Firm(m) == m = Len(cur) => Ended

Settled ==
  /\ http \in {"alloc", "read", "copy"} =>
       \E m \in 0..Len(cur) : log_size = Size(SubSeq(cur, 1, m)) /\ Firm(m)
  /\ http # "reply" => body = << >>
  /\ http = "reply" /\ body # << >> =>
       /\ Len(body) \in 0..Len(cur) /\ body = SubSeq(cur, 1, Len(body))
       /\ Size(body) = log_size /\ Firm(Len(body))

LEMMA FirstFirm ==
  ASSUME FilesOK, NEW n \in Lines \cup {Header}, WriteFirst(n), UNCHANGED old,
         NEW m \in 0..Len(cur), Firm(m)
  PROVE  m \in 0..Len(cur') /\ SubSeq(cur', 1, m) = SubSeq(cur, 1, m) /\ Firm(m)'
<1>1. Len(cur) \in Nat
  BY WholeFinite DEF FilesOK
<1>2. CASE Free > 0
  <2>1. /\ cur' \in Files /\ Len(cur') = Len(cur) + 1
        /\ \A i \in 1..Len(cur) : cur'[i] = cur[i]
    BY <1>2, SizeAppend DEF FilesOK, WriteFirst
  <2>2. m \in 0..Len(cur') /\ m # Len(cur')
    BY <1>1, <2>1
  <2>3. /\ SubSeq(cur, 1, m) \in Seq(Entry) /\ Len(SubSeq(cur, 1, m)) = m
        /\ \A i \in 1..m : SubSeq(cur, 1, m)[i] = cur[i]
    BY Prefix DEF FilesOK, Files
  <2>4. /\ SubSeq(cur', 1, m) \in Seq(Entry) /\ Len(SubSeq(cur', 1, m)) = m
        /\ \A i \in 1..m : SubSeq(cur', 1, m)[i] = cur'[i]
    BY <2>1, <2>2, Prefix DEF Files
  <2>5. \A i \in 1..m : cur'[i] = cur[i]
    BY <1>1, <2>1
  <2>6. SubSeq(cur', 1, m) = SubSeq(cur, 1, m)
    BY <2>3, <2>4, <2>5, SeqEqual
  <2> QED BY <2>2, <2>6 DEF Firm
<1>3. CASE ~(Free > 0)
  <2>1. cur' = cur
    BY <1>3 DEF WriteFirst
  <2> QED BY <2>1 DEF Firm, Ended, Free
<1> QED BY <1>2, <1>3

LEMMA RestFirm ==
  ASSUME FilesOK, NEW n \in Lines \cup {Header}, WriteRest(n), UNCHANGED old,
         NEW m \in 0..Len(cur), Firm(m)
  PROVE  m \in 0..Len(cur') /\ SubSeq(cur', 1, m) = SubSeq(cur, 1, m) /\ Firm(m)'
<1>1. Len(cur) \in Nat
  BY WholeFinite DEF FilesOK
<1>2. CASE Free > 0 /\ EndsIn(cur, Half(n))
  <2>1. /\ cur' \in Files /\ Len(cur') = Len(cur)
        /\ \A i \in 1..(Len(cur) - 1) : cur'[i] = cur[i]
    BY <1>2, SizeWhole DEF FilesOK, WriteRest
  <2>2. m \in 0..Len(cur') /\ m # Len(cur)
    <3>1. ~Ended
      BY <1>2, FreeInt DEF Ended, EndsIn, Half
    <3> QED BY <2>1, <3>1 DEF Firm
  <2>3. /\ SubSeq(cur, 1, m) \in Seq(Entry) /\ Len(SubSeq(cur, 1, m)) = m
        /\ \A i \in 1..m : SubSeq(cur, 1, m)[i] = cur[i]
    BY Prefix DEF FilesOK, Files
  <2>4. /\ SubSeq(cur', 1, m) \in Seq(Entry) /\ Len(SubSeq(cur', 1, m)) = m
        /\ \A i \in 1..m : SubSeq(cur', 1, m)[i] = cur'[i]
    BY <2>1, <2>2, Prefix DEF Files
  <2>5. \A i \in 1..m : cur'[i] = cur[i]
    BY <1>1, <2>1, <2>2
  <2>6. SubSeq(cur', 1, m) = SubSeq(cur, 1, m)
    BY <2>3, <2>4, <2>5, SeqEqual
  <2> QED BY <2>1, <2>2, <2>6 DEF Firm
<1>3. CASE ~(Free > 0 /\ EndsIn(cur, Half(n)))
  <2>1. cur' = cur
    BY <1>3 DEF WriteRest
  <2> QED BY <2>1 DEF Firm, Ended, Free
<1> QED BY <1>2, <1>3

LEMMA ResetSettled == Reset => Settled'
BY DEF Reset, Settled

LEMMA SameSettled ==
  ASSUME Settled, UNCHANGED <<files, httpVars>>
  PROVE  Settled'
BY DEF Settled, files, httpVars, Firm, Ended, Free

(* A write does not touch what is settled.                                  *)
LEMMA KeepsSettled ==
  ASSUME Settled, UNCHANGED httpVars,
         \A m \in 0..Len(cur) : Firm(m) =>
           m \in 0..Len(cur') /\ SubSeq(cur', 1, m) = SubSeq(cur, 1, m) /\ Firm(m)'
  PROVE  Settled'
<1>1. http' = http /\ log_size' = log_size /\ body' = body
  BY DEF httpVars
<1>2. CASE http \in {"alloc", "read", "copy"}
  <2>1. PICK m \in 0..Len(cur) : log_size = Size(SubSeq(cur, 1, m)) /\ Firm(m)
    BY <1>2 DEF Settled
  <2>2. m \in 0..Len(cur') /\ log_size = Size(SubSeq(cur', 1, m)) /\ Firm(m)'
    BY <2>1
  <2>3. \E k \in 0..Len(cur') : log_size' = Size(SubSeq(cur', 1, k)) /\ Firm(k)'
    BY <1>1, <2>2
  <2> QED BY <1>1, <1>2, <2>3 DEF Settled
<1>3. CASE http = "reply"
  <2>1. CASE body = << >>
    BY <1>1, <1>3, <2>1 DEF Settled
  <2>2. CASE body # << >>
    <3>1. /\ Len(body) \in 0..Len(cur) /\ body = SubSeq(cur, 1, Len(body))
          /\ Size(body) = log_size /\ Firm(Len(body))
      BY <1>3, <2>2 DEF Settled
    <3> DEFINE m == Len(body)
    <3>2. m \in 0..Len(cur') /\ SubSeq(cur', 1, m) = SubSeq(cur, 1, m)
      BY <3>1
    <3>3. \A k : k = m => Firm(k)'
      BY <3>1
    <3>4. Firm(Len(body))'
      BY <1>1, <3>3 DEF Firm
    <3> QED BY <1>1, <1>3, <3>1, <3>2, <3>4 DEF Settled
  <2> QED BY <2>1, <2>2
<1>4. CASE http \notin {"alloc", "read", "copy", "reply"}
  BY <1>1, <1>4 DEF Settled
<1> QED BY <1>2, <1>3, <1>4

LEMMA WriteSettled ==
  ASSUME TypeOK, Settled, NEW t \in Tasks, Write(t)
  PROVE  Settled'
<1>1. FilesOK /\ writing[t] \in Writing
  BY TypeFiles DEF TypeOK
<1>2. writing[t].n \in Lines \cup {Header}
  BY <1>1, LineType DEF Writing
<1>3. CASE TakeMutex(t) \/ TakeTimeout(t)
  BY <1>3, SameSettled DEF TakeMutex, TakeTimeout
<1>4. CASE WriteLine(t)
  BY <1>1, <1>2, <1>4, FirstFirm, KeepsSettled DEF WriteLine
<1>5. CASE EndLine(t)
  BY <1>1, <1>2, <1>5, RestFirm, KeepsSettled DEF EndLine
<1>6. CASE Panic(t)
  BY <1>6, ResetSettled DEF Panic
<1> QED BY <1>3, <1>4, <1>5, <1>6 DEF Write

LEMMA StartupSettled ==
  ASSUME Owned, Settled, Startup
  PROVE  Settled'
<1>1. http = "idle" /\ body = << >>
  BY DEF Owned, Settled, Startup, Mount, OpenLog, CheckSize, RotateRemove,
         RotateRename, RotateReopen, WriteHeader, EndHeader, Return
<1>2. http' = http /\ body' = body
  BY DEF Startup, Mount, OpenLog, CheckSize, RotateRemove, RotateRename,
         RotateReopen, WriteHeader, EndHeader, Return, httpVars
<1> QED BY <1>1, <1>2 DEF Settled

LEMMA HttpSettled ==
  ASSUME TypeOK, Owned, Tidy, Settled, Request \/ Take \/ Serve
  PROVE  Settled'
<1>1. FilesOK
  BY TypeFiles
<1>2. UNCHANGED <<cur, old>> => \A m : Firm(m) => Firm(m)'
  BY DEF Firm, Ended, Free
<1>3. Len(cur) \in 0..Len(cur) /\ SubSeq(cur, 1, Len(cur)) = cur
  BY <1>1, WholeFinite, SubSeqFull DEF FilesOK, Files
<1>4. CASE RequestRestart
  BY <1>4 DEF RequestRestart, Settled, HttpStep
<1>5. CASE Restart
  BY <1>5, ResetSettled DEF Restart
<1>6. CASE RequestLogs \/ RequestClear \/ TakeToMeasure \/ TakeToClear
  BY <1>6 DEF RequestLogs, RequestClear, TakeToMeasure, TakeToClear, Settled, HttpStep
<1>7. CASE Measure
  <2>1. Ended
    <3>1. /\ http = "measure" /\ log_file = "open" /\ boot = "run"
          /\ \A t \in Tasks : writing[t].pc # "rest"
      BY <1>7, ConstantsAssumption DEF Measure, HttpStep, Owned, Holding, Using
    <3> QED BY <3>1 DEF Tidy, Torn
  <2>2. \A m : Firm(m)'
    BY <1>2, <1>7, <2>1 DEF Measure, files, Firm
  <2>3. \E m \in 0..Len(cur') : log_size' = Size(SubSeq(cur', 1, m)) /\ Firm(m)'
    <3>1. cur' = cur /\ log_size' = Size(cur)
      BY <1>7 DEF Measure, files
    <3> QED BY <1>3, <2>2, <3>1
  <2>4. body' = << >>
    BY <1>7 DEF Measure, HttpStep, Settled
  <2> QED BY <1>7, <2>3, <2>4 DEF Measure, HttpStep, Settled
<1>8. CASE Allocate \/ TakeToRead
  <2>1. /\ http \in {"alloc", "read", "copy"} /\ http' \in {"alloc", "read", "copy"}
        /\ cur' = cur /\ old' = old /\ log_size' = log_size /\ body' = body
    BY <1>8 DEF Allocate, TakeToRead, HttpStep, files
  <2>2. \E m \in 0..Len(cur) : log_size = Size(SubSeq(cur, 1, m)) /\ Firm(m)
    BY <2>1 DEF Settled
  <2>3. \E m \in 0..Len(cur') : log_size' = Size(SubSeq(cur', 1, m)) /\ Firm(m)'
    BY <1>2, <2>1, <2>2
  <2> QED BY <2>1, <2>3 DEF Settled
<1>9. CASE Copy
  <2>1. PICK m \in 0..Len(cur) : log_size = Size(SubSeq(cur, 1, m)) /\ Firm(m)
    BY <1>9 DEF Copy, HttpStep, Settled
  <2>2. BufferSize - 1 = log_size
    BY DEF BufferSize, TypeOK
  <2>3. body' = SubSeq(cur, 1, m)
    BY <1>1, <1>9, <2>1, <2>2, CutPrefix DEF Copy, FilesOK
  <2>4. Len(body') = m
    BY <1>1, <2>3, Prefix DEF FilesOK
  <2>5. cur' = cur /\ old' = old /\ log_size' = log_size /\ http' = "reply"
    BY <1>9 DEF Copy, HttpStep, files
  <2>6. Firm(Len(body))'
    BY <2>1, <2>4, <2>5 DEF Firm, Ended, Free
  <2> QED BY <2>1, <2>3, <2>4, <2>5, <2>6 DEF Settled
<1>10. CASE CopyFails \/ ReplyWithoutLog
  BY <1>10 DEF CopyFails, ReplyWithoutLog, Settled, HttpStep
<1>11. CASE ClearClose \/ ClearCurrent \/ ClearOld \/ ClearReopen \/ Respond
  BY <1>11 DEF ClearClose, ClearCurrent, ClearOld, ClearReopen, Respond, Settled,
               HttpStep
<1> QED BY <1>4, <1>5, <1>6, <1>7, <1>8, <1>9, <1>10, <1>11 DEF Request, Take, Serve

LEMMA NextSettled == TypeOK /\ Owned /\ Tidy /\ Settled /\ [Next]_vars => Settled'
<1>1. (\E t \in Writers : LogWrite(t)) /\ Settled => Settled'
  BY SameSettled DEF LogWrite
<1>2. UNCHANGED vars /\ Settled => Settled'
  BY SameSettled DEF vars
<1> QED BY <1>1, <1>2, WriteSettled, StartupSettled, HttpSettled, ResetSettled DEF Next
-----------------------------------------------------------------------------
(* TypeOK is kept; what a read returns is a file because it was settled.    *)

LEMMA NextType == TypeOK /\ Owned /\ Settled /\ [Next]_vars => TypeOK'
<1> SUFFICES ASSUME TypeOK, Owned, Settled, [Next]_vars PROVE TypeOK'
  OBVIOUS
<1>1. FilesOK /\ (FilesOK' /\ UNCHANGED <<log_file, log_mutex, boot, writing, lines,
                                          httpVars>> => TypeOK')
  BY TypeFiles DEF TypeOK, FilesOK, httpVars
<1>2. Httpd \in Tasks
  BY DEF Tasks
<1>3. UNCHANGED files => FilesOK'
  BY <1>1 DEF files, FilesOK
<1>4. CASE Reset
  BY <1>4, ResetType
<1>5. CASE Startup
  <2>1. FilesOK'
    <3>1. CASE Mount
      BY <1>1, <1>3, <3>1, FilesEmptied DEF Mount
    <3>2. CASE OpenLog \/ CheckSize \/ RotateReopen \/ Return
      BY <1>3, <3>2 DEF OpenLog, CheckSize, RotateReopen, Return
    <3>3. CASE RotateRemove
      BY <1>1, <3>3, FilesEmptied DEF RotateRemove, RemovesOld
    <3>4. CASE RotateRename
      <4>1. Size(cur) \in Nat /\ Size(old) \in Nat /\ Capacity \in Nat
        BY <1>1, SizeType, ConstantsAssumption DEF FilesOK
      <4> QED BY <1>1, <3>4, <4>1, SizeEmpty DEF FilesOK, RotateRename
    <3>5. CASE WriteHeader
      BY <1>1, <3>5, FirstType DEF WriteHeader
    <3>6. CASE EndHeader
      BY <1>1, <3>6, RestType DEF EndHeader
    <3> QED BY <1>5, <3>1, <3>2, <3>3, <3>4, <3>5, <3>6 DEF Startup
  <2>2. UNCHANGED <<writing, lines, httpVars>>
    BY <1>5 DEF Startup, Mount, OpenLog, CheckSize, RotateRemove, RotateRename,
                RotateReopen, WriteHeader, EndHeader, Return
  <2>3. /\ log_file' \in {"null", "open", "closed"}
        /\ log_mutex' \in {"none", "free"} \cup Tasks
        /\ boot' \in {"reset", "open", "check", "remove", "rename", "reopen",
                      "header", "rest", "return", "run"}
    BY <1>5 DEF TypeOK, Startup, Mount, OpenLog, CheckSize, RotateRemove, RotateRename,
                RotateReopen, WriteHeader, EndHeader, Return, Open, ThenHeader
  <2> QED BY <2>1, <2>2, <2>3 DEF TypeOK, FilesOK, httpVars
<1>6. CASE \E t \in Writers : LogWrite(t)
  <2>1. PICK t \in Tasks : NewLine(t) /\ UNCHANGED <<files, log_file, log_mutex, boot,
                                                     httpVars>>
    BY <1>6 DEF LogWrite, Tasks
  <2> QED BY <1>3, <2>1, WritingType DEF TypeOK, FilesOK, httpVars
<1>7. CASE \E t \in Tasks : Write(t)
  <2>1. PICK t \in Tasks : Write(t)
    BY <1>7
  <2>2. writing[t].n \in Lines \cup {Header}
    <3>1. writing[t] \in Writing
      BY DEF TypeOK
    <3> QED BY <3>1, LineType DEF Writing
  <2>3. CASE TakeMutex(t)
    BY <1>3, <2>3, WritingType DEF TakeMutex, TypeOK, FilesOK, httpVars
  <2>4. CASE TakeTimeout(t)
    BY <1>3, <2>4, WritingType DEF TakeTimeout, DropsLine, TypeOK, FilesOK, httpVars
  <2>5. CASE WriteLine(t)
    <3>1. FilesOK'
      BY <1>1, <2>2, <2>5, FirstType DEF WriteLine
    <3> QED BY <2>5, <3>1, WritingType DEF WriteLine, TypeOK, FilesOK, httpVars
  <2>6. CASE EndLine(t)
    <3>1. FilesOK'
      BY <1>1, <2>2, <2>6, RestType DEF EndLine
    <3> QED BY <2>6, <3>1, WritingType DEF EndLine, TypeOK, FilesOK, httpVars
  <2>7. CASE Panic(t)
    BY <2>7, ResetType DEF Panic
  <2> QED BY <2>1, <2>3, <2>4, <2>5, <2>6, <2>7 DEF Write
<1>8. CASE Request
  <2>1. CASE RequestRestart
    <3>1. writing' \in [Tasks -> Writing] /\ lines' \in 0..MaxLines
      BY <1>2, <2>1, WritingType DEF RequestRestart, TypeOK
    <3> QED BY <1>3, <2>1, <3>1 DEF RequestRestart, HttpStep, TypeOK, FilesOK
  <2>2. CASE RequestLogs \/ RequestClear
    BY <1>3, <2>2, SizeEmpty DEF RequestLogs, RequestClear, HttpStep, TypeOK, FilesOK
  <2> QED BY <1>8, <2>1, <2>2 DEF Request
<1>9. CASE Take
  BY <1>2, <1>3, <1>9 DEF Take, TakeToMeasure, TakeToRead, TakeToClear, HttpStep, TypeOK,
                          FilesOK
<1>10. CASE Serve
  <2> USE <1>3 DEF HttpStep, TypeOK, FilesOK
  <2>1. CASE Restart
    BY <2>1, ResetType DEF Restart
  <2>2. CASE Measure
    BY <2>2, SizeType DEF Measure
  <2>3. CASE Allocate \/ ReplyWithoutLog
    BY <2>3 DEF Allocate, ReplyWithoutLog
  <2>4. CASE Copy
    <3>1. PICK m \in 0..Len(cur) : log_size = Size(SubSeq(cur, 1, m))
      BY <2>4 DEF Copy, Settled
    <3>2. BufferSize - 1 = log_size
      BY DEF BufferSize
    <3>3. body' \in Files
      <4>1. body' = Cut(cur, Size(SubSeq(cur, 1, m)))
        BY <2>4, <3>1, <3>2 DEF Copy
      <4>2. cur \in Files
        OBVIOUS
      <4>3. body' = SubSeq(cur, 1, m)
        BY <4>1, <4>2, CutPrefix
      <4> QED BY <4>2, <4>3, Prefix
    <3> QED BY <2>4, <3>3 DEF Copy
  <2>5. CASE CopyFails
    BY <2>5 DEF CopyFails, GivesMutex
  <2>6. CASE ClearClose \/ ClearReopen
    BY <2>6 DEF ClearClose, ClearReopen
  <2>7. CASE ClearCurrent \/ ClearOld
    <3>1. FilesOK'
      BY <1>1, <2>7, FilesEmptied DEF ClearCurrent, ClearOld
    <3> QED BY <2>7, <3>1 DEF ClearCurrent, ClearOld
  <2>8. CASE Respond
    BY <2>8, SizeEmpty DEF Respond
  <2> QED BY <1>10, <2>1, <2>2, <2>3, <2>4, <2>5, <2>6, <2>7, <2>8 DEF Serve
<1>11. CASE UNCHANGED vars
  BY <1>11 DEF vars, files, httpVars, TypeOK
<1> QED BY <1>4, <1>5, <1>6, <1>7, <1>8, <1>9, <1>10, <1>11 DEF Next

-----------------------------------------------------------------------------
(* Whoever has the mutex is in a section under it, and each of his steps    *)
(* brings him nearer to its end; nobody else's step moves him.              *)

Sections == {<<"close", "remove">>, <<"remove", "remove_old">>,
             <<"remove_old", "reopen">>}

LEMMA SectionStep ==
  ASSUME TypeOK, Owned, MutexIsUsed, [Next]_vars,
         NEW t \in Tasks, log_mutex = t, log_mutex' = t
  PROVE  \/ Holder(t) /\ writing[t].pc = "write" /\ writing'[t].pc = "rest"
         \/ /\ Holder(t) /\ t = Httpd /\ ~Using(t) /\ writing' = writing
            /\ <<http, http'>> \in Sections
         \/ /\ ~Holder(t) /\ writing'[t].pc = writing[t].pc
            /\ t = Httpd => http' = http
<1>1. Httpd \in Tasks /\ "free" \notin Tasks /\ "none" \notin Tasks
  BY ConstantsAssumption DEF Tasks
<1>2. /\ Using(t) \/ (t = Httpd /\ http \in Holding)
      /\ t = Httpd /\ http # "restart" => writing[t].pc = "idle"
      /\ boot = "run"
  BY <1>1 DEF MutexIsUsed, Holding, Owned, Using
<1>3. ~Reset
  BY <1>1 DEF Reset
<1>4. \A u \in Tasks : Using(u) => u = t
  BY DEF Owned
<1>5. \A u \in Tasks : writing[u] \in Writing
  BY DEF TypeOK
<1>6. CASE Write(t)
  <2>1. ~TakeMutex(t) /\ ~TakeTimeout(t) /\ ~EndLine(t) /\ ~Panic(t)
    BY <1>1, <1>2, <1>3 DEF TakeMutex, TakeTimeout, EndLine, Panic, Using, Holding
  <2>2. WriteLine(t)
    BY <1>6, <2>1 DEF Write
  <2>3. writing'[t].pc = "rest"
    BY <2>2, <1>5 DEF WriteLine, Goto, TypeOK, Writing
  <2> QED BY <1>6, <2>2, <2>3 DEF WriteLine, Holder
<1>7. CASE t = Httpd /\ Serve
  <2>1. /\ ~Restart /\ ~Measure /\ ~Copy /\ ~CopyFails /\ ~ClearReopen
        /\ ~Allocate /\ ~ReplyWithoutLog /\ ~Respond
    BY <1>1, <1>2, <1>3, <1>7
       DEF Restart, Measure, Copy, CopyFails, GivesMutex, ClearReopen, Allocate,
           ReplyWithoutLog, Respond, HttpStep, Holding, Using
  <2>2. /\ UNCHANGED writing /\ <<http, http'>> \in Sections
    BY <1>7, <2>1 DEF Serve, ClearClose, ClearCurrent, ClearOld, HttpStep, Sections
  <2>3. ~Using(t)
    BY <1>2, <1>7, <2>2 DEF Sections, Using
  <2> QED BY <1>7, <2>2, <2>3 DEF Holder
<1>8. CASE ~Holder(t)
  <2>1. CASE Startup
    BY <1>2, <2>1 DEF Startup, Mount, OpenLog, CheckSize, RotateRemove,
                      RotateRename, RotateReopen, WriteHeader, EndHeader, Return
  <2>2. CASE \E u \in Writers : LogWrite(u)
    <3>1. PICK u \in Writers : LogWrite(u)
      BY <2>2
    <3>2. u # t /\ http' = http
      BY <1>2, <3>1, ConstantsAssumption DEF LogWrite, NewLine, Using, httpVars
    <3> QED BY <1>8, <3>1, <3>2 DEF LogWrite, NewLine, TypeOK
  <2>3. CASE \E u \in Tasks : Write(u)
    <3>1. PICK u \in Tasks : Write(u)
      BY <2>3
    <3>2. u # t /\ ~TakeMutex(u) /\ ~WriteLine(u) /\ ~EndLine(u) /\ ~Panic(u)
      BY <1>1, <1>3, <1>4, <1>8, <3>1
         DEF Holder, TakeMutex, WriteLine, EndLine, Panic, Using
    <3>3. TakeTimeout(u)
      BY <3>1, <3>2 DEF Write
    <3> QED BY <1>8, <3>2, <3>3 DEF TakeTimeout, DropsLine, Done, TypeOK, httpVars
  <2>4. CASE Request
    <3>1. t # Httpd
      BY <1>1, <1>2, <2>4
         DEF Request, RequestRestart, RequestLogs, RequestClear, HttpStep, Using, Holding
    <3> QED BY <1>8, <2>4, <3>1
            DEF Request, RequestRestart, RequestLogs, RequestClear, NewLine, TypeOK
  <2>5. CASE Take
    BY <1>1, <2>5 DEF Take, TakeToMeasure, TakeToRead, TakeToClear
  <2>6. CASE Serve
    <3>1. t # Httpd /\ ~Restart
      BY <1>3, <1>8, <2>6 DEF Holder, Restart
    <3> QED BY <1>8, <2>6, <3>1
            DEF Serve, Measure, Copy, CopyFails, ClearReopen, Allocate,
                ReplyWithoutLog, Respond, ClearClose, ClearCurrent, ClearOld
  <2>7. CASE UNCHANGED vars
    BY <1>8, <2>7 DEF vars, httpVars
  <2> QED BY <1>3, <2>1, <2>2, <2>3, <2>4, <2>5, <2>6, <2>7 DEF Next
<1> QED BY <1>6, <1>7, <1>8 DEF Holder

LEMMA NextUsed == TypeOK /\ Owned /\ MutexIsUsed /\ [Next]_vars => MutexIsUsed'
<1> SUFFICES ASSUME TypeOK, Owned, MutexIsUsed, [Next]_vars, log_mutex' \in Tasks
             PROVE  Using(log_mutex)' \/ (log_mutex' = Httpd /\ http' \in Holding)
  BY DEF MutexIsUsed, Holding
<1>1. Httpd \in Tasks /\ "free" \notin Tasks /\ "none" \notin Tasks
  BY ConstantsAssumption DEF Tasks
<1>2. CASE log_mutex' = log_mutex
  <2>1. Using(log_mutex) \/ (log_mutex = Httpd /\ http \in Holding)
    BY <1>2 DEF MutexIsUsed, Holding
  <2> QED BY <1>2, <2>1, SectionStep DEF Using, Holding, Sections
<1>3. CASE log_mutex' # log_mutex
  <2>1. \/ Take \/ \E t \in Tasks : TakeMutex(t)
    BY <1>1, <1>3
       DEF Next, vars, Startup, Mount, OpenLog, CheckSize, RotateRemove,
           RotateRename, RotateReopen, WriteHeader, EndHeader, Return, Reset,
           LogWrite, Write, TakeTimeout, WriteLine, EndLine, Panic, Request,
           RequestRestart, RequestLogs, RequestClear, Serve, Restart, Measure,
           Copy, CopyFails, GivesMutex, ClearReopen, Allocate, ReplyWithoutLog,
           Respond, ClearClose, ClearCurrent, ClearOld
  <2>2. CASE Take
    BY <2>2 DEF Take, TakeToMeasure, TakeToRead, TakeToClear, HttpStep, Holding
  <2>3. ASSUME NEW t \in Tasks, TakeMutex(t) PROVE Using(log_mutex)'
    BY <2>3 DEF TakeMutex, Goto, Using, TypeOK, Writing
  <2> QED BY <2>1, <2>2, <2>3
<1> QED BY <1>2, <1>3

LEMMA SectionDrains ==
  ASSUME TypeOK, Owned, MutexIsUsed, [Next]_vars,
         NEW t \in Tasks, log_mutex = t, log_mutex' = t
  PROVE  /\ SectionLeft' \in 0..SectionLeft
         /\ Holder(t) => SectionLeft' < SectionLeft
<1>1. CASE Holder(t) /\ writing[t].pc = "write" /\ writing'[t].pc = "rest"
  <2>1. SectionLeft = 2 /\ SectionLeft' = 1
    BY <1>1 DEF SectionLeft, Using
  <2> QED BY <2>1
<1>2. CASE /\ Holder(t) /\ t = Httpd /\ ~Using(t) /\ writing' = writing
           /\ <<http, http'>> \in Sections
  <2>1. ~Using(t)'
    BY <1>2 DEF Using
  <2> QED BY <1>2, <2>1 DEF SectionLeft, Sections
<1>3. CASE /\ ~Holder(t) /\ writing'[t].pc = writing[t].pc
           /\ t = Httpd => http' = http
  <2>1. Using(t)' <=> Using(t)
    BY <1>3 DEF Using
  <2>2. SectionLeft' = SectionLeft /\ SectionLeft \in Nat
    BY <1>3, <2>1 DEF SectionLeft, MutexIsUsed
  <2> QED BY <1>3, <2>2
<1> QED BY <1>1, <1>2, <1>3, SectionStep

-----------------------------------------------------------------------------
Inv == TypeOK /\ Owned /\ MutexIsUsed /\ Tidy /\ Settled

LEMMA Invariant == Spec => []Inv
<1>1. Init => Inv
  <2>1. Init => MutexIsUsed
    BY ConstantsAssumption DEF Init, MutexIsUsed, Tasks
  <2> QED BY <2>1, InitType, InitOwned, InitTidy DEF Inv, Init, Settled
<1>2. Inv /\ [Next]_vars => Inv'
  BY NextType, NextOwned, NextUsed, NextTidy, NextSettled DEF Inv
<1> QED BY <1>1, <1>2, PTL DEF Spec

(* Every variable keeps its type, and the two files fit the partition.      *)
THEOREM TypeCorrect == Spec => []TypeOK
<1>1. Inv => TypeOK
  BY DEF Inv
<1> QED BY <1>1, Invariant, PTL

(* The stream is not used while log_clear has it closed.                    *)
THEOREM StreamCorrect == Spec => []NoClosedStream
<1>1. Inv => NoClosedStream
  BY OwnedNoClosed DEF Inv
<1> QED BY <1>1, Invariant, PTL

(* A mutex that is taken is in use: every way out of a section gives it.    *)
THEOREM MutexCorrect == Spec => []MutexIsUsed
<1>1. Inv => MutexIsUsed
  BY DEF Inv
<1> QED BY <1>1, Invariant, PTL

(* It comes back after a bounded number of the holder's steps, whatever the *)
(* other tasks do meanwhile.                                                *)
THEOREM MutexProgress == Spec => MutexComesBack
<1>1. Inv /\ [Next]_vars =>
        [\A t \in Tasks : log_mutex = t /\ log_mutex' = t =>
           /\ SectionLeft' \in 0..SectionLeft
           /\ Holder(t) => SectionLeft' < SectionLeft]_vars
  BY SectionDrains DEF Inv
<1> QED BY <1>1, Invariant, PTL DEF Spec, MutexComesBack

(* No line is written behind a torn one, whatever reset or full file        *)
(* system tore it.                                                          *)
THEOREM LinesCorrect == Spec => []NothingGlued
<1>1. Inv => NothingGlued
  BY DEF Inv, Tidy, NothingGlued
<1> QED BY <1>1, Invariant, PTL

(* The log is not over its size when a boot header is written to it.        *)
THEOREM RotationCorrect == Spec => []RotatedAtBoot
<1>1. Inv => RotatedAtBoot
  BY DEF Inv, Tidy
<1> QED BY <1>1, Invariant, PTL

(* What /logs replies is the log as it measured it, in whole entries,       *)
(* though other tasks wrote to it meanwhile.                                *)
THEOREM ReplyCorrect == Spec => []ReplyIsTheLog
<1>1. Inv => ReplyIsTheLog
  BY DEF Inv, Settled, ReplyIsTheLog
<1> QED BY <1>1, Invariant, PTL
-----------------------------------------------------------------------------
(* A line is written by one task, and its number is new until it is.        *)

Numbers == {cur[i].n : i \in DOMAIN cur} \cup {old[i].n : i \in DOMAIN old}

Distinct ==
  /\ Numbers \subseteq 0..lines
  /\ \A t \in Tasks : writing[t].pc # "idle" => writing[t].n \in 1..lines
  /\ \A t, u \in Tasks :
       t # u /\ writing[t].pc # "idle" /\ writing[u].pc # "idle" =>
         writing[t].n # writing[u].n
  /\ \A t \in Tasks : writing[t].pc \in {"take", "write"} => writing[t].n \notin Numbers

LEMMA InitDistinct == Init => Distinct
BY DEF Init, Distinct, Numbers, NotWriting

LEMMA FirstNumbers ==
  ASSUME FilesOK, NEW n \in Lines \cup {Header}, WriteFirst(n), UNCHANGED old
  PROVE  Numbers' \subseteq Numbers \cup {n}
<1>1. CASE Free > 0
  <2>1. /\ cur' \in Files /\ Len(cur') = Len(cur) + 1
        /\ cur'[Len(cur) + 1].n = n
        /\ \A i \in 1..Len(cur) : cur'[i] = cur[i]
    BY <1>1, SizeAppend DEF FilesOK, WriteFirst, Half
  <2>2. DOMAIN cur' = 1..(Len(cur) + 1) /\ DOMAIN cur = 1..Len(cur) /\ Len(cur) \in Nat
    BY <2>1, WholeFinite DEF FilesOK
  <2>3. \A i \in DOMAIN cur' : cur'[i].n \in Numbers \cup {n}
    BY <2>1, <2>2 DEF Numbers
  <2> QED BY <2>3 DEF Numbers
<1>2. CASE ~(Free > 0)
  BY <1>2 DEF WriteFirst, Numbers
<1> QED BY <1>1, <1>2

LEMMA RestNumbers ==
  ASSUME FilesOK, NEW n \in Lines \cup {Header}, WriteRest(n), UNCHANGED old
  PROVE  Numbers' \subseteq Numbers
<1>1. CASE Free > 0 /\ EndsIn(cur, Half(n))
  <2>1. /\ cur' \in Files /\ Len(cur') = Len(cur)
        /\ cur'[Len(cur)].n = cur[Len(cur)].n
        /\ \A i \in 1..(Len(cur) - 1) : cur'[i] = cur[i]
    <3>1. cur \in Files /\ cur' = [cur EXCEPT ![Len(cur)] = Whole(n)]
      BY <1>1 DEF FilesOK, WriteRest
    <3>2. cur[Len(cur)].n = n /\ Whole(n).n = n
      BY <1>1 DEF EndsIn, Half, Whole
    <3>3. /\ cur' \in Files /\ Len(cur') = Len(cur) /\ cur'[Len(cur)] = Whole(n)
          /\ \A i \in 1..(Len(cur) - 1) : cur'[i] = cur[i]
      BY <1>1, <3>1, SizeWhole
    <3> QED BY <3>2, <3>3
  <2>2. DOMAIN cur' = 1..Len(cur) /\ DOMAIN cur = 1..Len(cur) /\ Len(cur) \in Nat
    BY <2>1, WholeFinite DEF FilesOK
  <2>3. \A i \in DOMAIN cur' : cur'[i].n \in Numbers
    BY <2>1, <2>2 DEF Numbers
  <2> QED BY <2>3 DEF Numbers
<1>2. CASE ~(Free > 0 /\ EndsIn(cur, Half(n)))
  BY <1>2 DEF WriteRest, Numbers
<1> QED BY <1>1, <1>2

LEMMA KeepsDistinct ==
  ASSUME Distinct, Numbers' \subseteq Numbers, UNCHANGED <<writing, lines>>
  PROVE  Distinct'
BY DEF Distinct

LEMMA EndsDistinct ==
  ASSUME Distinct, TypeOK, Numbers' \subseteq Numbers, UNCHANGED lines,
         NEW t \in Tasks, Done(t)
  PROVE  Distinct'
<1>1. writing'[t].pc = "idle" /\ \A u \in Tasks \ {t} : writing'[u] = writing[u]
  BY DEF Done, NotWriting, TypeOK
<1> QED BY <1>1 DEF Distinct

LEMMA NewDistinct ==
  ASSUME Distinct, TypeOK, UNCHANGED files, NEW t \in Tasks, NewLine(t)
  PROVE  Distinct'
<1>1. /\ writing'[t].n = lines + 1 /\ lines' = lines + 1 /\ lines \in Nat
      /\ \A u \in Tasks \ {t} : writing'[u] = writing[u]
  BY ConstantsAssumption DEF NewLine, TypeOK
<1>2. Numbers' = Numbers
  BY DEF files, Numbers
<1> QED BY <1>1, <1>2 DEF Distinct

LEMMA ResetDistinct == TypeOK /\ Distinct /\ Reset => Distinct'
<1> SUFFICES ASSUME Distinct, Reset PROVE Distinct'
  OBVIOUS
<1>1. Numbers' = Numbers /\ lines' = lines
  BY DEF Reset, files, Numbers
<1>2. \A t \in Tasks : writing'[t].pc = "idle"
  BY DEF Reset, NotWriting
<1> QED BY <1>1, <1>2 DEF Distinct

LEMMA WriteDistinct ==
  ASSUME TypeOK, Distinct, NEW t \in Tasks, Write(t)
  PROVE  Distinct'
<1>1. FilesOK /\ writing[t] \in Writing
  BY TypeFiles DEF TypeOK
<1>2. writing[t].n \in Lines \cup {Header}
  BY <1>1, LineType DEF Writing
<1>3. UNCHANGED files => Numbers' \subseteq Numbers
  BY DEF files, Numbers
<1>4. \A pc : Goto(t, pc) =>
        /\ writing'[t].pc = pc /\ writing'[t].n = writing[t].n
        /\ \A u \in Tasks \ {t} : writing'[u] = writing[u]
  BY <1>1 DEF Goto, TypeOK, Writing
<1>5. CASE TakeMutex(t)
  <2>1. /\ Numbers' \subseteq Numbers /\ lines' = lines
        /\ Goto(t, "write") /\ writing[t].pc = "take"
    BY <1>3, <1>5 DEF TakeMutex
  <2>2. \A u \in Tasks :
          /\ writing'[u].n = writing[u].n
          /\ writing'[u].pc # "idle" => writing[u].pc # "idle"
          /\ writing'[u].pc \in {"take", "write"} => writing[u].pc \in {"take", "write"}
    BY <1>4, <2>1
  <2>3. Numbers' \subseteq 0..lines'
    BY <2>1 DEF Distinct
  <2>4. \A u \in Tasks : writing'[u].pc # "idle" => writing'[u].n \in 1..lines'
    BY <2>1, <2>2 DEF Distinct
  <2>5. \A u, v \in Tasks :
          u # v /\ writing'[u].pc # "idle" /\ writing'[v].pc # "idle" =>
            writing'[u].n # writing'[v].n
    BY <2>2 DEF Distinct
  <2>6. \A u \in Tasks : writing'[u].pc \in {"take", "write"} => writing'[u].n \notin Numbers'
    BY <2>1, <2>2 DEF Distinct
  <2> QED BY <2>3, <2>4, <2>5, <2>6 DEF Distinct
<1>6. CASE TakeTimeout(t)
  BY <1>3, <1>6, EndsDistinct DEF TakeTimeout, DropsLine
<1>7. CASE WriteLine(t)
  <2>1. Numbers' \subseteq Numbers \cup {writing[t].n}
    BY <1>1, <1>2, <1>7, FirstNumbers DEF WriteLine
  <2>2. lines' = lines /\ lines \in Nat /\ Goto(t, "rest") /\ writing[t].pc = "write"
    BY <1>7, ConstantsAssumption DEF WriteLine, TypeOK
  <2>3. writing[t].n \in 1..lines
    BY <2>2 DEF Distinct
  <2>4. Numbers' \subseteq 0..lines'
    BY <2>1, <2>2, <2>3 DEF Distinct
  <2>5. ASSUME NEW u \in Tasks, writing'[u].pc \in {"take", "write"}
        PROVE  writing'[u].n \notin Numbers'
    <3>1. u # t /\ writing'[u] = writing[u]
      BY <1>4, <2>2, <2>5
    <3>2. writing[u].n \notin Numbers /\ writing[u].n # writing[t].n
      BY <2>2, <2>5, <3>1 DEF Distinct
    <3> QED BY <2>1, <3>1, <3>2
  <2>6. \A u \in Tasks : /\ writing'[u].n = writing[u].n
                         /\ writing'[u].pc # "idle" => writing[u].pc # "idle"
    BY <1>4, <2>2
  <2>7. \A u \in Tasks : writing'[u].pc # "idle" => writing'[u].n \in 1..lines'
    BY <2>2, <2>6 DEF Distinct
  <2>8. \A u, v \in Tasks :
          u # v /\ writing'[u].pc # "idle" /\ writing'[v].pc # "idle" =>
            writing'[u].n # writing'[v].n
    BY <2>6 DEF Distinct
  <2> QED BY <2>4, <2>5, <2>7, <2>8 DEF Distinct
<1>8. CASE EndLine(t)
  BY <1>1, <1>2, <1>8, RestNumbers, EndsDistinct DEF EndLine
<1>9. CASE Panic(t)
  BY <1>9, ResetDistinct DEF Panic
<1> QED BY <1>5, <1>6, <1>7, <1>8, <1>9 DEF Write

LEMMA NextDistinct == TypeOK /\ Distinct /\ [Next]_vars => Distinct'
<1> SUFFICES ASSUME TypeOK, Distinct, [Next]_vars PROVE Distinct'
  OBVIOUS
<1>1. FilesOK /\ Header \in Lines \cup {Header}
  BY TypeFiles
<1>2. UNCHANGED files => Numbers' \subseteq Numbers
  BY DEF files, Numbers
<1>3. (cur' \in {cur, << >>} /\ old' \in {old, << >>}) => Numbers' \subseteq Numbers
  BY DEF Numbers
<1>4. CASE Startup
  <2>1. UNCHANGED <<writing, lines>>
    BY <1>4 DEF Startup, Mount, OpenLog, CheckSize, RotateRemove, RotateRename,
                RotateReopen, WriteHeader, EndHeader, Return
  <2>2. CASE Mount \/ RotateRemove
    BY <1>2, <1>3, <2>1, <2>2, KeepsDistinct DEF Mount, RotateRemove, RemovesOld
  <2>3. CASE OpenLog \/ CheckSize \/ RotateReopen \/ Return
    BY <1>2, <2>1, <2>3, KeepsDistinct DEF OpenLog, CheckSize, RotateReopen, Return
  <2>4. CASE RotateRename
    <3>1. Numbers' \subseteq Numbers
      BY <2>4 DEF RotateRename, Numbers
    <3> QED BY <2>1, <3>1, KeepsDistinct
  <2>5. CASE WriteHeader
    <3>1. Numbers' \subseteq Numbers \cup {Header}
      BY <1>1, <2>5, FirstNumbers DEF WriteHeader
    <3>2. Header \in 0..lines /\ lines' = lines /\ writing' = writing
      BY <2>1, ConstantsAssumption DEF Header, TypeOK
    <3>3. \A t \in Tasks : writing[t].pc # "idle" => writing[t].n # Header
      BY DEF Distinct, Header, TypeOK
    <3> QED BY <3>1, <3>2, <3>3 DEF Distinct
  <2>6. CASE EndHeader
    BY <1>1, <2>1, <2>6, RestNumbers, KeepsDistinct DEF EndHeader
  <2> QED BY <1>4, <2>2, <2>3, <2>4, <2>5, <2>6 DEF Startup
<1>5. CASE \E t \in Writers : LogWrite(t)
  BY <1>5, NewDistinct DEF LogWrite, Tasks
<1>6. CASE Request
  <2>1. Httpd \in Tasks
    BY DEF Tasks
  <2>2. CASE RequestRestart
    BY <1>2, <2>1, <2>2, NewDistinct, KeepsDistinct DEF RequestRestart
  <2>3. CASE RequestLogs \/ RequestClear
    BY <1>2, <2>3, KeepsDistinct DEF RequestLogs, RequestClear
  <2> QED BY <1>6, <2>2, <2>3 DEF Request
<1>7. CASE Take
  BY <1>2, <1>7, KeepsDistinct DEF Take, TakeToMeasure, TakeToRead, TakeToClear
<1>8. CASE Serve
  <2>1. CASE Restart
    BY <2>1, ResetDistinct DEF Restart
  <2>2. CASE ~Restart
    <3>1. /\ UNCHANGED <<writing, lines>>
          /\ UNCHANGED files \/ (cur' \in {cur, << >>} /\ old' \in {old, << >>})
      BY <1>8, <2>2 DEF Serve, Measure, Allocate, Copy, CopyFails, ReplyWithoutLog,
                        ClearClose, ClearCurrent, ClearOld, ClearReopen, Respond
    <3> QED BY <1>2, <1>3, <3>1, KeepsDistinct
  <2> QED BY <2>1, <2>2
<1>9. CASE UNCHANGED vars
  BY <1>2, <1>9, KeepsDistinct DEF vars
<1> QED BY <1>4, <1>5, <1>6, <1>7, <1>8, <1>9, WriteDistinct, ResetDistinct DEF Next

-----------------------------------------------------------------------------
(* The two files as one log.                                                *)

LEMMA LogOf ==
  ASSUME NEW f \in Files, NEW g \in Files
  PROVE  /\ Len(f) \in Nat /\ Len(g) \in Nat
         /\ f \o g \in Seq(Entry) /\ Len(f \o g) = Len(f) + Len(g)
         /\ \A i \in 1..(Len(f) + Len(g)) :
              (f \o g)[i] = IF i <= Len(f) THEN f[i] ELSE g[i - Len(f)]
BY WholeFinite, ConcatProperties DEF Files

LEMMA LogAppend ==
  ASSUME NEW f \in Files, NEW g \in Files, NEW n \in Lines \cup {Header}
  PROVE  f \o Append(g, Half(n)) = Append(f \o g, Half(n))
<1>1. Half(n) \in Entry
  BY DEF Entry, Half
<1>2. Append(g, Half(n)) \in Files /\ f \o g \in Files
  BY <1>1, LogOf DEF Files
<1> DEFINE a == Append(g, Half(n))
           s == f \o a
           l == f \o g
           t == Append(l, Half(n))
<1>3. /\ a \in Files /\ Len(a) = Len(g) + 1 /\ a[Len(g) + 1] = Half(n)
      /\ \A i \in 1..Len(g) : a[i] = g[i]
  BY SizeAppend
<1>4. /\ t \in Files /\ Len(t) = Len(l) + 1 /\ t[Len(l) + 1] = Half(n)
      /\ \A i \in 1..Len(l) : t[i] = l[i]
  BY <1>2, SizeAppend
<1>5. /\ s \in Seq(Entry) /\ Len(s) = Len(f) + Len(a)
      /\ \A i \in 1..(Len(f) + Len(a)) : s[i] = IF i <= Len(f) THEN f[i] ELSE a[i - Len(f)]
  BY <1>3, LogOf
<1>6. /\ Len(l) = Len(f) + Len(g) /\ Len(f) \in Nat /\ Len(g) \in Nat
      /\ \A i \in 1..(Len(f) + Len(g)) : l[i] = IF i <= Len(f) THEN f[i] ELSE g[i - Len(f)]
  BY LogOf
<1>7. t \in Seq(Entry)
  BY <1>4 DEF Files
<1> HIDE DEF a, s, l, t
<1>8. Len(s) = Len(t)
  BY <1>3, <1>4, <1>5, <1>6
<1>9. ASSUME NEW i \in 1..Len(s) PROVE s[i] = t[i]
  <2>1. CASE i <= Len(f)
    BY <1>3, <1>4, <1>5, <1>6, <2>1
  <2>2. CASE i > Len(f) /\ i <= Len(f) + Len(g)
    <3>1. i - Len(f) \in 1..Len(g) /\ i \in 1..Len(l)
      BY <1>6, <2>2
    <3> QED BY <1>3, <1>4, <1>5, <1>6, <2>2, <3>1
  <2>3. CASE i = Len(f) + Len(g) + 1
    <3>1. i - Len(f) = Len(g) + 1
      BY <1>6, <2>3
    <3> QED BY <1>3, <1>4, <1>5, <1>6, <2>3, <3>1
  <2>4. Len(s) = Len(f) + Len(g) + 1
    BY <1>3, <1>5, <1>6
  <2>5. \/ i <= Len(f)
        \/ i > Len(f) /\ i <= Len(f) + Len(g)
        \/ i = Len(f) + Len(g) + 1
    BY <1>6, <2>4
  <2> QED BY <2>1, <2>2, <2>3, <2>5
<1>10. s = t
  BY <1>5, <1>7, <1>8, <1>9, SeqEqual
<1> QED BY <1>10 DEF a, s, l, t

Finished(f, n) == [f EXCEPT ![Len(f)] = Whole(n)]

LEMMA LogEnds ==
  ASSUME NEW f \in Files, NEW g \in Files, NEW n \in Lines \cup {Header},
         EndsIn(g, Half(n))
  PROVE  /\ f \o g # << >> /\ (f \o g)[Len(f \o g)] = Half(n)
         /\ f \o Finished(g, n) = Finished(f \o g, n)
<1> DEFINE w == [g EXCEPT ![Len(g)] = Whole(n)]
           s == f \o w
           l == f \o g
           t == [l EXCEPT ![Len(l)] = Whole(n)]
<1>1. Len(g) \in Nat \ {0} /\ g[Len(g)] = Half(n)
  BY DEF EndsIn, Files
<1>2. /\ Len(l) = Len(f) + Len(g) /\ Len(f) \in Nat /\ l \in Files
      /\ \A i \in 1..(Len(f) + Len(g)) : l[i] = IF i <= Len(f) THEN f[i] ELSE g[i - Len(f)]
  BY LogOf DEF Files
<1>3. /\ w \in Files /\ Len(w) = Len(g) /\ w[Len(g)] = Whole(n)
      /\ \A i \in 1..(Len(g) - 1) : w[i] = g[i]
  BY SizeWhole
<1>4. /\ s \in Seq(Entry) /\ Len(s) = Len(f) + Len(w)
      /\ \A i \in 1..(Len(f) + Len(w)) : s[i] = IF i <= Len(f) THEN f[i] ELSE w[i - Len(f)]
  BY <1>3, LogOf
<1>5. EndsIn(l, Half(n))
  <2> HIDE DEF l
  <2>1. Len(l) # 0 /\ l[Len(l)] = Half(n)
    BY <1>1, <1>2
  <2>2. l # << >>
    BY <2>1
  <2> QED BY <2>1, <2>2 DEF EndsIn
<1>6. /\ t \in Files /\ Len(t) = Len(l) /\ t[Len(l)] = Whole(n)
      /\ \A i \in 1..(Len(l) - 1) : t[i] = l[i]
  BY <1>2, <1>5, SizeWhole
<1>7. t \in Seq(Entry)
  BY <1>6 DEF Files
<1> HIDE DEF w, s, l, t
<1>8. ASSUME NEW i \in 1..Len(s) PROVE s[i] = t[i]
  <2>1. CASE i <= Len(f)
    BY <1>1, <1>2, <1>3, <1>4, <1>6, <2>1
  <2>2. CASE i > Len(f) /\ i < Len(f) + Len(g)
    <3>1. i - Len(f) \in 1..(Len(g) - 1) /\ i \in 1..(Len(l) - 1)
      BY <1>1, <1>2, <2>2
    <3> QED BY <1>2, <1>3, <1>4, <1>6, <2>2, <3>1
  <2>3. CASE i = Len(f) + Len(g)
    <3>1. i - Len(f) = Len(g) /\ i > Len(f)
      BY <1>1, <1>2, <2>3
    <3> QED BY <1>2, <1>3, <1>4, <1>6, <2>3, <3>1
  <2>4. Len(s) = Len(f) + Len(g)
    BY <1>2, <1>3, <1>4
  <2>5. \/ i <= Len(f)
        \/ i > Len(f) /\ i < Len(f) + Len(g)
        \/ i = Len(f) + Len(g)
    BY <1>1, <1>2, <2>4
  <2> QED BY <2>1, <2>2, <2>3, <2>5
<1>9. s = t
  <2>1. Len(s) = Len(t)
    BY <1>2, <1>3, <1>4, <1>6
  <2> QED BY <1>4, <1>7, <1>8, <2>1, SeqEqual
<1> QED BY <1>5, <1>9 DEF w, s, l, t, EndsIn, Finished

LEMMA LogParts ==
  ASSUME NEW f \in Files, NEW g \in Files
  PROVE  /\ SubSeq(f \o g, Len(f) + 1, Len(f \o g)) = g
         /\ SubSeq(f \o g, 1, Len(f)) = f
<1> DEFINE l == f \o g
           a == SubSeq(l, Len(f) + 1, Len(l))
           b == SubSeq(l, 1, Len(f))
<1>1. /\ Len(l) = Len(f) + Len(g) /\ Len(f) \in Nat /\ Len(g) \in Nat /\ l \in Files
      /\ \A i \in 1..(Len(f) + Len(g)) : l[i] = IF i <= Len(f) THEN f[i] ELSE g[i - Len(f)]
  BY LogOf DEF Files
<1>2. b = f
  <2>1. b \in Files /\ Len(b) = Len(f) /\ \A i \in 1..Len(f) : b[i] = l[i]
    <3>1. Len(f) \in 0..Len(l)
      BY <1>1
    <3> HIDE DEF l
    <3> QED BY <1>1, <3>1, Prefix
  <2> HIDE DEF b, l
  <2>2. \A i \in 1..Len(b) : b[i] = f[i]
    BY <1>1, <2>1
  <2> QED BY <2>1, <2>2, SeqEqual DEF Files
<1>3. a = g
  <2>1. \A i \in (Len(f) + 1)..Len(l) : l[i] \in Entry
    BY <1>1, ElementOfSeq DEF Files
  <2>2. /\ a \in Seq(Entry)
        /\ Len(a) = IF Len(f) + 1 <= Len(l) THEN Len(l) - (Len(f) + 1) + 1 ELSE 0
        /\ \A i \in 1..(Len(l) - (Len(f) + 1) + 1) : a[i] = l[Len(f) + 1 + i - 1]
    <3>1. Len(f) + 1 \in Int /\ Len(l) \in Int
      BY <1>1
    <3> QED BY <2>1, <3>1, SubSeqProperties
  <2> HIDE DEF a, l
  <2>3. Len(a) = Len(g)
    BY <1>1, <2>2
  <2>4. ASSUME NEW i \in 1..Len(a) PROVE a[i] = g[i]
    <3>1. a[i] = l[Len(f) + i]
      BY <1>1, <2>2, <2>3
    <3>2. Len(f) + i \in 1..(Len(f) + Len(g)) /\ ~(Len(f) + i <= Len(f))
          /\ Len(f) + i - Len(f) = i
      BY <1>1, <2>3
    <3> QED BY <1>1, <3>1, <3>2
  <2> QED BY <2>2, <2>3, <2>4, SeqEqual DEF Files
<1> QED BY <1>2, <1>3

-----------------------------------------------------------------------------
(* Every step is a step of LogService, or leaves its variables alone.       *)

log == old \o cur

LEMMA PhaseOf ==
  /\ boot = "reset" => Phase = "reset"
  /\ boot = "run" => Phase = "running"
  /\ boot \notin {"reset", "run"} => Phase = "starting"
BY DEF Phase

LEMMA PhaseOfNext ==
  /\ boot' = "reset" => Phase' = "reset"
  /\ boot' = "run" => Phase' = "running"
  /\ boot' \notin {"reset", "run"} => Phase' = "starting"
BY DEF Phase

LEMMA LogSize == \A s : Log!Size(s) = Size(s)
BY DEF Log!Size, Size, Log!Cardinality, Cardinality

LEMMA LogStutters ==
  UNCHANGED <<log, Phase, Clearing>> => UNCHANGED Log!vars
BY DEF Log!vars, log

LEMMA LogEmpty == ASSUME NEW f \in Files PROVE << >> \o f = f /\ f \o << >> = f
BY ConcatEmptySeq DEF Files

LEMMA InitRefines == Init => Log!Init
<1> SUFFICES ASSUME Init PROVE Log!Init
  OBVIOUS
<1>1. cur = << >> /\ old = << >> /\ boot = "reset" /\ http = "idle"
  BY DEF Init
<1>2. old \o cur = << >>
  BY <1>1, SizeEmpty, LogEmpty
<1>3. Phase = "reset" /\ Clearing = FALSE
  BY <1>1, PhaseOf DEF Clearing
<1> QED BY <1>2, <1>3 DEF Log!Init

LEMMA ResetRefines == Reset => Log!Reset
<1> SUFFICES ASSUME Reset PROVE Log!Reset
  OBVIOUS
<1>1. Phase' = "reset"
  BY PhaseOfNext DEF Reset
<1>2. Clearing' = FALSE
  BY DEF Reset, Clearing
<1>3. (old \o cur)' = old \o cur
  BY DEF Reset, files
<1> QED BY <1>1, <1>2, <1>3 DEF Log!Reset

(* The halves of an entry.                                                  *)
LEMMA BeginRefines ==
  ASSUME FilesOK, NEW n \in Lines \cup {Header}, WriteFirst(n), UNCHANGED old,
         UNCHANGED <<Phase, Clearing>>,
         n = Header => Phase = "starting",
         n # Header => Phase = "running" /\ Clearing = FALSE /\ n \notin Numbers
  PROVE  Log!Begin(n) \/ UNCHANGED Log!vars
<1>1. CASE Free > 0
  <2>1. log' = Append(log, Half(n))
    BY <1>1, LogAppend DEF FilesOK, WriteFirst, log
  <2>2. ASSUME NEW i \in DOMAIN log, n # Header PROVE log[i].n # n
    <3>1. /\ Len(old) \in Nat /\ Len(cur) \in Nat
          /\ log \in Seq(Entry) /\ Len(log) = Len(old) + Len(cur)
          /\ \A j \in 1..(Len(old) + Len(cur)) :
               log[j] = IF j <= Len(old) THEN old[j] ELSE cur[j - Len(old)]
      BY LogOf DEF FilesOK, log
    <3>2. DOMAIN old = 1..Len(old) /\ DOMAIN cur = 1..Len(cur)
      BY WholeFinite DEF FilesOK
    <3>3. i \in 1..(Len(old) + Len(cur))
      BY <3>1, <2>2
    <3>4. CASE i <= Len(old)
      <4>1. i \in DOMAIN old /\ log[i] = old[i]
        BY <3>1, <3>2, <3>3, <3>4
      <4> QED BY <2>2, <4>1 DEF Numbers
    <3>5. CASE ~(i <= Len(old))
      <4>1. i - Len(old) \in DOMAIN cur /\ log[i] = cur[i - Len(old)]
        BY <3>1, <3>2, <3>3, <3>5
      <4> QED BY <2>2, <4>1 DEF Numbers
    <3> QED BY <3>4, <3>5
  <2>3. Log!Part(n) = Half(n) /\ Log!Header = Header
    BY DEF Log!Part, Half, Log!Header, Header
  <2> QED BY <2>1, <2>2, <2>3 DEF Log!Begin, log
<1>2. CASE ~(Free > 0)
  <2>1. log' = log
    BY <1>2 DEF WriteFirst, log
  <2> QED BY <2>1, LogStutters
<1> QED BY <1>1, <1>2

LEMMA FinishRefines ==
  ASSUME FilesOK, NEW n \in Lines \cup {Header}, WriteRest(n), UNCHANGED old,
         UNCHANGED <<Phase, Clearing>>, Phase # "reset", Clearing = FALSE
  PROVE  Log!Finish(n) \/ UNCHANGED Log!vars
<1>1. CASE Free > 0 /\ EndsIn(cur, Half(n))
  <2>1. /\ log # << >> /\ log[Len(log)] = Half(n)
        /\ log' = [log EXCEPT ![Len(log)] = Whole(n)]
    <3>1. /\ cur \in Files /\ old \in Files /\ EndsIn(cur, Half(n))
          /\ cur' = Finished(cur, n) /\ old' = old
      BY <1>1 DEF FilesOK, WriteRest, Finished
    <3>2. /\ old \o cur # << >> /\ (old \o cur)[Len(old \o cur)] = Half(n)
          /\ old \o Finished(cur, n) = Finished(old \o cur, n)
      BY <3>1, LogEnds
    <3>3. (old \o cur)' = old \o Finished(cur, n)
      BY <3>1
    <3> QED BY <3>2, <3>3 DEF log, Finished
  <2>2. Log!Part(n) = Half(n) /\ Log!Whole(n) = Whole(n)
    BY DEF Log!Part, Half, Log!Whole, Whole
  <2> QED BY <2>1, <2>2 DEF Log!Finish, log
<1>2. CASE ~(Free > 0 /\ EndsIn(cur, Half(n)))
  <2>1. log' = log
    BY <1>2 DEF WriteRest, log
  <2> QED BY <2>1, LogStutters
<1> QED BY <1>1, <1>2

LEMMA StartupRefines ==
  ASSUME Inv, Distinct, Startup
  PROVE  Log!Next \/ UNCHANGED Log!vars
<1>1. /\ FilesOK /\ boot # "run" /\ http = "idle" /\ http' = http
      /\ Header \in Lines \cup {Header} /\ Header \in Log!Lines \cup {Log!Header}
  BY TypeFiles DEF Inv, Owned, httpVars, Startup, Mount, OpenLog, CheckSize, RotateRemove,
                   RotateRename, RotateReopen, WriteHeader, EndHeader, Return,
                   Header, Log!Header
<1>2. Clearing = FALSE /\ Clearing' = FALSE
  BY <1>1 DEF Clearing
<1>3. cur \in Files /\ old \in Files
  BY <1>1 DEF FilesOK
<1>4. ASSUME UNCHANGED files, boot' = "run" PROVE Log!Run
  <2>1. Phase # "running" /\ Phase' = "running"
    BY <1>1, <1>4, PhaseOf, PhaseOfNext DEF Phase
  <2>2. (old \o cur)' = old \o cur
    BY <1>4 DEF files
  <2> QED BY <1>2, <2>1, <2>2 DEF Log!Run, Log!Start
<1>5. ASSUME UNCHANGED log, boot # "reset", boot' \notin {"reset", "run"}
      PROVE  UNCHANGED Log!vars
  <2>1. Phase' = Phase
    BY <1>1, <1>5, PhaseOf, PhaseOfNext
  <2> QED BY <1>2, <1>5, <2>1, LogStutters
<1>6. UNCHANGED files => UNCHANGED log
  BY DEF files, log
<1>7. CASE Mount
  <2>1. CASE boot' = "run"
    <3>1. UNCHANGED files
      BY <1>7, <2>1 DEF Mount
    <3> QED BY <1>4, <2>1, <3>1 DEF Log!Next
  <2>2. CASE boot' # "run"
    <3>1. /\ boot = "reset" /\ boot' = "open"
          /\ UNCHANGED files \/ (cur' = << >> /\ old' = << >>)
      BY <1>7, <2>2 DEF Mount
    <3>2. Phase = "reset" /\ Phase' = "starting"
      BY <3>1, PhaseOf, PhaseOfNext
    <3>3. << >> \o << >> = << >>
      BY SizeEmpty, LogEmpty
    <3>4. (old \o cur)' \in {old \o cur, << >>}
      BY <3>1, <3>3 DEF files
    <3> QED BY <1>2, <3>2, <3>4 DEF Log!Mount, Log!Start, Log!Next
  <2> QED BY <2>1, <2>2
<1>8. CASE OpenLog \/ CheckSize \/ RotateReopen
  BY <1>4, <1>5, <1>6, <1>8 DEF OpenLog, CheckSize, RotateReopen, Open, ThenHeader, Log!Next
<1>9. CASE RotateRemove
  <2>1. /\ boot = "remove" /\ boot' = "rename" /\ old' = << >> /\ cur' = cur
        /\ Size(cur) > MaxSize
    BY <1>9 DEF RotateRemove, RemovesOld, Inv, Tidy
  <2>2. (old \o cur)' = cur
    BY <1>3, <2>1, LogEmpty
  <2>3. /\ SubSeq(old \o cur, Len(old) + 1, Len(old \o cur)) = cur
        /\ Len(old) \in 0..Len(old \o cur)
    BY <1>3, LogParts, LogOf
  <2>4. Phase = "starting" /\ Phase' = "starting"
    BY <2>1, PhaseOf, PhaseOfNext
  <2>5. Log!Forget(Len(old))
    BY <1>2, <2>1, <2>2, <2>3, <2>4, LogSize DEF Log!Forget
  <2> QED BY <2>3, <2>5 DEF Log!Next
<1>10. CASE RotateRename
  <2>1. /\ boot = "rename" /\ boot' = "reopen" /\ old = << >>
        /\ old' = cur /\ cur' = << >>
    BY <1>10 DEF RotateRename, Inv, Tidy
  <2>2. UNCHANGED log
    BY <1>3, <2>1, LogEmpty DEF log
  <2> QED BY <1>5, <2>1, <2>2
<1>11. CASE WriteHeader
  <2>1. Phase = "starting" /\ Phase' = "starting"
    BY <1>11, PhaseOf, PhaseOfNext DEF WriteHeader
  <2>2. Log!Begin(Header) \/ UNCHANGED Log!vars
    BY <1>1, <1>2, <1>11, <2>1, BeginRefines DEF WriteHeader
  <2> QED BY <1>1, <2>2 DEF Log!Next
<1>12. CASE EndHeader
  <2>1. Phase = "starting" /\ Phase' = "starting"
    BY <1>12, PhaseOf, PhaseOfNext DEF EndHeader
  <2>2. Log!Finish(Header) \/ UNCHANGED Log!vars
    BY <1>1, <1>2, <1>12, <2>1, FinishRefines DEF EndHeader
  <2> QED BY <1>1, <2>2 DEF Log!Next
<1>13. CASE Return
  BY <1>4, <1>13 DEF Return, Log!Next
<1> QED BY <1>7, <1>8, <1>9, <1>10, <1>11, <1>12, <1>13 DEF Startup

LEMMA WriteRefines ==
  ASSUME Inv, Distinct, NEW t \in Tasks, Write(t)
  PROVE  Log!Next \/ UNCHANGED Log!vars
<1>1. CASE TakeMutex(t) \/ TakeTimeout(t)
  <2>1. UNCHANGED <<files, boot, http>>
    BY <1>1 DEF TakeMutex, TakeTimeout, httpVars
  <2>2. UNCHANGED <<log, Phase, Clearing>>
    BY <2>1 DEF files, log, Phase, Clearing
  <2> QED BY <2>2, LogStutters
<1>2. CASE WriteLine(t) \/ EndLine(t)
  <2>1. /\ UNCHANGED <<old, boot, http>> /\ Using(t)
        /\ writing[t].pc # "idle"
    BY <1>2 DEF WriteLine, EndLine, httpVars, Using
  <2>2. boot = "run"
    BY <2>1 DEF Inv, Owned
  <2>3. Clearing = FALSE
    <3>1. SUFFICES ASSUME http \in {"remove", "remove_old", "reopen"} PROVE FALSE
      BY DEF Clearing
    <3>2. log_mutex = Httpd /\ log_mutex = t /\ writing[Httpd].pc = "idle"
      BY <2>1, <3>1 DEF Inv, Owned, Holding
    <3> QED BY <2>1, <3>2
  <2>4. UNCHANGED <<Phase, Clearing>> /\ Phase = "running"
    BY <2>1, <2>2, PhaseOf DEF Phase, Clearing
  <2>5. /\ FilesOK /\ writing[t].n \in Lines \cup {Header}
        /\ writing[t].n \in 1..lines /\ lines \in 0..MaxLines
    <3>1. writing[t] \in Writing
      BY DEF Inv, TypeOK
    <3>2. writing[t].n \in Lines \cup {Header}
      BY <3>1, LineType DEF Writing
    <3> QED BY <2>1, <3>2, TypeFiles DEF Inv, Distinct, TypeOK
  <2>6. writing[t].n # Header /\ writing[t].n \in Log!Lines \cup {Log!Header}
    BY <2>5, ConstantsAssumption DEF Header, Log!Lines
  <2>7. CASE WriteLine(t)
    <3>1. WriteFirst(writing[t].n) /\ writing[t].n \notin Numbers
      BY <2>7 DEF WriteLine, Distinct
    <3>2. Log!Begin(writing[t].n) \/ UNCHANGED Log!vars
      BY <2>1, <2>3, <2>4, <2>5, <2>6, <3>1, BeginRefines
    <3> QED BY <2>6, <3>2 DEF Log!Next
  <2>8. CASE EndLine(t)
    <3>1. WriteRest(writing[t].n)
      BY <2>8 DEF EndLine
    <3>2. Log!Finish(writing[t].n) \/ UNCHANGED Log!vars
      BY <2>1, <2>3, <2>4, <2>5, <3>1, FinishRefines
    <3> QED BY <2>6, <3>2 DEF Log!Next
  <2> QED BY <1>2, <2>7, <2>8
<1>3. CASE Panic(t)
  BY <1>3, ResetRefines DEF Panic, Log!Next
<1> QED BY <1>1, <1>2, <1>3 DEF Write

LEMMA ServeRefines ==
  ASSUME Inv, Serve
  PROVE  Log!Next \/ UNCHANGED Log!vars
<1>1. CASE Restart
  BY <1>1, ResetRefines DEF Restart, Log!Next
<1>2. CASE Measure \/ Allocate \/ Copy \/ CopyFails \/ ReplyWithoutLog \/ Respond
  <2>1. UNCHANGED <<files, boot>>
    BY <1>2 DEF Measure, Allocate, Copy, CopyFails, ReplyWithoutLog, Respond
  <2>2. Clearing = FALSE /\ Clearing' = FALSE
    BY <1>2 DEF Measure, Allocate, Copy, CopyFails, ReplyWithoutLog, Respond, HttpStep,
                Clearing
  <2>3. UNCHANGED <<log, Phase, Clearing>>
    BY <2>1, <2>2 DEF files, log, Phase
  <2> QED BY <2>3, LogStutters
<1>3. CASE ClearClose \/ ClearCurrent \/ ClearOld \/ ClearReopen
  <2>1. /\ cur \in Files /\ old \in Files /\ boot' = boot /\ http # "idle"
    BY <1>3, TypeFiles DEF Inv, FilesOK, ClearClose, ClearCurrent, ClearOld, ClearReopen,
                           HttpStep
  <2>2. Phase = "running" /\ Phase' = "running"
    BY <2>1, PhaseOf, PhaseOfNext DEF Inv, Owned
  <2>3. CASE ClearClose
    <3>1. Clearing' = TRUE /\ (old \o cur)' = old \o cur
      BY <2>3 DEF ClearClose, HttpStep, Clearing, files
    <3> QED BY <2>2, <3>1 DEF Log!BeginClear, Log!Next
  <2>4. CASE ClearCurrent
    <3>1. /\ Clearing = TRUE /\ Clearing' = TRUE /\ cur' = << >> /\ old' = old
      BY <2>4 DEF ClearCurrent, HttpStep, Clearing
    <3>2. (old \o cur)' = old /\ SubSeq(old \o cur, 1, Len(old)) = old
      BY <2>1, <3>1, LogEmpty, LogParts
    <3>3. Len(old) \in 0..Len(old \o cur)
      BY <2>1, LogOf
    <3>4. Log!Remove(Len(old))
      BY <2>2, <3>1, <3>2 DEF Log!Remove
    <3> QED BY <3>3, <3>4 DEF Log!Next
  <2>5. CASE ClearOld
    <3>1. /\ Clearing = TRUE /\ Clearing' = TRUE /\ cur = << >> /\ cur' = cur /\ old' = << >>
      BY <2>5 DEF ClearOld, HttpStep, Clearing, Inv, Tidy
    <3>2. (old \o cur)' = << >> /\ old \o cur \in Files
      BY <2>1, <3>1, LogEmpty
    <3>3. SubSeq(old \o cur, 1, 0) = << >>
      <4>1. /\ SubSeq(old \o cur, 1, 0) \in Files /\ Len(SubSeq(old \o cur, 1, 0)) = 0
        <5>1. 0 \in 0..Len(old \o cur)
          BY <3>2, WholeFinite
        <5> QED BY <3>2, <5>1, Prefix
      <4> QED BY <4>1, EmptySeq DEF Files
    <3>4. 0 \in 0..Len(old \o cur)
      BY <3>2, WholeFinite
    <3>5. Log!Remove(0)
      BY <2>2, <3>1, <3>2, <3>3 DEF Log!Remove
    <3> QED BY <3>4, <3>5 DEF Log!Next
  <2>6. CASE ClearReopen
    <3>1. /\ Clearing = TRUE /\ Clearing' = FALSE /\ cur = << >> /\ old = << >>
          /\ cur' = cur /\ old' = old
      BY <2>6 DEF ClearReopen, HttpStep, Clearing, files, Inv, Tidy
    <3>2. old \o cur = << >> /\ (old \o cur)' = old \o cur
      BY <2>1, <3>1, LogEmpty
    <3> QED BY <2>2, <3>1, <3>2 DEF Log!EndClear, Log!Next
  <2> QED BY <1>3, <2>3, <2>4, <2>5, <2>6
<1> QED BY <1>1, <1>2, <1>3 DEF Serve

LEMMA StepRefines == Inv /\ Distinct /\ [Next]_vars => [Log!Next]_Log!vars
<1> SUFFICES ASSUME Inv, Distinct, [Next]_vars PROVE Log!Next \/ UNCHANGED Log!vars
  OBVIOUS
<1>1. CASE Reset
  BY <1>1, ResetRefines DEF Log!Next
<1>2. CASE (\E t \in Writers : LogWrite(t)) \/ Request \/ Take \/ UNCHANGED vars
  <2>1. UNCHANGED <<files, boot>>
    BY <1>2 DEF LogWrite, Request, RequestRestart, RequestLogs, RequestClear, Take,
                TakeToMeasure, TakeToRead, TakeToClear, vars
  <2>2. Clearing' = Clearing
    BY <1>2 DEF LogWrite, Request, RequestRestart, RequestLogs, RequestClear, Take,
                TakeToMeasure, TakeToRead, TakeToClear, vars, httpVars, HttpStep, Clearing
  <2>3. UNCHANGED <<log, Phase, Clearing>>
    BY <2>1, <2>2 DEF files, log, Phase
  <2> QED BY <2>3, LogStutters
<1> QED BY <1>1, <1>2, StartupRefines, WriteRefines, ServeRefines DEF Next

(* The files, with their rotation, clearing and resets, are the one log     *)
(* that LogService describes.                                               *)
THEOREM LogImplemented == Spec => ImplementsLog
<1>1. Init => Log!Init
  BY InitRefines
<1>2. Inv /\ Distinct /\ [Next]_vars => [Log!Next]_Log!vars
  BY StepRefines
<1>3. Spec => []Distinct
  <2>1. TypeOK /\ Distinct /\ [Next]_vars => Distinct'
    BY NextDistinct
  <2> QED BY <2>1, InitDistinct, TypeCorrect, PTL DEF Spec
<1> QED BY <1>1, <1>2, <1>3, Invariant, PTL DEF Spec, ImplementsLog, Log!Spec

(* So no line is in the two files twice, whatever rotation, a clear or a    *)
(* reset has done to them: LogService promises it, and LogStore keeps it.   *)
THEOREM LinesWrittenOnce == Spec => []Log!LinesOnce
BY LogImplemented, Log!OncePromised, PTL DEF ImplementsLog
=============================================================================
