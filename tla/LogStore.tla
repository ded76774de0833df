------------------------------ MODULE LogStore ------------------------------
(***************************************************************************)
(* The log file and those who use it: log_handler_init, which opens and    *)
(* rotates it while the repeater starts, log_write, which any task calls,  *)
(* and the HTTP server's task, which measures, reads and clears it and     *)
(* restarts the chip.  Chip resets come at any step, and keep the files.   *)
(*                                                                         *)
(* A file is a sequence of entries, lines and boot headers.  Sizes are     *)
(* counted in half entries: an entry is written in two parts, between      *)
(* which the chip may be reset or the file system be full, and a read may  *)
(* end inside it.                                                          *)
(***************************************************************************)
EXTENDS Integers, Sequences, FiniteSets

CONSTANTS
  Writers,   \* the tasks that call log_write, other than the HTTP server's
  Httpd,     \* the HTTP server's task
  MaxLines,  \* bound on the calls of log_write
  MaxSize,   \* LOG_MAX_SIZE
  Capacity   \* of the partition

ASSUME ConstantsAssumption ==
  /\ Httpd \notin Writers /\ {"none", "free"} \cap (Writers \cup {Httpd}) = {}
  /\ MaxLines \in Nat /\ MaxSize \in Nat /\ Capacity \in Nat

VARIABLES
  cur, old,    \* system.log and system.log.old; empty when there is none
  log_file,    \* the stream: null, open, or closed and not yet reopened
  log_mutex,   \* who has taken it; free; or not created
  boot,        \* where app_main is in log_handler_init
  writing,     \* where each task is in log_write, and with which line
  lines,       \* history: the lines so far
  http,        \* where the HTTP server's task is
  log_size,    \* what log_get_size returned
  body         \* the log as read for the reply

files    == <<cur, old>>
httpVars == <<http, log_size, body>>
vars == <<files, log_file, log_mutex, boot, writing, lines, httpVars>>

Tasks   == Writers \cup {Httpd}
Lines   == 1..MaxLines
Header  == 0                   \* the number of every boot header
Entry   == [n : Lines \cup {Header}, whole : BOOLEAN]
Writing == [pc : {"idle", "take", "write", "rest"}, n : 0..MaxLines]
NotWriting == [pc |-> "idle", n |-> 0]

(* The size of a file: only its whole entries have two halves.              *)
Size(f) == Len(f) + Cardinality({i \in DOMAIN f : f[i].whole})

(* The first n halves of a file.                                            *)
Cut(f, n) ==
  LET fits == CHOOSE k \in 0..Len(f) :
                /\ Size(SubSeq(f, 1, k)) <= n
                /\ k = Len(f) \/ Size(SubSeq(f, 1, k + 1)) > n
      start == SubSeq(f, 1, fits)
  IN IF Size(start) < n /\ fits < Len(f)
       THEN Append(start, [f[fits + 1] EXCEPT !.whole = FALSE]) ELSE start

(* The two files share the partition.                                       *)
FreeForOne == Capacity - Size(cur)
Free       == Capacity - Size(cur) - Size(old)

Init ==
  /\ cur = <<>> /\ old = <<>>
  /\ log_file = "null" /\ log_mutex = "none" /\ boot = "reset"
  /\ writing = [t \in Tasks |-> NotWriting] /\ lines = 0
  /\ http = "idle" /\ log_size = 0 /\ body = <<>>

-----------------------------------------------------------------------------
(* Startup: log_handler_init, before any other task runs.  app_main goes on *)
(* whatever it returns.                                                     *)

(* The mutex, and the file system: mounted, formatted first if it cannot    *)
(* be, or not mounted at all.                                               *)
Mount ==
  /\ boot = "reset"
  /\ \/ log_mutex' = "none" /\ boot' = "run" /\ UNCHANGED files
     \/ log_mutex' = "free" /\ boot' = "run" /\ UNCHANGED files
     \/ log_mutex' = "free" /\ boot' = "open" /\ UNCHANGED files
     \/ log_mutex' = "free" /\ boot' = "open" /\ cur' = <<>> /\ old' = <<>>
  /\ UNCHANGED <<log_file, writing, lines, httpVars>>

(* fopen() of a file to append to, which may fail; log_file is null then.   *)
Open(ifOpen) ==
  \/ log_file' = "open" /\ boot' = ifOpen
  \/ log_file' = "null" /\ boot' = "run"

OpenLog ==
  /\ boot = "open"
  /\ Open("check")
  /\ UNCHANGED <<files, log_mutex, writing, lines, httpVars>>

TooLargeByOne == Size(cur) > MaxSize + 1
TooLarge      == Size(cur) > MaxSize
NoHeader   == "run"
ThenHeader == "header"

CheckSize ==
  /\ boot = "check"
  /\ IF TooLarge THEN log_file' = "closed" /\ boot' = "remove"
                 ELSE log_file' = log_file /\ boot' = ThenHeader
  /\ UNCHANGED <<files, log_mutex, writing, lines, httpVars>>

RemovesCurrent == cur' = <<>> /\ UNCHANGED old
RemovesOld     == old' = <<>> /\ UNCHANGED cur

RotateRemove ==
  /\ boot = "remove"
  /\ RemovesOld
  /\ boot' = "rename"
  /\ UNCHANGED <<log_file, log_mutex, writing, lines, httpVars>>

RotateRename ==
  /\ boot = "rename"
  /\ old' = cur /\ cur' = <<>>
  /\ boot' = "reopen"
  /\ UNCHANGED <<log_file, log_mutex, writing, lines, httpVars>>

RotateReopen ==
  /\ boot = "reopen"
  /\ Open(ThenHeader)
  /\ UNCHANGED <<files, log_mutex, writing, lines, httpVars>>

(* What fwrite() adds to the file: each half when there is room for it.     *)
Half(n)  == [n |-> n, whole |-> FALSE]
Whole(n) == [n |-> n, whole |-> TRUE]
EndsIn(f, e) == f # <<>> /\ f[Len(f)] = e

WriteFirst(n) == cur' = IF Free > 0 THEN Append(cur, Half(n)) ELSE cur
WriteRest(n)  == cur' = IF Free > 0 /\ EndsIn(cur, Half(n))
                          THEN [cur EXCEPT ![Len(cur)] = Whole(n)] ELSE cur

WriteHeader ==
  /\ boot = "header"
  /\ WriteFirst(Header)
  /\ boot' = "rest"
  /\ UNCHANGED <<old, log_file, log_mutex, writing, lines, httpVars>>

EndHeader ==
  /\ boot = "rest"
  /\ WriteRest(Header)
  /\ boot' = "return"
  /\ UNCHANGED <<old, log_file, log_mutex, writing, lines, httpVars>>

Return ==
  /\ boot = "return" /\ boot' = "run"
  /\ UNCHANGED <<files, log_file, log_mutex, writing, lines, httpVars>>

(* Any reset of the chip.                                                   *)
Reset ==
  /\ boot # "reset"
  /\ boot' = "reset"
  /\ log_file' = "null" /\ log_mutex' = "none"
  /\ writing' = [t \in Tasks |-> NotWriting]
  /\ http' = "idle" /\ log_size' = 0 /\ body' = <<>>
  /\ UNCHANGED <<files, lines>>

-----------------------------------------------------------------------------
(* log_write, in any task.  Whether there is a mutex and a file is looked   *)
(* at before the mutex is taken, and not again.                             *)

Ready == log_mutex # "none" /\ log_file # "null"

NewLine(t) ==
  /\ writing[t].pc = "idle" /\ lines < MaxLines
  /\ lines' = lines + 1
  /\ writing' = [writing EXCEPT ![t] = [pc |-> "take", n |-> lines + 1]]

LogWrite(t) ==
  /\ boot = "run" /\ Ready
  /\ NewLine(t)
  /\ UNCHANGED <<files, log_file, log_mutex, boot, httpVars>>

Goto(t, pc) == writing' = [writing EXCEPT ![t].pc = pc]
Done(t)     == writing' = [writing EXCEPT ![t] = NotWriting]

TakeMutex(t) ==
  /\ writing[t].pc = "take" /\ log_mutex = "free"
  /\ log_mutex' = t
  /\ Goto(t, "write")
  /\ UNCHANGED <<files, log_file, boot, lines, httpVars>>

(* 100 ms have passed without the mutex: the line is dropped.               *)
WritesAnyway(t) == Goto(t, "write")
DropsLine(t)    == Done(t)

TakeTimeout(t) ==
  /\ writing[t].pc = "take" /\ log_mutex # "free"
  /\ DropsLine(t)
  /\ UNCHANGED <<files, log_file, log_mutex, boot, lines, httpVars>>

WriteLine(t) ==
  /\ writing[t].pc = "write" /\ log_file # "null"
  /\ WriteFirst(writing[t].n)
  /\ Goto(t, "rest")
  /\ UNCHANGED <<old, log_file, log_mutex, boot, lines, httpVars>>

EndLine(t) ==
  /\ writing[t].pc = "rest"
  /\ WriteRest(writing[t].n)
  /\ Done(t)
  /\ log_mutex' = "free"
  /\ UNCHANGED <<old, log_file, boot, lines, httpVars>>

(* log_clear could not open the file again: fwrite() to a null pointer.     *)
Panic(t) ==
  /\ writing[t].pc = "write" /\ log_file = "null"
  /\ Reset

-----------------------------------------------------------------------------
(* The HTTP server's task, one request at a time.                           *)

HttpStep(from, to) == http = from /\ http' = to

(* /restart writes a line and, having answered, restarts the chip.          *)
RequestRestart ==
  /\ boot = "run" /\ HttpStep("idle", "restart")
  /\ IF Ready /\ lines < MaxLines THEN NewLine(Httpd) ELSE UNCHANGED <<writing, lines>>
  /\ UNCHANGED <<files, log_file, log_mutex, boot, log_size, body>>

Restart ==
  /\ http = "restart" /\ writing[Httpd].pc = "idle"
  /\ Reset

(* /logs measures the log under the mutex ...                               *)
RequestLogs ==
  /\ boot = "run" /\ HttpStep("idle", "logs")
  /\ body' = <<>>
  /\ UNCHANGED <<files, log_file, log_mutex, boot, writing, lines, log_size>>

TakeToMeasure ==
  /\ Ready /\ log_mutex = "free" /\ HttpStep("logs", "measure")
  /\ log_mutex' = Httpd
  /\ UNCHANGED <<files, log_file, boot, writing, lines, log_size, body>>

Measure ==
  /\ HttpStep("measure", "alloc")
  /\ log_size' = Size(cur)
  /\ log_mutex' = "free"
  /\ UNCHANGED <<files, log_file, boot, writing, lines, body>>

(* ... allocates a buffer, if there is anything, and if it can ...          *)
Allocate ==
  /\ log_size > 0 /\ HttpStep("alloc", "read")
  /\ UNCHANGED <<files, log_file, log_mutex, boot, writing, lines, log_size, body>>

TakeToRead ==
  /\ Ready /\ log_mutex = "free" /\ HttpStep("read", "copy")
  /\ log_mutex' = Httpd
  /\ UNCHANGED <<files, log_file, boot, writing, lines, log_size, body>>

(* ... and reads as much as the buffer holds beside its terminator.         *)
TextOnly  == log_size
BufferSize == log_size + 1

Copy ==
  /\ HttpStep("copy", "reply")
  /\ body' = Cut(cur, BufferSize - 1)
  /\ log_mutex' = "free"
  /\ UNCHANGED <<files, log_file, boot, writing, lines, log_size>>

KeepsMutex == UNCHANGED log_mutex
GivesMutex == log_mutex' = "free"

CopyFails ==
  /\ HttpStep("copy", "reply")
  /\ GivesMutex
  /\ UNCHANGED <<files, log_file, boot, writing, lines, log_size, body>>

(* No log, nothing in it, no memory for it: another text is sent.           *)
ReplyWithoutLog ==
  /\ \/ http \in {"logs", "clear"} /\ ~Ready
     \/ http = "alloc"
  /\ http' = "reply"
  /\ UNCHANGED <<files, log_file, log_mutex, boot, writing, lines, log_size, body>>

(* /clear.                                                                  *)
RequestClear ==
  /\ boot = "run" /\ HttpStep("idle", "clear")
  /\ body' = <<>>
  /\ UNCHANGED <<files, log_file, log_mutex, boot, writing, lines, log_size>>

TakeToClear ==
  /\ Ready /\ log_mutex = "free" /\ HttpStep("clear", "close")
  /\ log_mutex' = Httpd
  /\ UNCHANGED <<files, log_file, boot, writing, lines, log_size, body>>

ClearClose ==
  /\ HttpStep("close", "remove")
  /\ log_file' = "closed"
  /\ UNCHANGED <<files, log_mutex, boot, writing, lines, log_size, body>>

ClearCurrent ==
  /\ HttpStep("remove", "remove_old")
  /\ cur' = <<>>
  /\ UNCHANGED <<old, log_file, log_mutex, boot, writing, lines, log_size, body>>

ClearOld ==
  /\ HttpStep("remove_old", "reopen")
  /\ old' = <<>>
  /\ UNCHANGED <<cur, log_file, log_mutex, boot, writing, lines, log_size, body>>

ClearReopen ==
  /\ HttpStep("reopen", "reply")
  /\ log_file' \in {"open", "null"}
  /\ log_mutex' = "free"
  /\ UNCHANGED <<files, boot, writing, lines, log_size, body>>

Respond ==
  /\ HttpStep("reply", "idle")
  /\ body' = <<>> /\ log_size' = 0
  /\ UNCHANGED <<files, log_file, log_mutex, boot, writing, lines>>

-----------------------------------------------------------------------------
Startup == \/ Mount \/ OpenLog \/ CheckSize \/ RotateRemove \/ RotateRename
           \/ RotateReopen \/ WriteHeader \/ EndHeader \/ Return
Write(t) == \/ TakeMutex(t) \/ TakeTimeout(t) \/ WriteLine(t) \/ EndLine(t)
            \/ Panic(t)
Request == RequestRestart \/ RequestLogs \/ RequestClear
Take    == TakeToMeasure \/ TakeToRead \/ TakeToClear
Serve   == \/ Restart \/ Measure \/ Allocate \/ Copy \/ CopyFails
           \/ ReplyWithoutLog \/ ClearClose \/ ClearCurrent \/ ClearOld
           \/ ClearReopen \/ Respond

Next == \/ Startup \/ Reset
        \/ \E t \in Writers : LogWrite(t)
        \/ \E t \in Tasks : Write(t)
        \/ Request \/ Take \/ Serve

Spec == Init /\ [][Next]_vars

(* Every task is scheduled again.  The HTTP server's task has no timeout on *)
(* the mutex, and takes it when it finds it free often enough: the tasks    *)
(* that write lines have to wait for input between them.                    *)
FairSpec ==
  /\ Spec
  /\ WF_vars(Startup) /\ WF_vars(Serve) /\ SF_vars(Take)
  /\ \A t \in Tasks : WF_vars(Write(t))

-----------------------------------------------------------------------------
(* What is asked of it.                                                     *)

Files == Seq(Entry)

TypeOK ==
  /\ cur \in Files /\ old \in Files
  /\ Size(cur) + Size(old) <= Capacity
  /\ log_file \in {"null", "open", "closed"}
  /\ log_mutex \in {"none", "free"} \cup Tasks
  /\ boot \in {"reset", "open", "check", "remove", "rename", "reopen", "header",
               "rest", "return", "run"}
  /\ writing \in [Tasks -> Writing]
  /\ lines \in 0..MaxLines
  /\ http \in {"idle", "restart", "logs", "measure", "alloc", "read", "copy",
               "clear", "close", "remove", "remove_old", "reopen", "reply"}
  /\ log_size \in Nat
  /\ body \in Files

(* The stream is never used between log_clear's fclose() and fopen(), which *)
(* the check at the top of log_write does not exclude.                      *)
Using(t) == writing[t].pc \in {"write", "rest"}
NoClosedStream ==
  /\ \A t \in Tasks : Using(t) => log_file # "closed"
  /\ http \in {"measure", "copy", "close"} => log_file # "closed"
  /\ boot \in {"header", "rest"} => log_file = "open"

(* A line torn by a reset or by a full file system is the last of its file, *)
(* or a boot header follows, which begins on a new line: none is glued to   *)
(* the next.                                                                *)
NotGlued(f) == \A i \in 1..(Len(f) - 1) : f[i].whole \/ f[i + 1].n = Header
NothingGlued == NotGlued(cur) /\ NotGlued(old)

(* Between measuring the log and reading it the mutex is free.  The reply   *)
(* is still the log as measured: no less, and no line cut off.              *)
ReplyIsTheLog ==
  http = "reply" /\ body # <<>> =>
    Size(body) = log_size /\ body = SubSeq(cur, 1, Len(body))

(* However often rotation is cut short by a reset, the log that a boot      *)
(* header is written to is not over LOG_MAX_SIZE.                           *)
RotatedAtBoot == boot = "header" => Size(cur) <= MaxSize

(* Rotation, resets and clearing step by step never lose a line but the     *)
(* oldest, of which rotation leaves LOG_MAX_SIZE, or all; none is written   *)
(* twice, and none goes between lines that stay.                            *)
Phase == CASE boot = "reset" -> "reset" [] boot = "run" -> "running"
           [] OTHER -> "starting"
Clearing == http \in {"remove", "remove_old", "reopen"}
Log == INSTANCE LogService WITH log <- old \o cur, phase <- Phase,
                                clearing <- Clearing, Kept <- MaxSize
ImplementsLog == Log!Spec

(* Whoever has the mutex is at a step that waits for nothing: no way out of *)
(* log_write, a read or a clear, failures included, leaves it taken.        *)
MutexIsUsed ==
  log_mutex \in Tasks =>
    \/ Using(log_mutex)
    \/ log_mutex = Httpd /\ http \in {"measure", "copy", "close", "remove",
                                      "remove_old", "reopen"}

(* And it comes back after at most four steps of his, which no other task's *)
(* step adds to.                                                            *)
SectionLeft ==
  IF log_mutex \notin Tasks THEN 0
  ELSE IF Using(log_mutex) THEN IF writing[log_mutex].pc = "write" THEN 2 ELSE 1
  ELSE CASE http = "close" -> 4 [] http = "remove" -> 3
         [] http = "remove_old" -> 2 [] OTHER -> 1
Holder(t) == Write(t) \/ (t = Httpd /\ Serve)
MutexComesBack ==
  [][\A t \in Tasks : log_mutex = t /\ log_mutex' = t =>
       /\ SectionLeft' \in 0..SectionLeft
       /\ Holder(t) => SectionLeft' < SectionLeft]_vars

(* No request and no line is stuck behind the mutex.                        *)
NobodyStuck ==
  /\ (http # "idle") ~> (http = "idle")
  /\ \A t \in Tasks : (writing[t].pc # "idle") ~> (writing[t].pc = "idle")
=============================================================================
