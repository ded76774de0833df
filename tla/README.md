# The URB repeater in TLA+

`esp32_usb_repeater` makes a USB device plugged into an ESP32-S2 available to a
PC over Wi-Fi, with the USB/IP protocol. This directory holds TLA+ models of the
firmware (`src/firmware/main`), TLC configurations that check them on small
instances, and TLAPS proofs for every value of their parameters.

## 1. The system

### Components

| component | code | state | runs in |
|---|---|---|---|
| TCP server | `tcp_connect.c` | `sock`, `recv_submit`, `device_busy`, `sock_mutex` | `tcp_server` task, priority 5 |
| command handler | `usbip_server.c`, `_usb_ip_event_handler_1` | none of its own; reads the descriptors, sets `device_busy` | event loop `loop_handle`, priority 21 |
| submit handler | `usb_handler.c`, `_usb_ip_event_handler_2` | `skt`, `ep1/ep2_transfer_pending` | event loop `loop_handle2`, priority 21 |
| class task | `usb_handler.c`, `usb_class_driver_task`, `client_event_cb`, `action_*`, `transfer_cb*` | `driver_obj` (`actions`, `dev_addr`, `dev_hdl`), `dev_desc`, `config_desc`, `mps` | priority 3 |
| daemon task | `usb_handler.c`, `usb_host_lib_daemon_task` | `has_clients`, `has_devices` | priority 2 |
| log handler | `log_handler.c` | `log_file`, `log_mutex`, `boot_count`, two files in SPIFFS | any task |
| HTTP server | `http_server.c` | none | its own task |
| startup | `main.c`, `tcp_server_init`, `usbip_server_init` | | main task |

### How they interact

    client ──TCP──▶ do_recv ──post──▶ loop_handle  ─▶ handler 1 ──▶ client
                       │                                 │ device_busy := true
                       └──────post──▶ loop_handle2 ─▶ handler 2
                                                         │ usb_host_transfer_submit
    client ◀──TCP── transfer_cb ◀── class task ◀── USB host library
                                        ▲  │                ▲
                              semaphore │  ▼                │ events, install,
                                        daemon task ────────┘ uninstall

* `do_recv` posts copies of what it has read. A post blocks while the loop's
  queue is full.
* `device_busy`, the endpoint flags and `skt` are plain globals, written by
  three tasks without a lock. Only `send()` is under a mutex.
* The class and the daemon task share one binary semaphore, which both give and
  both take: installed / finished.
* The library calls `client_event_cb` and the transfer callbacks in the class
  task. `ESP_ERROR_CHECK` and `assert` reset the chip.

### What is hard, and what correctness means

*TCP server, submit handler, callbacks.* A request passes three tasks while the
connection may close, break, or be replaced by the next client's. Correct
means: a request goes to the device once and in order, is answered at most once,
under its own number and on its own connection, its memory is freed once and not before its last
use, interrupt endpoints do not pile up transfers, and a client that leaves
frees the server.

*Class and daemon task.* The device may go at any point of its enumeration and
be replaced before anyone has heard of it. Correct means: no action is run
without the handle it needs, the device is closed once, the two tasks do not
deadlock on their semaphore, and after an unplug the repeater can serve a
device again.

*Command handler.* The import request is read by two tasks from one socket, and
`do_recv` waits one second for its result and then reads on, whether the handler
has finished or not. Correct means: a command is answered at most once and in
order, `device_busy` is set by an answered import and by nothing else, no command
waits for ever, and a client that leaves in the middle of it, or whose
`device_busy` comes late, does not keep the server.

*Log.* Any task writes; the HTTP server's task reads and clears; the chip may be
reset between any two steps. Correct means: no writer meets a closed file, a line
torn by a reset or by a full partition is not glued to the next, rotation cut
short loses nothing but what it was removing, a reply is the log as it was
measured, and nobody is left waiting for the mutex.

*Reply contents.* Four lengths go through three tasks: what the client asks for,
the transfer rounded up to a packet size that was found at enumeration, what the
device returned, what is copied and sent. Buffers are 1000 and 1024 bytes. Correct
means: the client reads exactly what was sent, is told of no more than it asked
for, and no callback copies more than there was.

`PROJECT.json` lists the hazards one by one, each at its line, with the
properties that would catch it.

## 2. The modules

| module | what it is |
|---|---|
| `UrbPath` | the URB phase: `do_recv`, handler 2, the transfer callbacks, the socket descriptors |
| `UrbService` | what the URB phase promises about each request; `UrbPath` implements it |
| `MCUrbPath` | the instance of `UrbPath` for TLC |
| `UrbPathProofs` | theorems about `UrbPath` |
| `ConnectionService` | what the two phases agree on about a connection; `UrbPath` and `CommandPhase` both implement it |
| `CommandPhase` | the command phase: `do_recv`'s command loop and handler 1, two readers of one stream |
| `CommandService` | what the command phase promises about each command and about `device_busy`; `CommandPhase` implements it |
| `MCCommandPhase` | the instance of `CommandPhase` for TLC |
| `CommandPhaseProofs` | theorems about `CommandPhase` |
| `RetSubmit` | the lengths and statuses on the way from a request to its reply |
| `MCRetSubmit` | the instance of `RetSubmit` for TLC |
| `RetSubmitProofs` | theorems about `RetSubmit` |
| `LogStore` | the log file, `log_handler_init`, `log_write`, and the HTTP server's handlers, under resets |
| `LogService` | what the log promises: one sequence of entries; `LogStore` implements it |
| `MCLogStore` | the instance of `LogStore` for TLC |
| `LogStoreProofs` | theorems about `LogStore` |
| `UsbHost` | the class task, the daemon task and the USB host library under plugging and unplugging |
| `MCUsbHost` | the instance of `UsbHost` for TLC |
| `UsbHostProofs` | theorems about `UsbHost` |

### UrbPath

| variables | code |
|---|---|
| `tcp`, `conn`, `sock`, `recv_submit` | where `tcp_server_start`/`do_recv` is, its connection, `sock`, `recv_submit` |
| `importing` | imports that do_recv has posted to handler 1 and that are not finished |
| `queue` | the queue of `loop_handle2` (`queue_size` 100) |
| `skt`, `marking` | the global `skt`; the request between its submit and its flag (lines 498-505) |
| `inflight`, `cb`, `heap` | transfers with the library, the callback that runs, what is allocated |
| `device_busy`, `pending` | `device_busy`, `ep1_transfer_pending` and `ep2_transfer_pending` |
| `owner` | which connection a descriptor stands for: lwIP hands out a closed one again |
| `reqs`, `stream`, `peer`, `attached` | the client: what it sent, what is unread, how its end stands, whether it asked for an import and got it |
| `replies`, `unlinks` | histories: for each request, the connections its `RET_SUBMIT` was written on; the `RET_UNLINK`s written, each with the seqnum it carries |

A request is a number (the order in which the clients sent it), with its command,
endpoint and connection; the number stands for its seqnum, which handler 2 copies
into the `RET_SUBMIT`. A `RET_UNLINK` is another matter: `do_recv` sends it itself, under
a seqnum that is always 2 (`UnlinkSeqnum`, line 248), and it is kept apart, in `unlinks`.
Data and lengths are left out: no property of this module depends on them, and
`RetSubmit` has the lengths.

*Grain of steps.* A step ends where the code can block or lose the processor
between two accesses to shared data. In handler 2 everything from taking the
event to the return of `usb_host_transfer_submit` is one step, because what it
reads of the flags is read once; setting the flag afterwards is a step of its own
(`MarkPending`), because a `log_write` with a 100 ms mutex wait lies between.
A callback is three steps: it starts and clears the flag (`Complete`), it
reads `skt` (`CbCheck`), it sends and frees (`CbSend`). Of the command phase, which
is `CommandPhase`'s subject, three things are kept because they reach into the URB
phase: an import is posted (`PostImport`), it is finished at any later time, also
under a later connection (`ImportDone` sets `device_busy`, `ImportFails` does not),
and `do_recv` reads `device_busy` before it waits in `recv()` (`EnterRecv`), so that
an URB of a client whose import came late is read as a command (`ReadAsCommand`).

*The end of a connection.* `recv()` returns 0 once when the client has closed, to
whoever reads next, and fails (`ENOTCONN`) after that, as it does on a connection that was
lost. So `peer` goes from "fin" to "shut" with the read that is told: `do_recv`'s own in
the URB loop (`RecvEof`, which clears `device_busy`), its read of the rest of a request
that the end has cut (`RecvCut`, which does not), or handler 1's (`ImportFails`). In the
URB loop a `recv()` that fails is `RecvError`, which leaves the inner loop only. The
command loop ends at either (`LoopEnds`).

*External.* The client; lwIP, which hands out a free descriptor, may lose unread
data on a reset, and tells of the end as above; the event loop, which delivers an
event once; the USB host library, which runs each callback once.

### UrbService

A request goes `unsent → waiting → device → answered`, or is lost from
`waiting` or `device`; requests start in order. Only what was with the device is
answered: the `RET_SUBMIT`. An unlink cancels nothing and starts nothing, and ends as
lost, whatever `RET_UNLINK` was sent for it. The refinement mapping
`Stage` reads a request's stage off the state of `UrbPath`: unread, at the post
or in the queue is waiting; in flight or in its callback is with the device;
and afterwards it is answered or lost. Losing is silent, as it is in the code: the
service does not promise that a client is answered in the end.

### CommandPhase

| variables | code |
|---|---|
| `tcp`, `conn`, `sock` | where `tcp_server_start`/`do_recv` is, its connection, `sock` |
| `queue`, `h` | the queue of `loop_handle`; where `_usb_ip_event_handler_1` is, with which command |
| `device_busy`, `described` | `device_busy`; `dev_desc` and `config_desc` are set |
| `owner` | which connection a descriptor stands for |
| `reqs`, `written`, `taken`, `peer`, `answers` | the clients: what they sent, how much of the last command is written and how much either reader has received, how their end stands, what they were answered |

Bytes are counted in headers of eight: a command is its header, and an import
`BodyUnits` more, which may arrive in parts. `taken` is common to the two readers:
a unit that `do_recv` receives after its wait (`RecvInvalid`, it has no valid
version) is missing when handler 1 reads the body, which then is short or names
no bus id. So is the end of the connection, which `recv()` tells once (see `UrbPath`): it
may be read by handler 1 (`ReadFails`) and then is not there for `do_recv`. `TakeCommand` notes the connection that the descriptor stands for; a
`recv()` of handler 1 ends when that connection is closed (`ReadFails`). A missing
device is `Panic`, a reset of the chip: `usbip_server.c:163` follows a null pointer.

*Grain of steps.* Each `recv()`, each `send()`, each post and each assignment to
`device_busy` is one. The hundred 10 ms polls of the wait are one step that
may happen at any time (`WaitEnds`), since it goes on in both cases.

*External.* The clients, which send one command at a time and end after an import;
lwIP, as in `UrbPath`. A header arrives whole.

### CommandService

Commands go `unsent → waiting → answered` in order, or are lost in silence.
`imports` says which of them are imports: the answer to one of these owes a `device_busy`
(`owed' = (r \in imports)`), the answer to a device list owes none, and `Grant` pays before
the next answer: that is all that sets the flag. The connection's end and the device's
clear it at any time. In the refinement, a command waits while it is unread, at the
post, in the queue or with the handler; `owed` is handler 1 between the reply to an import
and its assignment, and `imports` is read off the commands as they were sent.

### ConnectionService

`UrbPath` and `CommandPhase` each have one phase of a connection in full and the
other in outline, and they share `do_recv`, handler 1 and `device_busy`. What they
say of these must agree, or what one leaves out would be in neither: so both
implement one contract. A connection is read for commands, behind `device_busy` for URBs, and then
cleaned up and closed; an import is asked for once at a time on a connection, and
finished in the order of the connections, maybe under a later one; nothing but a
finished import sets `device_busy`. The client's end is read once, among URBs or by
an import that is finished without success.

| `ConnectionService` | in `UrbPath` | in `CommandPhase` |
|---|---|---|
| `phase` "commands" | `tcp` is "loop" or "recv" | "loop", "recv", "post" or "wait" |
| `phase` "urbs" | "urb" or "post" | "urb" |
| `asked` | the connections in `importing` | of the imports in `queue` and with handler 1, up to `Grant` |
| `Ask`, `Finish` | `PostImport`; `ImportDone`, `ImportFails` | `PostCommand`; `Grant`, `ReadShort`, `ReadFails`, `SendFails` |
| `EndOfUrbs` | `RecvEof`, `RecvError` | `UrbEof`, `UrbError` |
| `Cut` | `RecvCut` | never: commands are whole where they are read among URBs |
| `Reset` | never | `Panic` |

The code allows each module's outline to be wider than the other's detail:
`ImportFails` may come at any time, where `CommandPhase` knows why. `Panic` is missing
from `UrbPath`, since a chip that is reset has no requests, transfers or memory left.

### RetSubmit

| variables | code |
|---|---|
| `device`, `mps` | what is plugged in: the endpoints of its interfaces; `mps[10]` |
| `reqs`, `handled` | the requests with their lengths; how many do_recv or handler 2 has handled |
| `flight` | transfers with the library, with their `num_bytes` |
| `stream` | the replies as sent, with what was copied and the size of the transfer |

Packet sizes are found by interface (`Found`) and looked up by endpoint
(`NumBytes`), and a second device may leave those of the first: `AnswerFits` is
about every such mixture. `Takes` is what the library checks before it takes a
transfer. The order of steps between tasks is left to `UrbPath`: here a request
is handled in one step, and completes in another.

### LogStore

| variables | code |
|---|---|
| `cur`, `old` | `/spiffs/system.log`, `/spiffs/system.log.old` |
| `log_file`, `log_mutex` | `log_file`: null, open, or closed and not yet reopened; `log_mutex`: who has taken it |
| `boot` | where `app_main` is in `log_handler_init` |
| `writing`, `lines` | where each task is in `log_write`, with which line; how many there were |
| `http`, `log_size`, `body` | where the HTTP server's task is; the size `/logs` measured; what it read |

A file is a sequence of entries, lines and boot headers, each of two halves: the
chip may be reset, the partition be full, or a read end between them. There
is an action for every step of `log_handler_init` that touches a file, two for
`fwrite`, and one for each critical section of the HTTP server's functions, except
that `log_clear` is four steps, because a reset may come between them. `Panic` is
`fwrite` to the null pointer that a failed reopening in `log_clear` leaves, which
the check at the top of `log_write`, outside the mutex, may have missed.

*External.* SPIFFS and stdio: `fopen` may fail, `fflush` reaches the flash, `stat`,
`remove` and `rename` of a file that is there succeed, and a reset tears at most the
entry that is being written. Both the log handler and the HTTP server are
configuration options (`Kconfig.projbuild`); the model is of a build with both.

### LogService

One sequence, `log`, which in `LogStore` is `old \o cur`. While running, lines are
added at its end, each once, in two parts of which the second may be missing.
Startup may take away the oldest entries but leaves more than `Kept`
(`LOG_MAX_SIZE`), or everything when the partition had to be formatted. A clear takes
the newest first, and leaves nothing if it is completed. A reset keeps what there
is.

### UsbHost

| variables | code |
|---|---|
| `class`, `actions`, `dev_addr`, `dev_hdl` | where `usb_class_driver_task` is; the fields of `driver_obj` |
| `dev_desc`, `config_desc` | the pointers: NULL, or into a device object that is live or freed |
| `daemon`, `has_clients`, `has_devices` | where `usb_host_lib_daemon_task` is, and its locals |
| `sem`, `device_busy` | `signaling_sem`, `device_busy` |
| `installed`, `registered`, `dev`, `held`, `claimed`, `msgs`, `flags` | the library |
| `plugged` | the port |

There is one action for every `action_*` function and one more for its failure,
one for each case of `client_event_cb`, and one for each library call of the two
tasks. A pass of the class task over `actions` is a sequence of such
steps. A call under `ESP_ERROR_CHECK` that the library refuses is `Abort`:
everything but the port starts again.

*External.* The library refuses to register when it is not installed, to
uninstall while a client or a device is left, and to close a device with an
interface claimed; it announces a device that goes only to a client that has it
open; it enumerates a new device once the last one's object is freed; its
message queue drops what does not fit. Device addresses are one value: a
`usb_host_device_open` with an old address may find the new device or fail.
The event loop that registering creates is `UrbPath`'s subject.

## 3. The runs

| run | checks | instance | size |
|---|---|---|---|
| `urb_core` | `TypeOK`, `AtMostOneReply`, `TransfersAllocated`, `InFlightBounded`, `SubmitOrder`, `ImplementsService`, `ImplementsConnection` | 3 requests on endpoint 1, 2 connections, queue of 2, one descriptor | 285 000 states |
| `urb_live` | `OwnerServed`, `FinDrains`, `FinFreesServer` | 2 requests on endpoints 0 and 1, unlinks, 2 connections, queue of 1, two descriptors | 521 000 states |
| `cmd` | `TypeOK`, `ImplementsService`, `ImplementsConnection`, `CloseDrains`, `WaitingDrains`, `BusyDrains`, `CloseFreesServer`, `NothingWaits`, `BusyIsSeen` | 3 commands, 2 connections, queue of 1, bodies of 2 units | 125 000 states |
| `reply` | `TypeOK`, `ClientFramed`, `NoMoreThanAsked`, `AnswerFits` | 2 requests, 5 lengths, 3 devices | 813 000 states |
| `log` | `TypeOK`, `NoClosedStream`, `NothingGlued`, `ReplyIsTheLog`, `RotatedAtBoot`, `MutexIsUsed`, `MutexComesBack`, `ImplementsLog`, `NobodyStuck` | 2 tasks and the HTTP server's, 3 lines, rotation above 3 halves, 7 halves of partition | 105 000 states |
| `host` | `TypeOK`, `AssertsHold`, `HandleOpen`, `NoMutualWait`, `WaiterServed`, `UnplugDrains`, `UnplugRecovers` | message queue of 3 | 21 522 states |
| `urb_leak`, `urb_misroute`, `urb_stale_flag`, `urb_reset_spin` | each one statement of the code's comments: `NothingLeaked`, `ReplyToOwner`, `FlagMeansTransfer`, `ResetFreesServer` | smallest that shows it | stops at the counterexample |
| `host_sem`, `host_stale_desc` | `RegistersWhenInstalled`, `AvailableMeansDevice`, likewise | that of `host` | stops at the counterexample |

*Bounds of UrbPath.* Endpoint 0 has no flag and endpoint 1 has one: the code
treats each endpoint it does not track like 0 and 2 like 1. Two
connections are the least that let a transfer outlive its client; three requests are
the least that fill an endpoint past its bound with one more waiting behind. They are
on the interrupt endpoint in `urb_core`, where its flag matters; the control pipe and
the unlinks, which do_recv answers itself, are in `urb_live`, with two requests. The
queue of `urb_live` is one, so that the post really blocks; in
`urb_core` two, so that its order matters. With one descriptor the second
connection always gets the number of the first; with two it may not.
`MaxReq` and `MaxConn` are the only bounds of the model that the code does not
have.

*Bounds of UsbHost.* None but the message queue (3 for 15): devices come and go
without limit, and the state space is finite. Three messages are two unseen devices
and one more; overflow is reached.

*Bounds of CommandPhase.* Three commands on two connections let a late import meet
both the next command and the next client; a body of two units is the least that
can be torn; a queue of one makes the post block. As in `UrbPath`, `MaxReq` and
`MaxConn` are the only bounds that the code does not have.

*Bounds of RetSubmit.* Lengths of nothing, of a packet, of more than the buffer
once rounded, of the buffer, and of more than both buffers; devices whose
endpoints and interfaces agree, do not, or lack endpoints. Each reply depends on
its own request and on the packet sizes found so far, so that two requests around a
change of device are enough.

*Bounds of LogStore.* The header after a rotation and one line are more than
`MaxSize`, so that the next start rotates again; the partition is full after both
files have an entry or two, in the middle of an entry. `MaxLines` bounds the lines;
resets, headers, requests and clears are not bounded. Deadlock is checked: a
request can always come.

*Fairness of UrbPath.* Weak fairness of the steps of `do_recv` that do not fail
(`Receive`) and of the event-loop task (`Handler`): both outrank the class
and daemon tasks, wait for input, queue room and locks that are released, and
nothing else. Nothing is assumed of the client, the device, the class task, or of
memory running out. `send()` is taken to return.

*Fairness of CommandPhase.* Weak fairness of `do_recv` (`Receive`) and of handler 1
(`Handler`), which outrank the rest as above: every wait of theirs ends, because
`recv()` has a timeout of 30 seconds (`SO_RCVTIMEO`) and the wait for `device_busy`
one of a second. Nothing is assumed of the clients and of the class task.

*Fairness of LogStore.* Weak fairness of startup, of each task inside `log_write`,
whose wait ends after 100 ms, and of the HTTP server's task once it has the mutex.
Its waits for the mutex have no timeout; they are strongly fair (`SF(Take)`), since
the tasks that write lines wait for input between them and FreeRTOS hands a mutex
to a waiting task when it is given. `NobodyStuck` also holds of a request that a
reset cuts off.

*Fairness of UsbHost.* Weak fairness of the class task, of the daemon and of the
freeing of a device that is gone. It supposes that `do_recv` waits for its socket
now and then; `urb_reset_spin` shows the case where it does not. An
install that fails is tried again every 5 seconds, and is taken to succeed in
the end. The library handles all that is pending in each call, so that devices coming and going
cannot keep an event flag from the daemon.

### What they show

The URB phase keeps its memory, its order and its at-most-one answer under every
interleaving, and implements `UrbService`: whatever goes wrong, a request is
lost, never repeated. `OwnerServed` draws the line around `urb_misroute`: as long as
the connection of a transfer is open, the transfer is answered on it, although the
callback uses the descriptor of the last request handled; only what outlives its
connection can be answered on another. The host tasks keep their handles and their
semaphore, and one that waits for the semaphore waits for a task that gives it without
waiting itself, or that resets the chip (`WaiterServed`).
The command phase implements `CommandService`, although its two readers may tear a
command between them: what is torn is lost, never answered wrongly, and no one
waits for it. Both phases implement `ConnectionService`, so that the import which
`UrbPath` only outlines is the one that `CommandPhase` carries out, and the way from
`device_busy` to the end of a connection is the same in both. `BusyIsSeen` says that a `device_busy` that is set late still takes
`do_recv` to the URB loop, which is how `CloseFreesServer` holds for a client that
finds itself there.

`FinFreesServer` and `CloseFreesServer` say that a connection that ends, by a close or a
reset, leads back to `accept()`, with one exception that they name: `Spinning`, where
`device_busy` is set at the top of the loop and `recv()` fails. After a reset this is the rule
(`urb_reset_spin`); after a close it takes a request that the end has cut, or an import that
is handled late: `device_busy` is set once the end has been read. For example, a first client's import, handled
late, sets it under a second client that has closed, and whose own import handler 1 gives
up by reading the end: the URB loop finds a `recv()` that fails, and `do_recv` spins on a
connection that was closed in good order. Without `Spinning` TLC finds this in the
instance of `cmd`. Short of it the server is free again, whatever the queue and the other
task do.

Replies carry what their headers announce, whatever the device
and the lengths, so that the client stays in step with the stream; `AnswerFits`
excepts transfers whose packet size was never found, which are of no bytes while the
copy has the client's length. The log is one sequence through rotations, clears
and resets; no writer meets a closed stream, and every request and line gets past the
mutex, because who has it is on his way out of a critical section of at most four
steps (`MutexIsUsed`, `MutexComesBack`).

*Bounded work.* Each liveness property has a partner, an action
property with a measure:

| measure | property | never raised while | lowered by | belongs to |
|---|---|---|---|---|
| `Work` of `UrbPath` | `FinDrains` | the end of the connection is to be read, or `recv()` fails and `device_busy` is not set | each step of `do_recv` and handler 2 | `FinFreesServer` |
| `Work` of `CommandPhase` | `CloseDrains` | the same | each step of `do_recv` and handler 1 | `CloseFreesServer` |
| `WaitLeft(r)` | `WaitingDrains` | command `r` waits | each step of handler 1, and of `do_recv` until `r` is posted | `NothingWaits` |
| `ToUrbs` | `BusyDrains` | `device_busy` is set | each step of `do_recv` | `BusyIsSeen` |
| `StepsLeft` | `UnplugDrains` | the device's end has been announced and is not handled | each step of the class task | `UnplugRecovers` |
| `SectionLeft` | `MutexComesBack` | a task has the mutex | each step of that task | `NobodyStuck` |

It says how much can still happen before the good thing does, and that no other task
can add to it: for example, a late import may set `device_busy` again before the end is
read, but only as often as there are imports under way. The properties also say
where it ends: no step of the reader or the handler leaves this state but the one to
`accept()`, except a reset of the connection, a request that the end has cut, and an import
that reads the end itself or sets `device_busy` after it was read; and the class task reaches
the hand-over. What the measures
leave out, and the liveness properties add, is that the step to take is enabled.

Deadlock is checked in the runs of `UsbHost` and `LogStore`. The other modules come to
rest when their connections and requests are used up, so their runs do not check it;
that the full queue blocks nobody for good is `FinFreesServer` and `NothingWaits`.

The violations are disagreements between the code and its own comments:

* `urb_leak`: a transfer that the library refuses is neither freed nor answered
  (`usb_handler.c:498`).
* `urb_misroute`: callbacks reply on the descriptor of the last request handled,
  and a transfer that outlives its connection is answered on the next one (349).
* `urb_stale_flag`: the endpoint flag is set after the submit, possibly after the
  transfer has completed, and then stays (503).
* `urb_reset_spin`: after a connection reset in the URB loop `do_recv` spins
  (`tcp_connect.c:174`).
* `host_sem`: the class task may take back its own signal (`usb_handler.c:531`).
* `host_stale_desc`: the descriptor pointers outlive the device (245).

Four more were met on the way, and are in the models as the code has them, without
a run of their own:

* `status` of a `RET_SUBMIT` "will be updated by callback based on transfer status"
  (`usb_handler.c:406`); `transfer_cb` does not, nor `actual_length`: a stalled or
  short interrupt transfer is reported as complete (`RetOther`).
* "When UNLINK is successful, status is -ECONNRESET" (`usbip_server.h:37`); the reply
  has status 0, and nothing is unlinked (`tcp_connect.c:245-253`).
* `init_unlink` "fills the usbip_ret_unlink struct with the required information"
  (`usb_handler.h:43`); a `RET_UNLINK` is sent under seqnum 2, whatever the unlink's own
  (`tcp_connect.c:248`): two unlinks, or an unlink and request 2, get replies that the
  client cannot tell apart (`UnlinkSeqnum`).
* The boot count is "number of reboots since power-on" (`log_handler.h:63`); it is an
  ordinary variable, so every reset starts it again, and `log_clear` sets it to 0.

## 4. The proofs

`UrbPathProofs` proves, for all parameters that meet `ConstantsAssumption`:
`TypeCorrect`, `OrderCorrect`, `AllocationCorrect`, `ReplyCorrect`, `OwnerCorrect`,
`InFlightCorrect`, `FinProgress`, `ServiceImplemented`, `DeviceServedInOrder` and
`ConnectionImplemented`. None of the properties but the first is inductive, and each invariant stands on those before it:

1. `Typed`: `TypeOK`, and what the place of the TCP task says of its connection
   (there is a descriptor to close, a request to post).
2. `Ordered`: `SubmitOrder`, and no request is known before it is sent, without
   which a new request could be older than one that waits.
3. `TransfersAllocated`, given `Ordered`: the request that is submitted is not yet
   in flight, since whatever waits is younger than whatever has started.
4. `Fresh`: a request that waits, is in flight, or is still to be sent has no
   answer. `AtMostOneReply` alone says nothing of the requests still to be answered.
   Both are about `RET_SUBMIT`s, which carry the number of their request. Of
   `RET_UNLINK`s, which all carry the same, nothing of the kind holds.
5. `Bounded`: transfers in flight on an endpoint, counted against the cleanups so
   far plus the flag, where a submitted request whose flag is still to be set
   counts as the flag.
6. `Routed`, which gives `OwnerServed`: requests are in the order of their
   connections (`ByConnection`), and an event of the current connection carries its
   descriptor (`PostedOnOwn`). By `Ordered`, an event that is handled while a transfer of
   the current connection is out is younger than that transfer, so it is the current
   connection's too, and `skt` keeps its value.
7. `FinProgress` needs `Typed` only; the arithmetic of `Work` is one lemma, and each
   action moves one or two of its summands. Which steps may leave `Ending` is a case
   distinction on who reads the end.
8. `ServiceImplemented`: the initial state maps to the initial state, and
   every step of `UrbPath` maps to one of `UrbService` or to a stutter, by
   the way the sets of waiting and started requests change.
9. `ConnectionImplemented` rests on `InTurn`: the imports that are pending belong to
   different connections, in order, and not to the current one before its client has
   asked. So an import that is posted is the first of its connection, and the one
   that handler 1 finishes is the oldest, both of which `ConnectionService` demands.

`UsbHostProofs` proves, for every queue length: `HostTypeCorrect`,
`AssertsCorrect`, `HandleCorrect`, `HandoverCorrect`, `WaiterCorrect` and
`UnplugProgress`. `HandleOpen` needs to
know what the message queue may hold: at most one `DEV_GONE`, and only while the
device is gone and not yet closed (`GoneOnce`); and what `driver_obj` is at each
place of the class task (`Driver`). `NoMutualWait` and `WaiterServed` follow from
`Served`: a class task that has given, or waits, finds the semaphore given or the
daemon about to give it, and while the daemon waits for it the library is gone.
`UnplugProgress` rests on the same: at most one action is pending, there is one
`DEV_GONE`, and `dev_addr` is set as long as the device is not closed, so that no message
queued beside it starts the open pipeline again.

`CommandPhaseProofs` proves `TypeCorrect`, `ServiceImplemented`, `AnswersInOrder`,
`ConnectionImplemented`, `CloseProgress`, `WaitingProgress` and `BusyProgress` for all
parameters. Its invariants are `Typed` (`TypeOK`, and `Located`: what the place of
either reader says of the connection and of the command at hand) and `Ordered`: the
queue is in the order of sending and later than what the handler holds, a command
still unread is neither queued nor held, and no command that waits anywhere is answered.
Without it `Answer` could not demand that no older command waits. The third is `Kinds`:
handler 1 is where the kind of its command takes it, at "import", "reply" or "grant" only with
an import and at "devlist" only with a device list. That is what makes `owed` exactly
`r \in imports` when `r` is answered. For
`WaitingProgress` there are two more: `Emptied`, that `do_recv` leaves its loop only
when nothing is unread, and `Places`, that a queued command is behind as many as its
index says, the handler's is behind none, and one still unread is the last of all.
`Places` follows from `Typed` and `Ordered`, which make the `CHOOSE` of `Behind` the one
index there is. `ConnectionImplemented` needs `Numbered`: commands are in the order of
their connections, an import is the last command of its own, and what handler 1 treats
as an import is one. With `Ordered` it gives what `InTurn` gives in `UrbPath`, although
here the pending imports are spread over the queue and the handler. `BusyProgress` needs
no invariant: it is a matter of where `do_recv` reads the flag.

`RetSubmitProofs` proves `TypeCorrect`, `StreamFramed`, `LengthCorrect` and
`CopyCorrect` for every set of lengths and of devices with at most ten interfaces.
The invariant `Inv` says of each transfer in flight how its size stands to its
request at the time of submission, because the packet sizes may have
changed when it completes, and of each reply what the three properties ask; the
arithmetic of rounding up is the lemma `Rounded`.

`LogStoreProofs` proves `TypeCorrect`, `StreamCorrect`, `LinesCorrect`,
`RotationCorrect`, `ReplyCorrect`, `MutexCorrect`, `MutexProgress`, `LogImplemented` and
`LinesWrittenOnce` for any set of tasks and any sizes:

1. `Owned`: a task in the middle of `log_write`, and the HTTP server in a critical
   section, have the mutex; and what `log_file` is at each place. `NoClosedStream`
   follows. `MutexIsUsed` is its converse: who has the mutex is in one of these
   places, so that every way out gives it back. `MutexProgress` follows from both.
2. `Tidy`: only the last entry of a file may be torn without a header behind it, and
   then either its writer is between its two halves or the partition is full. This
   is why a line can be appended without being glued to anything. Also how far
   rotation and clearing have got, and `RotatedAtBoot`.
3. `Settled`: from measuring to reading, the measured size is that of a prefix of the
   log, in whole entries, that no writer changes. If that prefix is still the whole
   log, its last entry is complete or the partition is full (`Ended`): there is no
   second half to come that would lengthen it.
4. `Distinct`: a line's number is new until it is written.
5. `LogImplemented`: every step maps to a step of `LogService` or to a stutter.

*Promises.* The abstract specifications have guards that speak of one moment: the oldest
waits no more when the next is answered. That it stays so is a theorem about each of
them, proved in its own module, and the refinements carry it to the code's models:

| theorem | of | carried by | to |
|---|---|---|---|
| `OrderPromised`: no request waits behind a younger one that is with the device | `UrbService` | `ServiceImplemented` | `DeviceServedInOrder` |
| `OrderPromised`: a command is answered after all that was sent before it, unless that is lost | `CommandService` | `ServiceImplemented` | `AnswersInOrder` |
| `OncePromised`: no line is in the log twice | `LogService` | `LogImplemented` | `LinesWrittenOnce` |

The invariant of the first two is `InOrder`, which adds that commands, or requests, are
sent without gaps.

Model-checked only: the liveness properties (`FinFreesServer`, `UnplugRecovers`,
`CloseFreesServer`, `NothingWaits`, `BusyIsSeen`, `NobodyStuck`) and the
counterexamples. Of the liveness properties the bounded-work theorems prove the part
that is not about fairness; that a fair step is enabled until the end is reached needs
`ENABLED`, which is outside the prover's reach.

## 5. Not modelled

* The composition of `UrbPath` with the device cycle of `UsbHost`: every replug
  creates another event loop for handler 2 and deletes none (`usb_handler.c:552`).
  A second handler task multiplies the states of `urb_core` past what
  a run can reach; `UrbPath` has one loop, and a device that goes once.
* That a plugged device is opened in the end: a failed open leaves `dev_addr` set
  (`usb_handler.c:94`), so it does not hold, and nothing in the code says it does.
* What do_recv's stack and the 1000-byte buffer hold after a copy that is longer
  than they are (`usb_handler.c:491`, for an OUT request of more than 1000 bytes):
  `RetSubmit` drops such a request, as the library's size check does next.
  `actual_num_bytes` is left out, and `AnswerFits` excepts a packet size of 0.
* Bytes of URBs: after a short read `do_recv` parses the rest of a request as a header
  (`tcp_connect.c:193`). `RecvDropped` drops it and any request after it; that a
  request could be made up from the remainder is left out. So are sends that write
  only a part, and headers of commands that arrive in parts.
* That a client is answered in the end: memory may run out, and a request that
  finds its endpoint's flag set is freed without a reply (`usb_handler.c:466`), so
  `UrbService` allows a silent loss and no property excludes it.
* The write to a null `log_file` is `Panic`, a reset as any other, which no property
  excludes; and log lines of 511 characters or more, which the code cuts together with
  their newline.
* A `DEV_GONE` that a full message queue drops is in `UsbHost`, but `UnplugRecovers` asks
  for one that got in.
* Startup other than the log's: each `init` is called once, in sequence, before the
  tasks that the models start with. `usbip_server_stop` does nothing, and
  `http_server_stop` is called by no one.
* Wi-Fi, lwIP, the USB host library, SPIFFS and `esp_http_server` are external and
  appear by what the code can see of them. Build files and defaults are left out.

## 6. Plan

Done: all modules above and their proofs. What is left is the first item of
"Not modelled", as a module `Repeater` with generations of the loop, which needs an
abstraction of handler 2 smaller than `UrbPath`'s, perhaps above
`ConnectionService`; and the liveness of `UrbPath` with a class task that is
starved by `do_recv`.
