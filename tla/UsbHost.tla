------------------------------ MODULE UsbHost ------------------------------
(***************************************************************************)
(* How the repeater follows the plugging and unplugging of its USB device. *)
(*                                                                         *)
(*   - The daemon task (usb_host_lib_daemon_task) installs the USB host    *)
(*     library, runs its event loop until no client and no device is left, *)
(*     and uninstalls it, in a cycle.                                      *)
(*   - The class task (usb_class_driver_task) registers a client, opens    *)
(*     and describes a device that appears (the actions), closes one that  *)
(*     is gone, deregisters, and starts again.                             *)
(*                                                                         *)
(* They hand over to each other with one binary semaphore, used in both    *)
(* directions.  The library is external: its state is what the two tasks   *)
(* can tell of it.  A call it refuses under ESP_ERROR_CHECK aborts, and    *)
(* the chip starts again from the beginning.  Transfers are in UrbPath.    *)
(***************************************************************************)
EXTENDS Integers, Sequences, FiniteSets

CONSTANT MsgQueueSize   \* CLIENT_NUM_EVENT_MSG in the code
ASSUME MsgQueueAssumption == MsgQueueSize \in Nat \ {0}

VARIABLES
  plugged,     \* a device is in the port
  \* The USB host library.
  installed,
  registered,  \* the class task's client is registered
  dev,         \* the library's device object
  held,        \* the client has it open
  claimed,     \* with some interface claimed
  msgs,        \* the client's event messages, not yet handled
  flags,       \* event flags for the daemon task
  \* The class task.
  class,       \* where it is
  actions,     \* driver_obj.actions
  dev_addr,    \* driver_obj.dev_addr: 0, or an address (any is 1)
  dev_hdl,     \* driver_obj.dev_hdl is not NULL
  dev_desc,    \* the descriptor pointers: NULL, or into the object of a
  config_desc, \*   device that is "live" or already "freed"
  \* The daemon task.
  daemon,      \* where it is
  has_clients,
  has_devices,
  \* Shared.
  sem,         \* signaling_sem, binary
  device_busy  \* an import has succeeded

libVars    == <<installed, registered, dev, held, claimed, msgs, flags>>
driverVars == <<actions, dev_addr, dev_hdl>>
descVars   == <<dev_desc, config_desc>>
daemonVars == <<daemon, has_clients, has_devices>>
vars == <<plugged, libVars, class, driverVars, descVars, daemonVars, sem,
          device_busy>>

(* The actions in the order in which a pass of the class task tests them.   *)
Order == <<"OPEN_DEV", "GET_DEV_INFO", "GET_DEV_DESC", "GET_CONFIG_DESC",
           "GET_STR_DESC", "CLOSE_DEV", "EXIT">>
Actions == {Order[i] : i \in 1..7}
Getters == {"GET_DEV_INFO", "GET_DEV_DESC", "GET_CONFIG_DESC", "GET_STR_DESC"}

Init ==
  /\ plugged \in BOOLEAN
  /\ installed = FALSE /\ registered = FALSE
  /\ dev = "none" /\ held = FALSE /\ claimed = FALSE
  /\ msgs = <<>> /\ flags = {}
  /\ class = "take" /\ actions = {} /\ dev_addr = 0 /\ dev_hdl = FALSE
  /\ dev_desc = "null" /\ config_desc = "null"
  /\ daemon = "install" /\ has_clients = TRUE /\ has_devices = TRUE
  /\ sem = 0 /\ device_busy = FALSE

(* A failed ESP_ERROR_CHECK resets the chip, and everything starts again.   *)
Abort ==
  /\ installed' = FALSE /\ registered' = FALSE
  /\ dev' = "none" /\ held' = FALSE /\ claimed' = FALSE
  /\ msgs' = <<>> /\ flags' = {}
  /\ class' = "take" /\ actions' = {} /\ dev_addr' = 0 /\ dev_hdl' = FALSE
  /\ dev_desc' = "null" /\ config_desc' = "null"
  /\ daemon' = "install" /\ has_clients' = TRUE /\ has_devices' = TRUE
  /\ sem' = 0 /\ device_busy' = FALSE
  /\ UNCHANGED plugged

-----------------------------------------------------------------------------
(* The device in the port, and the import that a client makes of it.        *)

Plug ==
  /\ ~plugged
  /\ plugged' = TRUE
  /\ UNCHANGED <<libVars, class, driverVars, descVars, daemonVars, sem,
                 device_busy>>

Unplug ==
  /\ plugged
  /\ plugged' = FALSE
  /\ dev' = IF dev = "ready" THEN "lost" ELSE dev
  /\ UNCHANGED <<installed, registered, held, claimed, msgs, flags, class,
                 driverVars, descVars, daemonVars, sem, device_busy>>

Import ==
  /\ device_busy' = TRUE
  /\ UNCHANGED <<plugged, libVars, class, driverVars, descVars, daemonVars, sem>>

-----------------------------------------------------------------------------
(* The library's part of usb_host_lib_handle_events, run by the daemon.     *)

(* A message that finds the queue full is lost.                             *)
NotifiedOneMore(m) == IF Len(msgs) <= MsgQueueSize THEN Append(msgs, m) ELSE msgs
Notified(m) == IF Len(msgs) < MsgQueueSize THEN Append(msgs, m) ELSE msgs

(* The port is free for a new device once the object of the last is freed.  *)
Enumerate ==
  /\ daemon = "events" /\ plugged /\ dev = "none"
  /\ dev' = "ready"
  /\ msgs' = IF registered THEN Notified("NEW_DEV") ELSE msgs
  /\ UNCHANGED <<plugged, installed, registered, held, claimed, flags, class,
                 driverVars, descVars, daemonVars, sem, device_busy>>

(* Only a client that has the device open is told that it is gone.          *)
NoticeGone ==
  /\ daemon = "events" /\ dev = "lost"
  /\ dev' = "gone"
  /\ msgs' = IF held THEN Notified("DEV_GONE") ELSE msgs
  /\ UNCHANGED <<plugged, installed, registered, held, claimed, flags, class,
                 driverVars, descVars, daemonVars, sem, device_busy>>

Freed(p) == IF p = "live" THEN "freed" ELSE p
FreeDevice ==
  /\ daemon = "events" /\ dev = "gone" /\ ~held
  /\ dev' = "none"
  /\ flags' = flags \cup {"ALL_FREE"}
  /\ dev_desc' = Freed(dev_desc) /\ config_desc' = Freed(config_desc)
  /\ UNCHANGED <<plugged, installed, registered, held, claimed, msgs, class,
                 driverVars, daemonVars, sem, device_busy>>

-----------------------------------------------------------------------------
(* The daemon task.                                                         *)

(* When the install fails, the daemon tries again 5 seconds later, and      *)
(* nothing has changed.                                                     *)
Install ==
  /\ daemon = "install"
  /\ installed' = TRUE
  /\ daemon' = "give"
  /\ UNCHANGED <<plugged, registered, dev, held, claimed, msgs, flags, class,
                 driverVars, descVars, has_clients, has_devices, sem,
                 device_busy>>

DaemonGive ==
  /\ daemon = "give"
  /\ sem' = 1
  /\ has_clients' = TRUE /\ has_devices' = TRUE
  /\ daemon' = "events"
  /\ UNCHANGED <<plugged, libVars, class, driverVars, descVars, device_busy>>

(* The flags are only ever cleared: a client or a device that comes later   *)
(* does not set them again.                                                 *)
DevicesKept(f)   == has_devices
DevicesRemain(f) == has_devices /\ "ALL_FREE" \notin f

LibEvents ==
  /\ daemon = "events" /\ flags # {}
  /\ has_clients' = (has_clients /\ "NO_CLIENTS" \notin flags)
  /\ has_devices' = DevicesRemain(flags)
  /\ flags' = {}
  /\ daemon' = IF has_clients' \/ has_devices' THEN "events" ELSE "uninstall"
  /\ UNCHANGED <<plugged, installed, registered, dev, held, claimed, msgs,
                 class, driverVars, descVars, sem, device_busy>>

Uninstall ==
  /\ daemon = "uninstall" /\ ~registered /\ dev = "none"
  /\ installed' = FALSE
  /\ flags' = {}
  /\ daemon' = "take"
  /\ UNCHANGED <<plugged, registered, dev, held, claimed, msgs, class,
                 driverVars, descVars, has_clients, has_devices, sem,
                 device_busy>>

UninstallRefused ==
  /\ daemon = "uninstall" /\ (registered \/ dev # "none")
  /\ Abort

DaemonTake ==
  /\ daemon = "take" /\ sem = 1
  /\ sem' = 0
  /\ daemon' = "install"
  /\ UNCHANGED <<plugged, libVars, class, driverVars, descVars, has_clients,
                 has_devices, device_busy>>

-----------------------------------------------------------------------------
(* The class task: the hand-over.                                           *)

ClassTake ==
  /\ class = "take" /\ sem = 1
  /\ sem' = 0
  /\ class' = "register"
  /\ UNCHANGED <<plugged, libVars, driverVars, descVars, daemonVars, device_busy>>

(* It also creates loop_handle2, with the handler of UrbPath.               *)
Register ==
  /\ class = "register" /\ installed
  /\ registered' = TRUE
  /\ msgs' = <<>>
  /\ class' = "loop"
  /\ UNCHANGED <<plugged, installed, dev, held, claimed, flags, driverVars,
                 descVars, daemonVars, sem, device_busy>>

RegisterRefused ==
  /\ class = "register" /\ ~installed
  /\ Abort

Deregister ==
  /\ class = "deregister" /\ ~held
  /\ registered' = FALSE
  /\ msgs' = <<>>
  /\ flags' = flags \cup {"NO_CLIENTS"}
  /\ class' = "give"
  /\ UNCHANGED <<plugged, installed, dev, held, claimed, driverVars, descVars,
                 daemonVars, sem, device_busy>>

NotGiven == sem
Given    == 1

ClassGive ==
  /\ class = "give"
  /\ sem' = Given
  /\ class' = "delay"
  /\ UNCHANGED <<plugged, libVars, driverVars, descVars, daemonVars, device_busy>>

(* Ten ticks later it clears driver_obj and waits for the semaphore.        *)
Restart ==
  /\ class = "delay"
  /\ actions' = {} /\ dev_addr' = 0 /\ dev_hdl' = FALSE
  /\ class' = "take"
  /\ UNCHANGED <<plugged, libVars, descVars, daemonVars, sem, device_busy>>

-----------------------------------------------------------------------------
(* The class task: its events.  usb_host_client_handle_events is called     *)
(* only with no action left, and may handle several messages in one call.   *)

InEvents == class = "events" \/ (class = "loop" /\ actions = {})

NewDev ==
  /\ InEvents /\ msgs # <<>> /\ Head(msgs) = "NEW_DEV"
  /\ IF dev_addr = 0
       THEN dev_addr' = 1 /\ actions' = actions \cup {"OPEN_DEV"}
       ELSE UNCHANGED <<dev_addr, actions>>
  /\ msgs' = Tail(msgs)
  /\ class' = "events"
  /\ UNCHANGED <<plugged, installed, registered, dev, held, claimed, flags,
                 dev_hdl, descVars, daemonVars, sem, device_busy>>

DevGone ==
  /\ InEvents /\ msgs # <<>> /\ Head(msgs) = "DEV_GONE"
  /\ actions' = IF dev_hdl THEN {"CLOSE_DEV"} ELSE actions
  /\ msgs' = Tail(msgs)
  /\ class' = "events"
  /\ UNCHANGED <<plugged, installed, registered, dev, held, claimed, flags,
                 dev_addr, dev_hdl, descVars, daemonVars, sem, device_busy>>

EventsReturn ==
  /\ class = "events"
  /\ class' = "loop"
  /\ UNCHANGED <<plugged, libVars, driverVars, descVars, daemonVars, sem,
                 device_busy>>

-----------------------------------------------------------------------------
(* The class task: its actions.  A pass tests them in Order; each sets only *)
(* later ones, so a pass goes on to whatever is set.  A call that fails     *)
(* clears its action and sets no other.                                     *)

Due(a) ==
  /\ class = "loop" /\ a \in actions
  /\ \A i, j \in 1..7 : Order[i] = a /\ Order[j] \in actions => i <= j

Followed(a, b) == actions' = (actions \ {a}) \cup {b}
Retried(a)     == Followed(a, "GET_DEV_INFO")
Dropped(a)     == actions' = actions \ {a}
InfoAnyway     == Followed("OPEN_DEV", "GET_DEV_INFO")
OpenError      == Dropped("OPEN_DEV")

OpenDev ==
  /\ Due("OPEN_DEV") /\ dev \in {"ready", "lost"} /\ ~held
  /\ held' = TRUE /\ dev_hdl' = TRUE
  /\ Followed("OPEN_DEV", "GET_DEV_INFO")
  /\ UNCHANGED <<plugged, installed, registered, dev, claimed, msgs, flags,
                 class, dev_addr, descVars, daemonVars, sem, device_busy>>

(* The address may be that of a device that is gone, or memory runs out:    *)
(* dev_addr stays.                                                          *)
OpenFails ==
  /\ Due("OPEN_DEV")
  /\ OpenError
  /\ UNCHANGED <<plugged, libVars, class, dev_addr, dev_hdl, descVars,
                 daemonVars, sem, device_busy>>

GetFails(a) ==
  /\ Due(a) /\ a \in Getters \ {"GET_STR_DESC"}
  /\ Dropped(a)
  /\ UNCHANGED <<plugged, libVars, class, dev_addr, dev_hdl, descVars,
                 daemonVars, sem, device_busy>>

GetInfo ==
  /\ Due("GET_DEV_INFO")
  /\ Followed("GET_DEV_INFO", "GET_DEV_DESC")
  /\ UNCHANGED <<plugged, libVars, class, dev_addr, dev_hdl, descVars,
                 daemonVars, sem, device_busy>>

GetDevDesc ==
  /\ Due("GET_DEV_DESC")
  /\ dev_desc' = "live"
  /\ Followed("GET_DEV_DESC", "GET_CONFIG_DESC")
  /\ UNCHANGED <<plugged, libVars, class, dev_addr, dev_hdl, config_desc,
                 daemonVars, sem, device_busy>>

(* Claims what interfaces it can, perhaps none.                             *)
GetConfigDesc ==
  /\ Due("GET_CONFIG_DESC")
  /\ config_desc' = "live"
  /\ claimed' \in BOOLEAN
  /\ Followed("GET_CONFIG_DESC", "GET_STR_DESC")
  /\ UNCHANGED <<plugged, installed, registered, dev, held, msgs, flags, class,
                 dev_addr, dev_hdl, dev_desc, daemonVars, sem, device_busy>>

GetStrDesc ==
  /\ Due("GET_STR_DESC")
  /\ Dropped("GET_STR_DESC")
  /\ UNCHANGED <<plugged, libVars, class, dev_addr, dev_hdl, descVars,
                 daemonVars, sem, device_busy>>

HandleKept    == dev_hdl
HandleCleared == FALSE

CloseDev ==
  /\ Due("CLOSE_DEV") /\ ~claimed
  /\ held' = FALSE
  /\ dev_hdl' = HandleCleared /\ dev_addr' = 0
  /\ Followed("CLOSE_DEV", "EXIT")
  /\ UNCHANGED <<plugged, installed, registered, dev, claimed, msgs, flags,
                 class, descVars, daemonVars, sem, device_busy>>

(* No interface is ever released: a device that has one claimed is not      *)
(* closed.                                                                  *)
CloseRefused ==
  /\ Due("CLOSE_DEV") /\ claimed
  /\ Abort

Exit ==
  /\ Due("EXIT")
  /\ device_busy' = FALSE
  /\ class' = "deregister"
  /\ UNCHANGED <<plugged, libVars, driverVars, descVars, daemonVars, sem>>

-----------------------------------------------------------------------------
Outside == Plug \/ Unplug \/ Import
Library == Enumerate \/ NoticeGone \/ FreeDevice
Daemon  == \/ Install \/ DaemonGive \/ LibEvents \/ DaemonTake
           \/ Uninstall \/ UninstallRefused
Handover == \/ ClassTake \/ Register \/ RegisterRefused \/ Deregister
            \/ ClassGive \/ Restart
Events  == NewDev \/ DevGone \/ EventsReturn
Pass    == \/ OpenDev \/ OpenFails \/ GetInfo \/ GetDevDesc \/ GetConfigDesc
           \/ GetStrDesc \/ CloseDev \/ CloseRefused \/ Exit
           \/ \E a \in Getters : GetFails(a)
Class   == Handover \/ Events \/ Pass

Next == Outside \/ Library \/ Daemon \/ Class

Spec == Init /\ [][Next]_vars

(* The two tasks as long as they are scheduled, that is, as long as do_recv,*)
(* which outranks them, waits for its socket now and then; and a library    *)
(* that frees what is to be freed and installs in the end.                  *)
FairSpec == Spec /\ WF_vars(Class) /\ WF_vars(Daemon) /\ WF_vars(FreeDevice)
-----------------------------------------------------------------------------
(* What is asked of it.                                                     *)

TypeOK ==
  /\ plugged \in BOOLEAN /\ installed \in BOOLEAN /\ registered \in BOOLEAN
  /\ held \in BOOLEAN /\ claimed \in BOOLEAN /\ dev_hdl \in BOOLEAN
  /\ has_clients \in BOOLEAN /\ has_devices \in BOOLEAN
  /\ device_busy \in BOOLEAN
  /\ dev \in {"none", "ready", "lost", "gone"}
  /\ msgs \in Seq({"NEW_DEV", "DEV_GONE"}) /\ Len(msgs) <= MsgQueueSize
  /\ flags \subseteq {"NO_CLIENTS", "ALL_FREE"}
  /\ class \in {"take", "register", "loop", "events", "deregister", "give",
                "delay"}
  /\ actions \subseteq Actions
  /\ dev_addr \in {0, 1}
  /\ dev_desc \in {"null", "live", "freed"}
  /\ config_desc \in {"null", "live", "freed"}
  /\ daemon \in {"install", "give", "events", "uninstall", "take"}
  /\ sem \in {0, 1}

(* The asserts of the action handlers (usb_handler.c:90, 110, 133, 154, 213)*)
(* hold whatever is plugged and unplugged between two actions, and no event *)
(* adds an action to one that is pending: opening never meets closing.      *)
AssertsHold ==
  /\ "OPEN_DEV" \in actions => dev_addr # 0 /\ ~dev_hdl
  /\ actions \cap Getters # {} => dev_hdl
  /\ \A a, b \in actions : a = b

(* The handle of the class task is the library's open device, of a library  *)
(* that is installed; it is closed once, when the device is gone, and by    *)
(* the time the client deregisters.                                         *)
HandleOpen ==
  /\ dev_hdl <=> held
  /\ held => registered /\ installed /\ dev # "none"
  /\ "CLOSE_DEV" \in actions => dev = "gone" /\ held
  /\ class \in {"take", "register", "deregister", "give", "delay"} => ~held

(* The two tasks never wait for each other's signal at the same time,       *)
(* although both give and take the one semaphore.                           *)
NoMutualWait == ~(class = "take" /\ daemon = "take" /\ sem = 0)

(* Whoever waits for the semaphore while it is taken waits for a task that  *)
(* gives it without waiting in its turn, or that resets the chip: the class *)
(* task, having stolen its own signal, does not find the library installed. *)
WaiterServed ==
  sem = 0 => /\ class = "take" => daemon \in {"install", "give"}
             /\ daemon = "take" => class \in {"give", "register"}

(* From the message that the device is gone the class task has a bounded    *)
(* number of steps to the hand-over, which nothing that the library, the    *)
(* daemon or the port does can add to; it does not get there otherwise than *)
(* by Restart or a reset.                                                   *)
Told == "DEV_GONE" \in {msgs[i] : i \in DOMAIN msgs}
Closing == \/ Told \/ actions \cap {"CLOSE_DEV", "EXIT"} # {}
           \/ class \in {"deregister", "give", "delay"}
Getting == CASE actions = {"GET_DEV_INFO"} -> 4 [] actions = {"GET_DEV_DESC"} -> 3
             [] actions = {"GET_CONFIG_DESC"} -> 2 [] actions = {"GET_STR_DESC"} -> 1
             [] OTHER -> 0
HandoverLeft == [deregister |-> 3, give |-> 2, delay |-> 1]
StepsLeft ==
  IF class \in DOMAIN HandoverLeft THEN HandoverLeft[class]
  ELSE IF "EXIT" \in actions THEN 4
  ELSE (IF class = "events" THEN 1 ELSE 0)
       + IF "CLOSE_DEV" \in actions THEN 5 + Len(msgs)
                                    ELSE 6 + 2 * Len(msgs) + Getting
UnplugDrains ==
  [][Closing => IF Closing' THEN /\ StepsLeft' \in 0..StepsLeft
                                 /\ Class => StepsLeft' < StepsLeft
                            ELSE class' = "take"]_vars

(* Once the class task is told of an unplugged device, the repeater comes   *)
(* to a library that still counts its client, with no handle left: by the   *)
(* hand-over, or by a reset.                                                *)
Recovered == registered /\ daemon = "events" /\ has_clients /\ ~dev_hdl
UnplugRecovers == Told ~> Recovered

-----------------------------------------------------------------------------
(* What the code's comments say and the code does not do.                   *)

(* "Wait until daemon task has installed USB Host Library"                  *)
(* (usb_handler.c:529): the class task registers with a library in use.     *)
RegistersWhenInstalled ==
  class = "register" => installed /\ daemon \in {"give", "events"}

(* "Check if USB device is available" (usbip_server.c:22): DEVLIST finds    *)
(* both descriptors non-null only while they can be read.                   *)
AvailableMeansDevice ==
  dev_desc # "null" /\ config_desc # "null" =>
    dev_desc = "live" /\ config_desc = "live"
=============================================================================
