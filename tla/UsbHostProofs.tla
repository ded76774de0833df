--------------------------- MODULE UsbHostProofs ---------------------------
(***************************************************************************)
(* Proofs about UsbHost, for every length of the client's message queue.   *)
(* The invariants:                                                         *)
(*   Typed       TypeOK, and the client registered exactly while the class *)
(*               task is between Register and Deregister                   *)
(*   HInv        AssertsHold and HandleOpen, made inductive by what the    *)
(*               message queue may still hold: one DEV_GONE at most, and   *)
(*               only while the device is gone and not yet closed          *)
(*   Served      a class task that has given the semaphore, or waits for   *)
(*               it, finds it given or the daemon about to give it; and    *)
(*               the library is gone while the daemon waits for it         *)
(***************************************************************************)
EXTENDS UsbHost, TLAPS, SequenceTheorems

Typed ==
  /\ TypeOK
  /\ registered <=> class \in {"loop", "events", "deregister"}
  /\ registered => installed

(* A DEV_GONE in the queue is the only one, and about the open device.      *)
ToldOnce ==
  \A i, j \in DOMAIN msgs : msgs[i] = "DEV_GONE" /\ msgs[j] = "DEV_GONE" => i = j
GoneOnce ==
  /\ ToldOnce
  /\ Told => dev = "gone" /\ held /\ "CLOSE_DEV" \notin actions

(* What the place of the class task says of driver_obj.                     *)
Driver ==
  /\ class \in {"take", "register"} => actions = {} /\ dev_addr = 0
  /\ class = "events" => actions \subseteq {"OPEN_DEV", "CLOSE_DEV"}
  /\ class = "events" /\ dev_addr = 0 => actions = {}
  /\ dev_hdl => dev_addr # 0
  /\ "EXIT" \in actions => ~dev_hdl

HInv == AssertsHold /\ HandleOpen /\ GoneOnce /\ Driver

Served ==
  /\ class \in {"delay", "take"} /\ sem = 0 => daemon \in {"install", "give"}
  /\ daemon = "take" => ~installed
  /\ daemon = "take" /\ sem = 0 => class \in {"give", "register"}

-----------------------------------------------------------------------------
(* Types.                                                                   *)

LEMMA InitTyped == Init => Typed
<1>1. Init =>
           /\ plugged \in BOOLEAN /\ installed \in BOOLEAN /\ registered \in BOOLEAN
           /\ held \in BOOLEAN /\ claimed \in BOOLEAN
           /\ dev_hdl \in BOOLEAN /\ has_clients \in BOOLEAN
           /\ has_devices \in BOOLEAN /\ device_busy \in BOOLEAN
  BY DEF Init
<1> QED BY <1>1, MsgQueueAssumption DEF Init, Typed, TypeOK

LEMMA AbortTyped == TypeOK /\ Abort => Typed'
<1>1. Abort =>
           /\ installed' \in BOOLEAN /\ registered' \in BOOLEAN
           /\ held' \in BOOLEAN /\ claimed' \in BOOLEAN
           /\ dev_hdl' \in BOOLEAN /\ has_clients' \in BOOLEAN
           /\ has_devices' \in BOOLEAN /\ device_busy' \in BOOLEAN
  BY DEF Abort
<1> QED BY <1>1, MsgQueueAssumption DEF Abort, Typed, TypeOK

(* A message sent, or one handled, leaves a queue of messages.              *)
LEMMA NotifiedType ==
  ASSUME TypeOK, NEW m \in {"NEW_DEV", "DEV_GONE"}
  PROVE  /\ Notified(m) \in Seq({"NEW_DEV", "DEV_GONE"})
         /\ Len(Notified(m)) <= MsgQueueSize
BY MsgQueueAssumption DEF TypeOK, Notified

LEMMA TailType ==
  ASSUME TypeOK, msgs # <<>>
  PROVE  /\ Tail(msgs) \in Seq({"NEW_DEV", "DEV_GONE"})
         /\ Len(Tail(msgs)) <= MsgQueueSize
BY MsgQueueAssumption DEF TypeOK

LEMMA StepTyped == Typed /\ [Next]_vars => Typed'
<1> SUFFICES ASSUME Typed, [Next]_vars PROVE Typed'
  OBVIOUS
<1> USE MsgQueueAssumption
    DEF Typed, TypeOK, vars, libVars, driverVars, descVars, daemonVars
<1>1. CASE UNCHANGED vars
  BY <1>1
<1>2. CASE Outside
  <2>1. CASE Plug
    BY <2>1 DEF Plug
  <2>2. CASE Unplug
    <3>1. plugged' \in BOOLEAN
      BY <2>2 DEF Unplug
    <3> QED BY <2>2, <3>1 DEF Unplug
  <2>3. CASE Import
    BY <2>3 DEF Import
  <2> QED BY <1>2, <2>1, <2>2, <2>3 DEF Outside
<1>3. CASE Library
  <2>1. CASE Enumerate
    BY <2>1, NotifiedType DEF Enumerate
  <2>2. CASE NoticeGone
    BY <2>2, NotifiedType DEF NoticeGone
  <2>3. CASE FreeDevice
    BY <2>3 DEF FreeDevice, Freed
  <2> QED BY <1>3, <2>1, <2>2, <2>3 DEF Library
<1>4. CASE Daemon
  <2>1. CASE Install
    BY <2>1 DEF Install
  <2>2. CASE DaemonGive
    BY <2>2 DEF DaemonGive
  <2>3. CASE LibEvents
    BY <2>3 DEF LibEvents, DevicesRemain
  <2>4. CASE DaemonTake
    BY <2>4 DEF DaemonTake
  <2>5. CASE Uninstall
    <3>1. installed' \in BOOLEAN
      BY <2>5 DEF Uninstall
    <3> QED BY <2>5, <3>1 DEF Uninstall
  <2>6. CASE UninstallRefused
    BY <2>6, AbortTyped DEF UninstallRefused
  <2> QED BY <1>4, <2>1, <2>2, <2>3, <2>4, <2>5, <2>6 DEF Daemon
<1>5. CASE Handover
  <2>1. CASE ClassTake
    BY <2>1 DEF ClassTake
  <2>2. CASE Register
    BY <2>2 DEF Register
  <2>3. CASE RegisterRefused
    BY <2>3, AbortTyped DEF RegisterRefused
  <2>4. CASE Deregister
    <3>1. registered' \in BOOLEAN
      BY <2>4 DEF Deregister
    <3> QED BY <2>4, <3>1 DEF Deregister
  <2>5. CASE ClassGive
    BY <2>5 DEF ClassGive, Given
  <2>6. CASE Restart
    <3>1. dev_hdl' \in BOOLEAN
      BY <2>6 DEF Restart
    <3> QED BY <2>6, <3>1 DEF Restart
  <2> QED BY <1>5, <2>1, <2>2, <2>3, <2>4, <2>5, <2>6 DEF Handover
<1>6. CASE Events
  <2>1. CASE NewDev
    BY <2>1, TailType DEF NewDev, InEvents, Actions, Order
  <2>2. CASE DevGone
    BY <2>2, TailType DEF DevGone, InEvents, Actions, Order
  <2>3. CASE EventsReturn
    BY <2>3 DEF EventsReturn
  <2> QED BY <1>6, <2>1, <2>2, <2>3 DEF Events
<1>7. CASE Pass
  <2>1. CASE OpenDev
    BY <2>1 DEF OpenDev, Due, Followed, Actions, Order
  <2>2. CASE OpenFails
    BY <2>2 DEF OpenFails, Due, Dropped, Actions, Order, OpenError
  <2>3. CASE GetInfo
    BY <2>3 DEF GetInfo, Due, Followed, Actions, Order
  <2>4. CASE GetDevDesc
    BY <2>4 DEF GetDevDesc, Due, Followed, Actions, Order
  <2>5. CASE GetConfigDesc
    BY <2>5 DEF GetConfigDesc, Due, Followed, Actions, Order
  <2>6. CASE GetStrDesc
    BY <2>6 DEF GetStrDesc, Due, Dropped, Actions, Order
  <2>7. CASE CloseDev
    <3>1. held' \in BOOLEAN /\ dev_hdl' \in BOOLEAN
      BY <2>7 DEF CloseDev, HandleCleared
    <3> QED BY <2>7, <3>1 DEF CloseDev, Due, Followed, Actions, Order, HandleCleared
  <2>8. CASE CloseRefused
    BY <2>8, AbortTyped DEF CloseRefused
  <2>9. CASE Exit
    <3>1. device_busy' \in BOOLEAN
      BY <2>9 DEF Exit
    <3> QED BY <2>9, <3>1 DEF Exit, Due
  <2>10. ASSUME NEW a \in Getters, GetFails(a) PROVE Typed'
    BY <2>10 DEF GetFails, Due, Dropped, Actions, Order
  <2> QED BY <1>7, <2>1, <2>2, <2>3, <2>4, <2>5, <2>6, <2>7, <2>8, <2>9, <2>10 DEF Pass
<1> QED BY <1>1, <1>2, <1>3, <1>4, <1>5, <1>6, <1>7 DEF Next, Class

(* Every variable keeps its type, and the message queue its bound: what the *)
(* tasks and the library do to each other never leaves their states.        *)
THEOREM HostTypeCorrect == Spec => []TypeOK
<1>1. Typed => TypeOK
  BY DEF Typed
<1> QED BY InitTyped, StepTyped, <1>1, PTL DEF Spec

-----------------------------------------------------------------------------
(* The handle and the actions.                                              *)

LEMMA InitHost == Init => HInv
BY DEF Init, HInv, AssertsHold, HandleOpen, GoneOnce, ToldOnce, Told, Driver,
       Getters

LEMMA AbortHost == Abort => HInv'
BY DEF Abort, HInv, AssertsHold, HandleOpen, GoneOnce, ToldOnce, Told, Driver,
       Getters

(* What a message sent does to the queue,                                   *)
LEMMA GoneSent ==
  ASSUME Typed, ToldOnce, NEW m \in {"NEW_DEV", "DEV_GONE"},
         msgs' = Notified(m), m = "DEV_GONE" => ~Told
  PROVE  ToldOnce' /\ (Told' => Told \/ m = "DEV_GONE")
<1>1. CASE msgs' = msgs
  BY <1>1 DEF ToldOnce, Told
<1>2. CASE msgs' = Append(msgs, m)
  <2>1. /\ Len(msgs) \in Nat /\ DOMAIN msgs = 1..Len(msgs)
        /\ DOMAIN msgs' = 1..(Len(msgs) + 1)
        /\ msgs'[Len(msgs) + 1] = m
        /\ \A i \in 1..Len(msgs) : msgs'[i] = msgs[i]
    BY <1>2 DEF Typed, TypeOK
  <2> QED BY <2>1 DEF ToldOnce, Told
<1> QED BY <1>1, <1>2 DEF Notified

(* and one handled.                                                         *)
LEMMA GoneTaken ==
  ASSUME Typed, ToldOnce, msgs # <<>>, msgs' = Tail(msgs)
  PROVE  /\ ToldOnce'
         /\ Told' => Told
         /\ Head(msgs) = "DEV_GONE" => Told /\ ~Told'
<1>1. /\ Len(msgs) \in Nat /\ Len(msgs) > 0 /\ DOMAIN msgs = 1..Len(msgs)
      /\ DOMAIN msgs' = 1..(Len(msgs) - 1)
      /\ Head(msgs) = msgs[1]
      /\ \A i \in 1..(Len(msgs) - 1) : msgs'[i] = msgs[i + 1]
  BY DEF Typed, TypeOK
<1> QED BY <1>1 DEF ToldOnce, Told

(* No message is handled or sent.                                           *)
LEMMA GoneKept ==
  ASSUME ToldOnce, UNCHANGED msgs
  PROVE  ToldOnce' /\ (Told' <=> Told)
BY DEF ToldOnce, Told

LEMMA GoneCleared == msgs' = <<>> => ToldOnce' /\ ~Told'
BY DEF ToldOnce, Told

(* The steps that leave the class task and its device alone.                *)
LEMMA HostKept ==
  ASSUME HInv,
         UNCHANGED <<registered, installed, dev, held, msgs, class, actions,
                     dev_addr, dev_hdl>>
  PROVE  HInv'
BY GoneKept DEF HInv, GoneOnce, AssertsHold, HandleOpen, Driver

LEMMA StepHostLibrary ==
  ASSUME Typed, HInv, Outside \/ Library \/ Daemon
  PROVE  HInv'
<1> USE DEF libVars, driverVars, descVars, daemonVars
<1> USE DEF HInv, GoneOnce, AssertsHold, HandleOpen, Driver
<1>1. CASE Plug \/ Import \/ DaemonGive \/ LibEvents \/ DaemonTake
  BY <1>1, HostKept DEF Plug, Import, DaemonGive, LibEvents, DaemonTake
<1>2. CASE Unplug
  BY <1>2, GoneKept DEF Unplug
<1>3. CASE Enumerate
  <2>1. ~held
    BY <1>3 DEF Enumerate
  <2>2. ToldOnce' /\ (Told' => Told)
    BY <1>3, GoneSent, GoneKept DEF Enumerate
  <2> QED BY <1>3, <2>1, <2>2 DEF Enumerate
<1>4. CASE NoticeGone
  <2>1. ~Told
    BY <1>4 DEF NoticeGone
  <2>2. "CLOSE_DEV" \notin actions
    BY <1>4 DEF NoticeGone
  <2>3. ToldOnce' /\ (Told' => held)
    BY <1>4, <2>1, GoneSent, GoneKept DEF NoticeGone
  <2> QED BY <1>4, <2>2, <2>3 DEF NoticeGone
<1>5. CASE FreeDevice
  BY <1>5, GoneKept DEF FreeDevice
<1>6. CASE Install
  BY <1>6, GoneKept DEF Install
<1>7. CASE Uninstall
  BY <1>7, GoneKept DEF Uninstall
<1>8. CASE UninstallRefused
  BY <1>8, AbortHost DEF UninstallRefused
<1> QED BY <1>1, <1>2, <1>3, <1>4, <1>5, <1>6, <1>7, <1>8
        DEF Outside, Library, Daemon

LEMMA StepHostHandover ==
  ASSUME Typed, HInv, Handover \/ Events
  PROVE  HInv'
<1> USE DEF libVars, driverVars, descVars, daemonVars
<1> USE DEF HInv, GoneOnce, AssertsHold, HandleOpen, Driver
<1>1. CASE ClassTake
  BY <1>1, GoneKept DEF ClassTake
<1>2. CASE Register
  BY <1>2, GoneCleared DEF Register, Getters
<1>3. CASE RegisterRefused
  BY <1>3, AbortHost DEF RegisterRefused
<1>4. CASE Deregister
  BY <1>4, GoneCleared DEF Deregister
<1>5. CASE ClassGive
  BY <1>5, GoneKept DEF ClassGive
<1>6. CASE Restart
  <2>1. ~dev_hdl' /\ actions' = {} /\ dev_addr' = 0
    BY <1>6 DEF Restart
  <2> QED BY <1>6, <2>1, GoneKept DEF Restart, Getters
<1>7. CASE NewDev
  <2>1. ToldOnce' /\ (Told' => Told)
    BY <1>7, GoneTaken DEF NewDev
  <2>2. CASE dev_addr = 0
    <3>1. actions = {} /\ ~dev_hdl
      BY <1>7, <2>2 DEF NewDev, InEvents
    <3>2. actions' = {"OPEN_DEV"} /\ dev_addr' = 1 /\ ~dev_hdl'
      BY <1>7, <2>2, <3>1 DEF NewDev
    <3> QED BY <1>7, <2>1, <3>1, <3>2 DEF NewDev, Getters
  <2>3. CASE dev_addr # 0
    <3>1. actions \subseteq {"OPEN_DEV", "CLOSE_DEV"}
      BY <1>7 DEF NewDev, InEvents
    <3> QED BY <1>7, <2>1, <2>3, <3>1 DEF NewDev
  <2> QED BY <2>2, <2>3
<1>8. CASE DevGone
  <2>1. ToldOnce' /\ Told /\ ~Told'
    BY <1>8, GoneTaken DEF DevGone
  <2>2. dev_hdl /\ dev = "gone"
    BY <2>1
  <2>3. actions' = {"CLOSE_DEV"}
    BY <1>8, <2>2 DEF DevGone
  <2> QED BY <1>8, <2>1, <2>2, <2>3 DEF DevGone, Getters, InEvents
<1>9. CASE EventsReturn
  BY <1>9, GoneKept DEF EventsReturn
<1> QED BY <1>1, <1>2, <1>3, <1>4, <1>5, <1>6, <1>7, <1>8, <1>9
        DEF Handover, Events

(* An action handled is the only one, and what follows it too.              *)
LEMMA OneAction ==
  ASSUME HInv, NEW a, Due(a)
  PROVE  /\ actions = {a} /\ class = "loop"
         /\ Dropped(a) => actions' = {}
         /\ \A b : Followed(a, b) => actions' = {b}
BY DEF HInv, AssertsHold, Due, Dropped, Followed

LEMMA StepHostPass ==
  ASSUME Typed, HInv, Pass
  PROVE  HInv'
<1> USE DEF libVars, driverVars, descVars, daemonVars
<1> USE DEF HInv, GoneOnce, AssertsHold, HandleOpen, Driver
<1>1. CASE OpenDev
  <2>1. /\ actions = {"OPEN_DEV"} /\ actions' = {"GET_DEV_INFO"}
        /\ class = "loop"
    BY <1>1, OneAction DEF OpenDev
  <2>2. held' /\ dev_hdl' /\ ~held
    BY <1>1 DEF OpenDev
  <2> QED BY <1>1, <2>1, <2>2, GoneKept DEF OpenDev, Getters, Typed
<1>2. ASSUME NEW a \in Getters \cup {"OPEN_DEV"}, Due(a), Dropped(a),
             UNCHANGED <<libVars, class, dev_addr, dev_hdl>>
      PROVE  HInv'
  <2>1. actions' = {}
    BY <1>2, OneAction
  <2> QED BY <1>2, <2>1, GoneKept DEF Due
<1>3. ASSUME NEW a \in Getters, NEW b \in Getters, Due(a), Followed(a, b),
             UNCHANGED <<registered, installed, dev, held, msgs, class,
                         dev_addr, dev_hdl>>
      PROVE  HInv'
  <2>1. actions = {a} /\ actions' = {b} /\ class = "loop"
    BY <1>3, OneAction
  <2>2. dev_hdl
    BY <2>1
  <2> QED BY <1>3, <2>1, <2>2, GoneKept DEF Getters
<1>4. CASE OpenFails
  BY <1>4, <1>2 DEF OpenFails, OpenError
<1>5. CASE GetStrDesc
  BY <1>5, <1>2 DEF GetStrDesc, Getters
<1>6. CASE \E a \in Getters : GetFails(a)
  BY <1>6, <1>2 DEF GetFails
<1>7. CASE GetInfo \/ GetDevDesc \/ GetConfigDesc
  BY <1>7, <1>3 DEF GetInfo, GetDevDesc, GetConfigDesc, Getters
<1>8. CASE CloseDev
  <2>1. /\ actions = {"CLOSE_DEV"} /\ actions' = {"EXIT"}
        /\ class = "loop" /\ class' = "loop"
    BY <1>8, OneAction DEF CloseDev
  <2>2. ~held' /\ ~dev_hdl' /\ dev_addr' = 0 /\ ~Told
    BY <1>8, <2>1 DEF CloseDev, HandleCleared
  <2> QED BY <1>8, <2>1, <2>2, GoneKept DEF CloseDev, Getters
<1>9. CASE CloseRefused
  BY <1>9, AbortHost DEF CloseRefused
<1>10. CASE Exit
  <2>1. actions = {"EXIT"} /\ ~dev_hdl /\ class' = "deregister"
    BY <1>10, OneAction DEF Exit
  <2> QED BY <1>10, <2>1, GoneKept DEF Exit
<1> QED BY <1>1, <1>4, <1>5, <1>6, <1>7, <1>8, <1>9, <1>10 DEF Pass

LEMMA StepHost == Typed /\ HInv /\ [Next]_vars => HInv'
<1>1. ASSUME HInv, UNCHANGED vars PROVE HInv'
  BY <1>1, HostKept DEF vars, libVars, driverVars
<1> QED BY <1>1, StepHostLibrary, StepHostHandover, StepHostPass DEF Next, Class

LEMMA AlwaysHost == Spec => [](Typed /\ HInv)
BY InitTyped, StepTyped, InitHost, StepHost, PTL DEF Spec

(* The asserts of the action handlers hold, and one action at most is       *)
(* pending, whatever is plugged, unplugged or fails between two of them.    *)
THEOREM AssertsCorrect == Spec => []AssertsHold
<1>1. HInv => AssertsHold
  BY DEF HInv
<1> QED BY AlwaysHost, <1>1, PTL

(* The class task's handle is the library's open device, and it is closed   *)
(* once and before the client deregisters.                                  *)
THEOREM HandleCorrect == Spec => []HandleOpen
<1>1. HInv => HandleOpen
  BY DEF HInv
<1> QED BY AlwaysHost, <1>1, PTL

-----------------------------------------------------------------------------
(* The semaphore.                                                           *)

(* What the invariant speaks of is left alone.                              *)
LEMMA ServedKept ==
  ASSUME Served, UNCHANGED <<class, daemon, installed, sem>>
  PROVE  Served'
BY DEF Served

LEMMA AbortServed == Abort => Served'
BY DEF Abort, Served

(* The class task waits neither in its loop nor while it deregisters.       *)
LEMMA ClassBusy ==
  ASSUME Served, UNCHANGED <<daemon, installed, sem>>, registered => installed,
         class \in {"loop", "events"}, registered,
         class' \in {"loop", "events", "deregister"}
  PROVE  Served'
BY DEF Served

LEMMA StepServed == Typed /\ HInv /\ Served /\ [Next]_vars => Served'
<1> SUFFICES ASSUME Typed, HInv, Served, [Next]_vars PROVE Served'
  OBVIOUS
<1> USE DEF libVars, driverVars, descVars, daemonVars
<1>1. CASE UNCHANGED vars
  BY <1>1, ServedKept DEF vars
<1>2. CASE Outside \/ Library
  BY <1>2, ServedKept DEF Outside, Plug, Unplug, Import, Library, Enumerate,
                          NoticeGone, FreeDevice
<1>3. CASE Daemon
  <2>1. CASE Install
    BY <2>1 DEF Install, Served
  <2>2. CASE DaemonGive
    BY <2>2 DEF DaemonGive, Served
  <2>3. CASE LibEvents
    BY <2>3 DEF LibEvents, Served
  <2>4. CASE DaemonTake
    BY <2>4 DEF DaemonTake, Served
  <2>5. CASE Uninstall
    <3>1. class \in {"take", "register", "give", "delay"}
      BY <2>5 DEF Uninstall, Typed, TypeOK
    <3> QED BY <2>5, <3>1 DEF Uninstall, Served
  <2>6. CASE UninstallRefused
    BY <2>6, AbortServed DEF UninstallRefused
  <2> QED BY <1>3, <2>1, <2>2, <2>3, <2>4, <2>5, <2>6 DEF Daemon
<1>4. CASE Handover
  <2>1. CASE ClassTake
    BY <2>1 DEF ClassTake, Served
  <2>2. CASE Register
    BY <2>2 DEF Register, Served
  <2>3. CASE RegisterRefused
    BY <2>3, AbortServed DEF RegisterRefused
  <2>4. CASE Deregister
    BY <2>4 DEF Deregister, Served
  <2>5. CASE ClassGive
    BY <2>5 DEF ClassGive, Given, Served
  <2>6. CASE Restart
    BY <2>6 DEF Restart, Served
  <2> QED BY <1>4, <2>1, <2>2, <2>3, <2>4, <2>5, <2>6 DEF Handover
<1>5. CASE Events
  BY <1>5, ClassBusy
     DEF Events, NewDev, DevGone, EventsReturn, InEvents, Typed
<1>6. CASE Pass
  <2>1. CASE CloseRefused
    BY <2>1, AbortServed DEF CloseRefused
  <2>2. CASE Exit
    BY <2>2, ClassBusy DEF Exit, Due, Typed
  <2>3. CASE Pass /\ ~CloseRefused /\ ~Exit
    BY <2>3, ServedKept
       DEF Pass, OpenDev, OpenFails, GetFails, GetInfo, GetDevDesc,
           GetConfigDesc, GetStrDesc, CloseDev
  <2> QED BY <1>6, <2>1, <2>2, <2>3
<1> QED BY <1>1, <1>2, <1>3, <1>4, <1>5, <1>6 DEF Next, Class

LEMMA AlwaysServed == Spec => []Served
<1>1. Init => Served
  BY DEF Init, Served
<1> QED BY AlwaysHost, StepServed, <1>1, PTL DEF Spec

(* Whoever waits for the semaphore waits for a task that gives it next, or  *)
(* that resets the chip, because it is registering with no library.         *)
THEOREM WaiterCorrect == Spec => []WaiterServed
<1>1. Served => WaiterServed
  BY DEF Served, WaiterServed
<1> QED BY AlwaysServed, <1>1, PTL

(* The two tasks never wait for each other's signal at once.                *)
THEOREM HandoverCorrect == Spec => []NoMutualWait
<1>1. Served => NoMutualWait
  BY DEF Served, NoMutualWait
<1> QED BY AlwaysServed, <1>1, PTL

-----------------------------------------------------------------------------
(* The way of the class task from an unplug to the hand-over.               *)

(* The number of steps that are left is a number.                          *)
Counted == StepsLeft \in Nat

LEMMA StepsNat == Typed => Counted
<1> SUFFICES ASSUME Typed PROVE StepsLeft \in Nat
  BY DEF Counted
<1>1. Len(msgs) \in Nat
  BY DEF Typed, TypeOK
<1>2. Getting \in Nat
  BY DEF Getting
<1>3. CASE class \in DOMAIN HandoverLeft
  BY <1>3 DEF StepsLeft, HandoverLeft
<1>4. CASE class \notin DOMAIN HandoverLeft /\ "EXIT" \in actions
  BY <1>4 DEF StepsLeft
<1>5. CASE class \notin DOMAIN HandoverLeft /\ "EXIT" \notin actions
  <2>1. 5 + Len(msgs) \in Nat /\ 6 + 2 * Len(msgs) + Getting \in Nat
    BY <1>1, <1>2
  <2> HIDE <1>1
  <2> QED BY <1>5, <2>1 DEF StepsLeft
<1> QED BY <1>3, <1>4, <1>5

(* What is being closed is open, and gone, until it is closed; and no       *)
(* message is handled any more from then on.                                *)
LEMMA ClosingWhat ==
  ASSUME Typed, HInv, Closing
  PROVE  \/ /\ Told \/ "CLOSE_DEV" \in actions
            /\ class \in {"loop", "events"}
            /\ dev = "gone" /\ dev_hdl /\ dev_addr # 0
         \/ /\ ~Told /\ "CLOSE_DEV" \notin actions /\ "EXIT" \in actions
            /\ class = "loop"
         \/ /\ ~Told /\ "CLOSE_DEV" \notin actions
            /\ class \in {"deregister", "give", "delay"}
<1> USE DEF HInv, AssertsHold, HandleOpen, GoneOnce, Driver
<1>1. CASE Told \/ "CLOSE_DEV" \in actions
  BY <1>1 DEF Typed, TypeOK
<1>2. CASE ~Told /\ "CLOSE_DEV" \notin actions
  BY <1>2 DEF Closing, Typed, TypeOK
<1> QED BY <1>1, <1>2

LEMMA AbortDrains == Abort => class' = "take" /\ ~Closing'
BY DEF Abort, Closing, Told

(* A message that is not DEV_GONE leaves it in the queue.                   *)
LEMMA ToldKept ==
  ASSUME Typed, msgs # <<>>, msgs' = Tail(msgs), Told, Head(msgs) # "DEV_GONE"
  PROVE  Told'
<1>1. /\ Len(msgs) \in Nat /\ Len(msgs) > 0 /\ DOMAIN msgs = 1..Len(msgs)
      /\ DOMAIN msgs' = 1..(Len(msgs) - 1)
      /\ Head(msgs) = msgs[1]
      /\ \A i \in 1..(Len(msgs) - 1) : msgs'[i] = msgs[i + 1]
  BY DEF Typed, TypeOK
<1>2. PICK i \in 2..Len(msgs) : msgs[i] = "DEV_GONE"
  BY <1>1 DEF Told
<1>3. msgs'[i - 1] = "DEV_GONE" /\ i - 1 \in DOMAIN msgs'
  BY <1>1, <1>2
<1> QED BY <1>3 DEF Told

(* A step of the class task is one step less,                               *)
Ahead == Closing => IF Closing' THEN StepsLeft' < StepsLeft ELSE class' = "take"

LEMMA HandoverAhead == Typed /\ HInv /\ Handover => Ahead
<1> SUFFICES ASSUME Typed, HInv, Handover, Closing
             PROVE  IF Closing' THEN StepsLeft' < StepsLeft ELSE class' = "take"
  BY DEF Ahead
<1>1. CASE ClassTake \/ Register
  BY <1>1, ClosingWhat DEF ClassTake, Register, HInv, Driver
<1>2. CASE RegisterRefused
  BY <1>2, AbortDrains DEF RegisterRefused
<1>3. CASE Deregister
  <2>1. StepsLeft = 3 /\ StepsLeft' = 2
    BY <1>3 DEF Deregister, StepsLeft, HandoverLeft
  <2> QED BY <1>3, <2>1 DEF Deregister, Closing
<1>4. CASE ClassGive
  <2>1. StepsLeft = 2 /\ StepsLeft' = 1
    BY <1>4 DEF ClassGive, StepsLeft, HandoverLeft
  <2> QED BY <1>4, <2>1 DEF ClassGive, Closing
<1>5. CASE Restart
  <2>1. ~Told /\ ~Told'
    BY <1>5, ClosingWhat DEF Restart, Told, libVars
  <2> QED BY <1>5, <2>1 DEF Restart, Closing
<1> QED BY <1>1, <1>2, <1>3, <1>4, <1>5 DEF Handover

LEMMA EventsAhead == Typed /\ HInv /\ Events => Ahead
<1> SUFFICES ASSUME Typed, HInv, Events, Closing
             PROVE  Closing' /\ StepsLeft' < StepsLeft
  BY DEF Ahead
<1>1. /\ class \in {"loop", "events"} /\ dev_addr # 0 /\ dev_hdl
      /\ Told \/ "CLOSE_DEV" \in actions
      /\ "EXIT" \notin actions
      /\ "CLOSE_DEV" \in actions => class = "events" /\ ~Told
      /\ Len(msgs) \in Nat
      /\ class = "loop" /\ ~EventsReturn => actions = {}
  BY ClosingWhat DEF Events, NewDev, DevGone, EventsReturn, InEvents, HInv,
                     AssertsHold, GoneOnce, Driver, Typed, TypeOK
<1>2. CASE NewDev
  <2>1. /\ actions' = actions /\ class' = "events" /\ Len(msgs') = Len(msgs) - 1
        /\ msgs # <<>> /\ msgs' = Tail(msgs) /\ Head(msgs) # "DEV_GONE"
    BY <1>1, <1>2 DEF NewDev, Typed, TypeOK
  <2>2. Told => Told'
    BY <2>1, ToldKept
  <2>3. Getting' = Getting /\ Getting \in Nat
    BY <2>1 DEF Getting
  <2>4. CASE "CLOSE_DEV" \in actions
    <3>1. StepsLeft = 1 + (5 + Len(msgs)) /\ StepsLeft' = 1 + (5 + Len(msgs'))
      BY <1>1, <2>1, <2>4 DEF StepsLeft, HandoverLeft
    <3> QED BY <1>1, <2>1, <2>4, <3>1 DEF Closing
  <2>5. CASE "CLOSE_DEV" \notin actions
    <3>1. /\ StepsLeft = (IF class = "events" THEN 1 ELSE 0)
                         + (6 + 2 * Len(msgs) + Getting)
          /\ StepsLeft' = 1 + (6 + 2 * Len(msgs') + Getting')
      BY <1>1, <2>1, <2>5 DEF StepsLeft, HandoverLeft
    <3> QED BY <1>1, <2>1, <2>2, <2>3, <2>5, <3>1 DEF Closing
  <2> QED BY <2>4, <2>5
<1>3. CASE DevGone
  <2>1. Told /\ msgs # <<>> /\ "CLOSE_DEV" \notin actions
    BY <1>1, <1>3, GoneTaken DEF DevGone, HInv, GoneOnce
  <2>2. actions' = {"CLOSE_DEV"} /\ class' = "events" /\ Len(msgs') = Len(msgs) - 1
    BY <1>1, <1>3 DEF DevGone, Typed, TypeOK
  <2>3. Getting \in Nat
    BY DEF Getting
  <2> QED BY <1>1, <2>1, <2>2, <2>3 DEF StepsLeft, HandoverLeft, Closing
<1>4. CASE EventsReturn
  <2>1. UNCHANGED <<actions, msgs>> /\ class = "events" /\ class' = "loop"
    BY <1>4 DEF EventsReturn, libVars, driverVars
  <2>2. (Told' <=> Told) /\ Getting' = Getting /\ Getting \in Nat
    BY <2>1 DEF Told, Getting
  <2> QED BY <1>1, <2>1, <2>2 DEF StepsLeft, HandoverLeft, Closing
<1> QED BY <1>2, <1>3, <1>4 DEF Events

LEMMA PassAhead == Typed /\ HInv /\ Pass => Ahead
<1> SUFFICES ASSUME Typed, HInv, Pass, Closing
             PROVE  IF Closing' THEN StepsLeft' < StepsLeft ELSE class' = "take"
  BY DEF Ahead
<1> USE DEF libVars, driverVars
<1>1. CASE CloseRefused
  BY <1>1, AbortDrains DEF CloseRefused
<1>2. class = "loop"
  BY DEF Pass, OpenDev, OpenFails, GetInfo, GetDevDesc, GetConfigDesc, GetStrDesc,
         GetFails, CloseDev, CloseRefused, Exit, Due
<1>3. CASE OpenDev \/ OpenFails
  <2>1. actions = {"OPEN_DEV"} /\ ~dev_hdl
    BY <1>3, OneAction DEF OpenDev, OpenFails, HInv, AssertsHold
  <2> QED BY <1>2, <2>1, ClosingWhat
<1>4. ASSUME NEW a \in Getters, actions = {a}, UNCHANGED <<class, msgs>>,
             \/ actions' = {}
             \/ a = "GET_DEV_INFO" /\ actions' = {"GET_DEV_DESC"}
             \/ a = "GET_DEV_DESC" /\ actions' = {"GET_CONFIG_DESC"}
             \/ a = "GET_CONFIG_DESC" /\ actions' = {"GET_STR_DESC"}
      PROVE  Closing' /\ StepsLeft' < StepsLeft
  <2>1. Told /\ Told' /\ Len(msgs) \in Nat
    BY <1>2, <1>4, ClosingWhat DEF Told, Getters, Typed, TypeOK
  <2>2. Getting \in Nat /\ Getting' \in Nat /\ Getting' < Getting
    BY <1>4 DEF Getting, Getters
  <2>3. /\ actions \cap {"CLOSE_DEV", "EXIT"} = {}
        /\ actions' \cap {"CLOSE_DEV", "EXIT"} = {}
    BY <1>4 DEF Getters
  <2>4. /\ StepsLeft = 0 + (6 + 2 * Len(msgs) + Getting)
        /\ StepsLeft' = 0 + (6 + 2 * Len(msgs) + Getting')
    BY <1>2, <1>4, <2>3 DEF StepsLeft, HandoverLeft
  <2> QED BY <2>1, <2>2, <2>4 DEF Closing
<1>5. CASE \/ GetInfo \/ GetDevDesc \/ GetConfigDesc \/ GetStrDesc
           \/ \E a \in Getters : GetFails(a)
  <2>1. PICK a \in Getters :
          /\ Due(a) /\ UNCHANGED <<class, msgs>>
          /\ \/ actions' = actions \ {a}
             \/ a = "GET_DEV_INFO" /\ actions' = (actions \ {a}) \cup {"GET_DEV_DESC"}
             \/ a = "GET_DEV_DESC" /\ actions' = (actions \ {a}) \cup {"GET_CONFIG_DESC"}
             \/ a = "GET_CONFIG_DESC" /\ actions' = (actions \ {a}) \cup {"GET_STR_DESC"}
    BY <1>5 DEF GetInfo, GetDevDesc, GetConfigDesc, GetStrDesc, GetFails, Getters,
                Followed, Dropped
  <2>2. actions = {a}
    BY <2>1, OneAction
  <2> QED BY <1>4, <2>1, <2>2
<1>6. CASE CloseDev
  <2>1. actions = {"CLOSE_DEV"} /\ actions' = {"EXIT"} /\ UNCHANGED <<class, msgs>>
    BY <1>6, OneAction DEF CloseDev, Followed
  <2>2. Len(msgs) \in Nat
    BY DEF Typed, TypeOK
  <2> QED BY <1>2, <2>1, <2>2 DEF StepsLeft, HandoverLeft, Closing
<1>7. CASE Exit
  <2>1. actions = {"EXIT"} /\ actions' = actions /\ class' = "deregister"
    BY <1>7, OneAction DEF Exit
  <2> QED BY <1>2, <2>1 DEF StepsLeft, HandoverLeft, Closing
<1> QED BY <1>1, <1>3, <1>5, <1>6, <1>7 DEF Pass

(* and a step of anyone else is none more.                                  *)
LEMMA OthersDrain ==
  ASSUME Typed, HInv, Closing, UNCHANGED vars \/ Outside \/ Library \/ Daemon
  PROVE  IF Closing' THEN StepsLeft' <= StepsLeft ELSE class' = "take"
<1> USE DEF libVars, driverVars, vars
<1>1. ASSUME UNCHANGED <<class, actions, msgs>>
      PROVE  Closing' /\ StepsLeft' <= StepsLeft
  BY <1>1, StepsNat DEF Closing, Told, StepsLeft, HandoverLeft, Getting
<1>2. CASE Enumerate \/ NoticeGone
  <2>1. /\ UNCHANGED <<class, actions>> /\ dev # "gone"
    BY <1>2 DEF Enumerate, NoticeGone
  <2>2. /\ "CLOSE_DEV" \notin actions
        /\ "EXIT" \in actions \/ class \in {"deregister", "give", "delay"}
    BY <2>1, ClosingWhat
  <2> QED BY <2>1, <2>2 DEF Closing, StepsLeft, HandoverLeft
<1>3. CASE UninstallRefused
  BY <1>3, AbortDrains DEF UninstallRefused
<1> QED BY <1>1, <1>2, <1>3 DEF Outside, Plug, Unplug, Import, Library, FreeDevice,
                               Daemon, Install, DaemonGive, LibEvents, Uninstall,
                               DaemonTake

(* Told of an unplug, the class task has a bounded number of steps to the   *)
(* hand-over, for any length of the message queue, whatever the other task, *)
(* the library and the port do meanwhile.                                   *)
THEOREM UnplugProgress == Spec => UnplugDrains
<1>1. Typed /\ HInv /\ Counted /\ Counted' /\ [Next]_vars =>
        [Closing => IF Closing' THEN /\ StepsLeft' \in 0..StepsLeft
                                     /\ Class => StepsLeft' < StepsLeft
                                ELSE class' = "take"]_vars
  <2> SUFFICES ASSUME Typed, HInv, Counted, Counted', [Next]_vars, Closing
               PROVE  IF Closing' THEN /\ StepsLeft' \in 0..StepsLeft
                                       /\ Class => StepsLeft' < StepsLeft
                                  ELSE class' = "take"
    OBVIOUS
  <2>1. StepsLeft \in Nat /\ StepsLeft' \in Nat
    BY DEF Counted
  <2>2. CASE Class
    BY <2>1, <2>2, HandoverAhead, EventsAhead, PassAhead DEF Class, Ahead
  <2>3. CASE ~Class
    BY <2>1, <2>3, OthersDrain DEF Next
  <2> QED BY <2>2, <2>3
<1> QED BY AlwaysHost, StepsNat, <1>1, PTL DEF Spec, UnplugDrains
=============================================================================
