------------------------- MODULE ConnectionService -------------------------
(***************************************************************************)
(* What do_recv and handler 1 agree on about a connection: when it is read *)
(* for commands and when for URBs.  CommandPhase and UrbPath each model    *)
(* one of the two phases in full and the other in outline; both implement  *)
(* this specification, so that what one leaves out is what the other has.  *)
(*                                                                         *)
(* A connection has one import pending at most.  Imports are finished in   *)
(* the order of the connections that asked, maybe long after their end,    *)
(* each once, and nothing else sets device_busy.  URBs are read after      *)
(* device_busy only, and until the client's end is seen.                   *)
(***************************************************************************)
EXTENDS Integers

VARIABLES
  phase,       \* how the current connection is read, or that there is none
  conn,        \* connections accepted so far; the last one is current
  peer,        \* the client's end of it; "shut" when closed and read once
  asked,       \* the connections whose import is posted and not finished
  device_busy

vars == <<phase, conn, peer, asked, device_busy>>

Ended == peer \in {"fin", "shut", "rst"}

Init ==
  /\ phase = "accept" /\ conn = 0 /\ peer = "none"
  /\ asked = {} /\ device_busy = FALSE

Accept ==
  /\ phase = "accept"
  /\ phase' = "commands" /\ conn' = conn + 1 /\ peer' = "up"
  /\ UNCHANGED <<asked, device_busy>>

(* The client closes, or the connection breaks.                             *)
Leave ==
  /\ \/ peer = "up" /\ peer' = "fin"
     \/ peer \in {"up", "fin", "shut"} /\ peer' = "rst"
  /\ UNCHANGED <<phase, conn, asked, device_busy>>

Ask ==
  /\ phase = "commands" /\ conn \notin asked
  /\ asked' = asked \cup {conn}
  /\ UNCHANGED <<phase, conn, peer, device_busy>>

(* The import that has waited longest is finished: with success, or without *)
(* and then it may be by having read the client's end.                      *)
Oldest(c) == c \in asked /\ \A d \in asked : c <= d
Read == peer' = IF peer = "fin" THEN "shut" ELSE peer

Finish ==
  /\ \E c \in asked : Oldest(c) /\ asked' = asked \ {c}
  /\ \/ device_busy' = TRUE /\ UNCHANGED peer
     \/ UNCHANGED device_busy /\ (Read \/ UNCHANGED peer)
  /\ UNCHANGED <<phase, conn>>

ReadUrbs ==
  /\ phase = "commands" /\ device_busy
  /\ phase' = "urbs"
  /\ UNCHANGED <<conn, peer, asked, device_busy>>

(* The end of the connection is seen among URBs: a close takes device_busy  *)
(* along when it is first read, a reset does not, nor a close read before.  *)
EndOfUrbs ==
  /\ phase = "urbs" /\ Ended
  /\ phase' = "commands"
  /\ device_busy' = IF peer = "fin" THEN FALSE ELSE device_busy
  /\ Read
  /\ UNCHANGED <<conn, asked>>

(* A request is cut by the client's end: it is read there, and not seen.    *)
Cut ==
  /\ phase = "urbs" /\ peer = "fin"
  /\ Read
  /\ UNCHANGED <<phase, conn, asked, device_busy>>

EndOfCommands ==
  /\ phase = "commands" /\ Ended
  /\ phase' = "cleanup"
  /\ UNCHANGED <<conn, peer, asked, device_busy>>

Cleanup ==
  /\ phase = "cleanup"
  /\ phase' = "close" /\ device_busy' = FALSE
  /\ UNCHANGED <<conn, peer, asked>>

Close ==
  /\ phase = "close"
  /\ phase' = "accept" /\ peer' = "none"
  /\ UNCHANGED <<conn, asked, device_busy>>

(* The device goes.                                                         *)
Unplug ==
  /\ device_busy' = FALSE
  /\ UNCHANGED <<phase, conn, peer, asked>>

(* The chip is reset.                                                       *)
Reset ==
  /\ phase' = "accept" /\ peer' = "none"
  /\ asked' = {} /\ device_busy' = FALSE
  /\ UNCHANGED conn

Next == \/ Accept \/ Leave \/ Ask \/ Finish
        \/ ReadUrbs \/ EndOfUrbs \/ Cut \/ EndOfCommands \/ Cleanup \/ Close
        \/ Unplug \/ Reset

Spec == Init /\ [][Next]_vars
=============================================================================
