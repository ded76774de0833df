----------------------------- MODULE MCUsbHost -----------------------------
(* UsbHost for TLC: its behaviours are finite in state, whatever is plugged *)
(* and unplugged; only the queue of client messages is made shorter.        *)
EXTENDS UsbHost

MCMsgQueueSize == 3
=============================================================================
