----------------------------- MODULE MCUrbPath -----------------------------
(* Instances of UrbPath for TLC.                                            *)
EXTENDS UrbPath

(* The control pipe and one endpoint with a flag.  Other endpoints add      *)
(* nothing: 2 is treated as 1, and those without a flag as 0.  What depends *)
(* on three requests is the flag of an endpoint; unlinks name the pipe.     *)
MCEndpoints == {0, 1}
MCInterrupt == {1}

(* lwIP's descriptors start at 54 (LWIP_SOCKET_OFFSET).  With one, every    *)
(* connection reuses its predecessor's; with two, it may or may not.        *)
MCOneFd  == {54}
MCTwoFds == {54, 55}
=============================================================================
