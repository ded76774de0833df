----------------------------- MODULE MCRetSubmit -----------------------------
(* Instances of RetSubmit for TLC.                                           *)
EXTENDS RetSubmit

E(n, size) == [ep |-> n, mps |-> size]

(* A keyboard and mouse; one interface with two endpoints; endpoints and    *)
(* interfaces in different orders, with one interface that has none.        *)
MCDevices == {<< <<E(1, 8)>>, <<E(2, 64)>> >>,
              << <<E(1, 64), E(2, 64)>> >>,
              << <<E(2, 8)>>, <<E(1, 64)>>, << >> >>}

(* Around the sizes of packets and of both buffers.                         *)
MCLengths == {0, 8, 993, 1000, 1025}
=============================================================================
