------------------------------- MODULE MCUsb -------------------------------
(* Instances of UsbControl for TLC.  Data lengths are in units of half a    *)
(* packet: shorter than a packet, a packet, and several with and without a  *)
(* short end.                                                               *)
EXTENDS UsbControl

Request(kind, dir, len, size, copied, ok, value) ==
    [kind |-> kind, dir |-> dir, len |-> len, size |-> size,
     copied |-> copied, ok |-> ok, value |-> value]

Fetches == {Request("std", "in", 1, 1, TRUE, TRUE, 0),
          Request("std", "in", 4, 2, TRUE, TRUE, 0),
          Request("std", "in", 3, 5, FALSE, TRUE, 0),
          Request("std", "in", 5, 4, FALSE, TRUE, 0)}

Sends == {Request("class", "out", 1, 0, FALSE, TRUE, 0),
           Request("class", "out", 4, 0, FALSE, TRUE, 0),
           Request("class", "out", 3, 0, FALSE, FALSE, 0)}

Others == {Request("std", "none", 0, 0, FALSE, TRUE, 0),
           Request("address", "none", 0, 0, FALSE, TRUE, 1),
           Request("config", "none", 0, 0, FALSE, TRUE, 1)}

Unknown == {Request("unknown", d, IF d = "none" THEN 0 ELSE 3, 0, FALSE, TRUE, 0)
              : d \in Directions}

AllRequests == Fetches \cup Sends \cup Others \cup Unknown
=============================================================================
