------------------------------- MODULE MCNSPRx -------------------------------
(***************************************************************************)
(* Model-checking instance of NSPRx.                                       *)
(***************************************************************************)
EXTENDS NSPRx

CONSTANT NetMax   \* bound: frames in flight at once

\* Frames no correct peer sends: a link-service frame with a reserved flag
\* bit, a disconnect-confirm of the wrong length, truncated disconnect-init,
\* data and connect-confirm frames, and a disconnect-init whose optional
\* data length byte counts one byte more than the frame holds.
MCMalformed ==
  { [Blank EXCEPT !.flags = F_LS, !.seg = Wire(0), !.lsflags = 8, !.len = 4],
    [Blank EXCEPT !.flags = F_DC, !.reason = "DC", !.len = 3],
    [Blank EXCEPT !.flags = F_DI, !.len = 1],
    [Blank EXCEPT !.flags = F_DATA, !.seg = Wire(0), !.len = 1],
    [Blank EXCEPT !.flags = F_CC, !.len = 2],
    [Blank EXCEPT !.flags = F_DI, !.reason = "SD", !.dlen = 1, !.len = 3] }

\* Bounds the frames in flight, so that runs stay finite in breadth.
NetBound == Cardinality(net) <= NetMax

\* States that differ only in what was handed to the outbound path are
\* the same for every property checked here.
View == <<conn, rcvq, othq, net, pphase, psent, poth, lsent, lsentoth, localdisc>>

=============================================================================
