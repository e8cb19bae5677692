---------------------------- MODULE MCNSPConnInit ----------------------------
(***************************************************************************)
(* Model values for NSPConnInit.                                           *)
(***************************************************************************)
EXTENDS NSPConnInit

MCAllFlags == 0..255
MCFewFlags == {0, 40, 56}

Hdr == [i \in 1..NSP_HDR |-> 0]

\* Payload bytes: formats 0-2 and a bad one, menuver flag combinations,
\* field lengths 0-3, and a length over both maxima.
MCBytes == {0, 1, 3, 40}

\* Usernames the validator rejects: nothing, a truncated one, a bad
\* destination format, a format-2 destination, a bad source format.
MCBadUsers == {<<>>, <<0>>, <<3, 5>>, <<2, 5, 0>>, <<0, 5, 9, 6>>}

\* Usernames it accepts: a destination alone (the source starts in the
\* tail), a named source of length 0, a numbered source for object 0.
MCUsers == {<<0, 5>>, <<0, 5, 1, 6, 0>>, <<0, 0, 0, 6>>}

\* Every connect-init built from those and up to five further bytes
\* (menuver, three access-field lengths and a user-data length) after an
\* accepted username, or one further byte after a rejected one.
MCMsgs ==
  {Hdr \o u \o t : u \in MCBadUsers, t \in BoundedSeq(MCBytes, 1)}
  \cup {Hdr \o u \o t : u \in MCUsers, t \in BoundedSeq(MCBytes, 5)}

\* Messages that dn_nsp_rx_packet lets through with a truncated header.
MCShortMsgs == {[i \in 1..k |-> 0] : k \in 2..NSP_HDR - 1} \cup {Hdr}

\* Destination object 5 has a listener.
MCSample ==
  {<<0, 0, 0>>,                                  \* truncated header
   Hdr,                                          \* no destination
   Hdr \o <<1, 5, 2, 7>>,                        \* named destination too short
   Hdr \o <<2, 5, 0, 0, 6, 0>>,                  \* format 2 destination
   Hdr \o <<0, 5, 9>>,                           \* bad source format
   Hdr \o <<0, 5, 0, 6>>,                        \* no menuver
   Hdr \o <<0, 5, 0, 6, 3>>,                     \* menuver, nothing after it
   Hdr \o <<0, 5, 0, 6, 1, 40>>,                 \* access field over 39
   Hdr \o <<0, 5, 0, 6, 2, 2, 1>>,               \* user data longer than left
   Hdr \o <<0, 5, 0, 6, 0>>,                     \* valid, listener 5
   Hdr \o <<0, 4, 0, 6, 2, 1, 7>>,               \* valid, no listener on 4
   Hdr \o <<0, 5, 0, 6, 3, 0, 0, 0, 1, 7>>}      \* valid with all fields

\* The message shapes together with one example of each failure kind.
MCAllMsgs == MCMsgs \cup MCSample

=============================================================================
