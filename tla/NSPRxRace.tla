------------------------------ MODULE NSPRxRace ------------------------------
(***************************************************************************)
(* The part of dn_nsp_rx_packet that runs after the socket was found and  *)
(* before sk_receive_skb (lines 838-873), on several CPUs at once, beside *)
(* the handlers that sk_receive_skb runs under bh_lock_sock.  Lines       *)
(* 842-863 hold no lock: they read scp->state and sk_dst_cache, write the *)
(* route, nsp_rxtshift and stamp, while another CPU may be inside         *)
(* dn_nsp_backlog_rcv on the same socket.  Of a connection only the       *)
(* fields these steps touch are kept: scp->state, the cached route and    *)
(* the retransmit backoff.                                                *)
(***************************************************************************)
EXTENDS Naturals, NSPStates

CONSTANTS
  Cpus,           \* softirq contexts receiving frames for the socket
  Routes,         \* the routes a frame can carry in skb_dst
  StartStates,    \* scp->state when the frames start arriving
  NSP_MAXRXTSHIFT,\* bound of nsp_rxtshift (include/net/dn_nsp.h)
  MaxRx           \* bound: frames received in one behaviour

None == "none"   \* no CPU holds the lock

\* The frames whose handlers matter here: data (0x00) and the two
\* disconnect frames; a disconnect-confirm carries reason DC (42) or NL
\* (41).
Frames == [kind : {"DATA", "DI"}, route : Routes]
          \cup [kind : {"DC"}, reason : {"DC", "NL"}, route : Routes]

VARIABLES
  state,     \* scp->state
  dst,       \* sk->sk_dst_cache
  rxtshift,  \* scp->nsp_rxtshift
  slock,     \* the CPU holding bh_lock_sock, or None
  pc,        \* per CPU: where it is in dn_nsp_rx_packet / the handler
  frame,     \* per CPU: the frame it is receiving
  reg,       \* per CPU: the nsp_rxtshift value dn_nsp_persist loaded
  received,  \* frames received so far
  sinceRx    \* history: dn_nsp_persist increments since the last reset

vars == <<state, dst, rxtshift, slock, pc, frame, reg, received, sinceRx>>

Init ==
  /\ state \in StartStates
  /\ dst \in Routes
  /\ rxtshift \in 0..NSP_MAXRXTSHIFT
  /\ slock = None
  /\ pc = [c \in Cpus |-> "idle"]
  /\ frame = [c \in Cpus |-> CHOOSE f \in Frames : TRUE]
  /\ reg = [c \in Cpus |-> 0]
  /\ received = 0
  /\ sinceRx = rxtshift

\* dn_find_by_skb found the socket (line 836): a frame for it arrives on
\* an idle CPU.
Arrive(c) ==
  /\ pc[c] = "idle" /\ received < MaxRx
  /\ \E f \in Frames : frame' = [frame EXCEPT ![c] = f]
  /\ pc' = [pc EXCEPT ![c] = "route"]
  /\ received' = received + 1
  /\ UNCHANGED <<state, dst, rxtshift, slock, reg, sinceRx>>

\* Lines 842-853: the frame came by another route and the socket is in
\* RUN, read without the lock.
RxCheckRoute(c) ==
  /\ pc[c] = "route"
  /\ pc' = [pc EXCEPT ![c] = IF frame[c].route # dst /\ state = "RUN"
                                 THEN "setdst" ELSE "reset"]
  /\ UNCHANGED <<state, dst, rxtshift, slock, frame, reg, received, sinceRx>>

\* Line 854: __sk_dst_set.
RxSetRoute(c) ==
  /\ pc[c] = "setdst"
  /\ dst' = frame[c].route
  /\ pc' = [pc EXCEPT ![c] = "reset"]
  /\ UNCHANGED <<state, rxtshift, slock, frame, reg, received, sinceRx>>

\* Lines 857-863: reset the backoff and stamp the time of receipt (stamp
\* is read by no step here and is left out).
RxResetBackoff(c) ==
  /\ pc[c] = "reset"
  /\ rxtshift' = 0
  /\ sinceRx' = 0
  /\ pc' = [pc EXCEPT ![c] = "lock"]
  /\ UNCHANGED <<state, dst, slock, frame, reg, received>>

\* Line 873, sk_receive_skb: take bh_lock_sock and run dn_nsp_backlog_rcv,
\* whose state changes here are the disconnect switches and the CC
\* promotion of a data frame (lines 935-938).
\* A data frame is handled to the end; a disconnect changes the state and
\* enters dn_nsp_persist (lines 477, 527), which loads nsp_rxtshift.
RxHandle(c) ==
  /\ pc[c] = "lock" /\ slock = None
  /\ LET f == frame[c] IN
       /\ state' = CASE f.kind = "DI" -> DiscInitState(state)
                     [] f.kind = "DC" -> DiscConfState(state, f.reason)
                     [] OTHER         -> IF state = "CC" THEN "RUN" ELSE state
       /\ IF f.kind = "DATA"
            THEN UNCHANGED <<slock, reg>> /\ pc' = [pc EXCEPT ![c] = "idle"]
            ELSE /\ slock' = c
                 /\ reg' = [reg EXCEPT ![c] = rxtshift]
                 /\ pc' = [pc EXCEPT ![c] = "persist"]
  /\ UNCHANGED <<dst, rxtshift, frame, received, sinceRx>>

\* Lines 865-870 and 878-880: a frame other than a data segment is
\* linearized first, and when skb_linearize fails for lack of memory it
\* is freed with NET_RX_DROP: the backoff was reset, no handler runs.
RxLinearizeFail(c) ==
  /\ pc[c] = "lock" /\ frame[c].kind # "DATA"
  /\ pc' = [pc EXCEPT ![c] = "idle"]
  /\ UNCHANGED <<state, dst, rxtshift, slock, frame, reg, received, sinceRx>>

\* The store of dn_nsp_persist's `if (rxtshift < MAX) rxtshift++` (in
\* dn_nsp_out.c), from the value loaded under the lock; then the handler
\* returns and bh_unlock_sock.
PersistStore(c) ==
  /\ pc[c] = "persist"
  /\ reg[c] < NSP_MAXRXTSHIFT
  /\ rxtshift' = reg[c] + 1
  /\ sinceRx' = sinceRx + 1
  /\ slock' = None
  /\ pc' = [pc EXCEPT ![c] = "idle"]
  /\ UNCHANGED <<state, dst, frame, reg, received>>

PersistAtMax(c) ==
  /\ pc[c] = "persist"
  /\ reg[c] >= NSP_MAXRXTSHIFT
  /\ slock' = None
  /\ pc' = [pc EXCEPT ![c] = "idle"]
  /\ UNCHANGED <<state, dst, rxtshift, frame, reg, received, sinceRx>>

Next ==
  \E c \in Cpus :
    \/ Arrive(c) \/ RxCheckRoute(c) \/ RxSetRoute(c) \/ RxResetBackoff(c)
    \/ RxLinearizeFail(c) \/ RxHandle(c) \/ PersistStore(c) \/ PersistAtMax(c)

Spec == Init /\ [][Next]_vars

TypeOK ==
  /\ rxtshift \in 0..NSP_MAXRXTSHIFT
  /\ slock \in Cpus \cup {None}
  /\ pc \in [Cpus -> {"idle", "route", "setdst", "reset", "lock", "persist"}]
  /\ frame \in [Cpus -> Frames]

\* Spec section 2: the retransmit backoff is reset to zero whenever a frame
\* is accepted from the peer.  It then counts the dn_nsp_persist calls made
\* since: the reset of line 858, written without the socket lock, must not
\* be undone by a dn_nsp_persist that loaded nsp_rxtshift before it.
BackoffResetNotLost == rxtshift <= sinceRx

\* Spec section 5: the route cache is written only while the connection
\* is in RUN (lines 853-854 test scp->state without the lock).
RouteWrittenOnlyInRun == [][dst' # dst => state = "RUN"]_vars

=============================================================================
