------------------------------ MODULE NSPRxLive ------------------------------
(***************************************************************************)
(* The receive path of NSPRx together with a peer that retransmits what we *)
(* have not acknowledged, under the fairness the retransmission timer and  *)
(* the reading application justify.  The receive actions are those of      *)
(* NSPRx unchanged; the environment is cut down to the data sub-channel    *)
(* and gains the retransmissions.                                          *)
(***************************************************************************)
EXTENDS NSPRx

\* The peer's view of our acknowledgments: the acks we handed to the
\* outbound path that cover its first n data segments.
DataAcked(n) ==
  \E a \in out : a.kind = "DataAck" /\ Accepted(a.num) >= n

\* A retransmission carries no ack words; it is the k-th segment again.
DataFrame(k) ==
  [Blank EXCEPT !.flags = F_DATA, !.seg = Wire(k), !.pay = k + 1, !.len = 3]

\* The peer's first transmission of a segment, without ack words: with no
\* local traffic they would only repeat the initial cursors.
PeerSendDataLive ==
  /\ pphase = "run" /\ Len(psent) < MaxData
  /\ Send(DataFrame(Len(psent)))
  /\ psent' = Append(psent, Len(psent) + 1)
  /\ UNCHANGED <<conn, rcvq, othq, out, pphase, poth, lsent, lsentoth, localdisc>>

\* The peer's retransmission timer (dn_nsp_out.c on its side) sends its
\* queue again from the oldest segment we have not acknowledged.
PeerRetransmitData ==
  /\ pphase = "run"
  /\ \E k \in 0..Len(psent) - 1 :
       /\ ~DataAcked(k + 1)
       /\ \A j \in 0..k - 1 : DataAcked(j + 1)
       /\ Send(DataFrame(k))
  /\ UNCHANGED <<conn, rcvq, othq, out, envvars>>

\* The same for the other sub-channel: other-data and link-service items
\* share numoth_rcv, and the peer resends the oldest one not acknowledged.
OthAcked(n) ==
  \E a \in out : a.kind = "OthAck" /\ Accepted(a.num) >= n

ItemFrame(it, k) ==
  [Blank EXCEPT !.flags = IF it.kind = "OD" THEN F_OD ELSE F_LS,
                !.seg = Wire(k), !.pay = it.pay, !.lsflags = it.lsflags,
                !.fcval = it.fcval, !.len = IF it.kind = "OD" THEN 3 ELSE 4]
OthFrame(k) == ItemFrame(poth[k + 1], k)

\* The peer's first transmission of an item, here an interrupt message or a
\* credit grant of one (the two handlers, dn_nsp_otherdata and
\* dn_nsp_linkservice), without ack words: acks of our data play no part.
LiveOthItems(k) ==
  {[kind |-> "OD", pay |-> k, lsflags |-> 0, fcval |-> 0],
   [kind |-> "LS", pay |-> 0, lsflags |-> 0, fcval |-> 1]}

PeerSendOtherLive ==
  /\ pphase = "run" /\ Len(poth) < MaxOth
  /\ \E it \in LiveOthItems(Len(poth) + 1) :
       /\ poth' = Append(poth, it)
       /\ Send(ItemFrame(it, Len(poth)))
  /\ UNCHANGED <<conn, rcvq, othq, out, pphase, psent, lsent, lsentoth, localdisc>>

PeerRetransmitOther ==
  /\ pphase = "run"
  /\ \E k \in 0..Len(poth) - 1 :
       /\ ~OthAcked(k + 1)
       /\ \A j \in 0..k - 1 : OthAcked(j + 1)
       /\ Send(OthFrame(k))
  /\ UNCHANGED <<conn, rcvq, othq, out, envvars>>

\* The accepting peer, in CC, repeats its connect-confirm on its timer
\* until a frame of ours reaches it.  We send none before RUN, so the
\* repeat is enabled exactly while our side is in CI or CD.
ConfirmFrame ==
  [Blank EXCEPT !.flags = F_CC, !.fc = "SCMC", !.dlen = -1, !.len = 4]

\* The peer's first confirm, without connect data: the optional data
\* fields play no part in reaching RUN.
PeerConfirmLive ==
  /\ pphase = "wait"
  /\ Send(ConfirmFrame)
  /\ pphase' = "run"
  /\ UNCHANGED <<conn, rcvq, othq, out, psent, poth, lsent, lsentoth, localdisc>>

PeerRetransmitConfirm ==
  /\ pphase = "run" /\ conn.state \in {"CI", "CD"}
  /\ Send(ConfirmFrame)
  /\ UNCHANGED <<conn, rcvq, othq, out, envvars>>

\* The question here is the data and other sub-channels of a running connection: the
\* environment is the peer sending and retransmitting items, the network
\* losing or duplicating frames, and the reader draining the socket.
LiveNext ==
  \/ \E f \in net : Receive(f) \/ Lose(f)
  \/ PeerSendDataLive \/ PeerRetransmitData \/ LocalUncongest
  \/ PeerSendOtherLive \/ PeerRetransmitOther
  \/ PeerConnAck \/ PeerConfirmLive \/ PeerRetransmitConfirm

\* A step in which a retransmitted segment is received, and one in which
\* a frame moves the data cursor: dn_queue_skb admitted the in-sequence
\* segment.
ReceiveRetransmitted == \E k \in 0..MaxData - 1 :
                          DataFrame(k) \in net /\ Receive(DataFrame(k))
ReceiveProgress ==
  \E f \in net : /\ f.flags = F_DATA /\ seq_next(conn.numdat_rcv, f.seg)
                 /\ Receive(f) /\ conn'.numdat_rcv # conn.numdat_rcv

ReceiveConfirm == ConfirmFrame \in net /\ Receive(ConfirmFrame)

ReceiveRetransmittedOther ==
  \E k \in 0..Len(poth) - 1 : OthFrame(k) \in net /\ Receive(OthFrame(k))
ReceiveProgressOther ==
  \E f \in net : /\ f.flags \in {F_OD, F_LS} /\ seq_next(conn.numoth_rcv, f.seg)
                 /\ Receive(f) /\ conn'.numoth_rcv # conn.numoth_rcv

\* Fairness.  The peer's timer keeps retransmitting (weak fairness).  A
\* segment retransmitted again and again is not lost every time, and an
\* in-sequence segment is not refused by dn_queue_skb every time, since the
\* application drains the receive buffer (strong fairness: both steps are
\* enabled only intermittently, between a loss and the next retransmission).
LiveSpec ==
  /\ Init /\ [][LiveNext]_vars
  /\ WF_vars(PeerRetransmitData) /\ WF_vars(PeerRetransmitOther)
  /\ SF_vars(ReceiveRetransmitted) /\ SF_vars(ReceiveProgress)
  /\ SF_vars(ReceiveRetransmittedOther) /\ SF_vars(ReceiveProgressOther)
  /\ WF_vars(PeerRetransmitConfirm) /\ SF_vars(ReceiveConfirm)

\* The connection or the peer has given up: no acknowledgment is owed.
Closing == pphase # "run" \/ localdisc \/ conn.state \notin {"CC", "RUN"}

\* Every data segment the peer sends is eventually acknowledged, even when
\* dn_nsp_data defers the ack of an even segment with scp->ackdelay at 0
\* (lines 702-706): the ack of its retransmission then covers it.
EverySegmentAcked ==
  \A k \in 1..MaxData : Len(psent) >= k ~> (DataAcked(k) \/ Closing)

\* Every data segment the peer sends eventually reaches the receive queue
\* in spite of losses and of dn_queue_skb refusing it for a while.
DataEventuallyDelivered ==
  \A k \in 1..MaxData : Len(psent) >= k ~> (Len(rcvq) >= k \/ Closing)

\* Every other-data or link-service item the peer sends is eventually
\* acknowledged: dn_nsp_otherdata acks every frame of length >= 2 whether
\* or not dn_queue_skb admitted it (lines 660-671), and
\* dn_nsp_linkservice every well-formed one (lines 555-600), so the ack of
\* a retransmission covers an item whose first ack was lost.
EveryOtherItemAcked ==
  \A k \in 1..MaxOth : Len(poth) >= k ~> (OthAcked(k) \/ Closing)

\* Once the peer has accepted our connect-init, our side eventually runs,
\* whatever the order in which the connect-ack and the connect-confirm
\* arrive, lost or duplicated: dn_nsp_conn_ack moves only CI to CD (line
\* 409) and dn_nsp_conn_conf takes the confirm in CI and in CD (line 364).
ConnectEventuallyRuns == pphase = "run" ~> conn.state = "RUN"

=============================================================================
