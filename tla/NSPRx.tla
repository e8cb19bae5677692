-------------------------------- MODULE NSPRx --------------------------------
(***************************************************************************)
(* The receive side of one NSP connection (src/kernel/net/decnet/         *)
(* dn_nsp_in.c): dn_nsp_backlog_rcv and the handlers it dispatches to,     *)
(* dn_process_ack / dn_ack, the control handlers, the link-service handler *)
(* and the two delivery engines.  The connection is driven by a peer that  *)
(* follows the protocol, over a network that loses, duplicates and         *)
(* reorders frames, plus a fixed set of malformed frames an attacker or a  *)
(* broken peer may inject.                                                  *)
(*                                                                         *)
(* The connection's fields (struct dn_scp and the struct sock fields the   *)
(* handlers touch) are one record, conn.  Each handler is an operator from *)
(* conn to conn, composed in its action the way dn_nsp_backlog_rcv calls   *)
(* them.                                                                    *)
(***************************************************************************)
EXTENDS Integers, Sequences, SequencesExt, FiniteSets, Bitwise, NSPSeq, NSPStates

CONSTANTS
  SeqBase,      \* wire number of the first segment on every sub-channel
  MaxData,      \* bound: data segments the peer sends
  MaxOth,       \* bound: other-data and link-service segments the peer sends
  MaxLocal,     \* bound: data segments the local side sends
  MaxLocalOth,  \* bound: other-data segments the local side sends
  StartStates,  \* connection states the model may start in
  FlowInit,     \* flowrem_dat granted when the connection was set up
  ACKDELAY,     \* the value dn_nsp_data re-arms scp->ackdelay with
  AckDelayInit, \* scp->ackdelay as the (external) set-up code leaves it
  PeerPort,     \* the peer's port number (non-zero)
  Malformed     \* frames outside the protocol that may be injected

ASSUME SeqBase \in 0..NSP_SG_MASK
ASSUME MaxData + MaxOth + MaxLocal + MaxLocalOth < 2048
ASSUME StartStates \subseteq {"CI", "CC", "RUN", "DI", "DR"}
ASSUME PeerPort # 0

States == {"CI", "CD", "CC", "CR", "RUN", "DI", "DIC", "DR", "DRC",
           "CN", "RJ", "NR", "NC", "DN"}

Junk == "junk"   \* a byte read from beyond the end of a frame

\* Frame type bytes (cb->nsp_flags).
F_DATA == 96   \* 0x60 data segment, begin and end of message
F_ACKDAT == 4  \* 0x04 data acknowledgment
F_LS == 16     \* 0x10 link service
F_ACKOTH == 20 \* 0x14 other-data acknowledgment
F_CA == 36     \* 0x24 connect acknowledgment
F_OD == 48     \* 0x30 other data (interrupt)
F_CC == 40     \* 0x28 connect confirm
F_DI == 56     \* 0x38 disconnect initiate
F_DC == 72     \* 0x48 disconnect confirm

(***************************************************************************)
(* A frame as the handlers see it.  len is skb->len when the handler is    *)
(* entered (routing header, NSP header and ack words already pulled);     *)
(* dlen is the optional-data length byte (-1 when the frame ends before  *)
(* it) and opt the bytes that really follow it.                            *)
(***************************************************************************)
Blank == [flags |-> 0, acks |-> <<>>, seg |-> 0, pay |-> 0, lsflags |-> 0,
          fcval |-> 0, srcport |-> PeerPort, reason |-> "DC", fc |-> "NONE",
          dlen |-> -1, opt |-> <<>>, len |-> 0, rts |-> FALSE]

OptLen(dlen, opt) == IF dlen < 0 THEN 0 ELSE 1 + Len(opt)

\* The 16-bit ack sub-field: bit 15 present, bits 14..12 qualifier.
AckWord(qual, num) == 32768 + qual * 4096 + num

(***************************************************************************)
(* Connection state.                                                       *)
(***************************************************************************)
VARIABLES
  conn,     \* struct dn_scp / struct sock fields of the connection
  rcvq,     \* sk->sk_receive_queue: payloads of accepted data segments
  othq,     \* scp->other_receive_queue: payloads of accepted other data
  out,      \* frames and calls the handlers hand to the outbound path
  \* environment
  net,      \* frames in flight to the connection
  pphase,   \* the peer: "wait" (answering our CI), "run", "closed"
  psent,    \* payloads of the peer's data segments, in order
  poth,     \* the peer's other-data and link-service items, in order
  lsent,    \* data segments the local side has sent
  lsentoth, \* other-data segments the local side has sent
  localdisc \* the local side has sent a disconnect-init

vars == <<conn, rcvq, othq, out, net, pphase, psent, poth,
          lsent, lsentoth, localdisc>>
envvars == <<pphase, psent, poth, lsent, lsentoth, localdisc>>

Wire(k) == (SeqBase + k) % SeqSpace

InitConn(s) ==
  [state |-> s,
   sk_state |-> IF s \in {"RUN", "DI"} THEN "ESTABLISHED" ELSE "OPENING",
   sk_err |-> "NONE",
   shutdown |-> FALSE,
   ss |-> CASE s = "CI" -> "CONNECTING" [] s = "DR" -> "UNCONNECTED"
            [] OTHER -> "CONNECTED",
   addrrem |-> IF s = "CI" THEN 0 ELSE PeerPort,
   numdat_rcv |-> Wire(0), numoth_rcv |-> Wire(0),
   ackrcv_dat |-> Wire(0), ackrcv_oth |-> Wire(0),
   flowrem_sw |-> "SEND", flowloc_sw |-> "SEND",
   flowrem_dat |-> FlowInit, flowrem_oth |-> 1,
   services_rem |-> "SCMC",
   ackdelay |-> AckDelayInit,
   pending |-> {},
   persist |-> s \in {"CI", "CC", "DI", "DR"},
   persist_fxn |-> "retransmit",
   conntimer |-> s = "CI",
   conndata_in |-> <<>>, discdata_in |-> <<>>, disc_status |-> "NONE"]


(***************************************************************************)
(* Acknowledgment processing: dn_ack and dn_process_ack.                   *)
(***************************************************************************)

\* Mutant: the ack number is stored without "& NSP_SG_MASK".
dn_ack_unmasked(c, ack) ==
  LET type == (ack \div 4096) % 4
  IN  CASE type = 0 /\ dn_after(ack, c.ackrcv_dat) -> [c EXCEPT !.ackrcv_dat = ack]
        [] type = 2 /\ dn_after(ack, c.ackrcv_oth) -> [c EXCEPT !.ackrcv_oth = ack]
        [] OTHER -> c

\* Mutant: any ack replaces the cursor, without the dn_after test.
dn_ack_unordered(c, ack) ==
  LET type == (ack \div 4096) % 4
  IN  CASE type = 0 -> [c EXCEPT !.ackrcv_dat = ack % SeqSpace]
        [] type = 2 -> [c EXCEPT !.ackrcv_oth = ack % SeqSpace]
        [] OTHER -> c

\* dn_ack: one ack word, its channel bit already flipped for other-data and
\* link-service frames.  Qualifiers 1 and 3 (NAKs) change nothing.  Pruning
\* the transmit queue and waking the writer belong to the outbound path.
dn_ack(c, ack) ==
  LET type == (ack \div 4096) % 4
  IN  CASE type = 0 /\ dn_after(ack, c.ackrcv_dat) ->
             [c EXCEPT !.ackrcv_dat = ack % SeqSpace]
        [] type = 2 /\ dn_after(ack, c.ackrcv_oth) ->
             [c EXCEPT !.ackrcv_oth = ack % SeqSpace]
        [] OTHER -> c

\* Bit n of a word (ack & 2^n, the tests of dn_process_ack).
Bit(x, n) == (x \div 2^n) % 2

\* ack ^= 0x2000: flip the cross-sub-channel bit.
FlipCross(ack) == IF Bit(ack, 13) = 1 THEN ack - 8192 ELSE ack + 8192

\* Mutant: the cross-sub-channel bit is not flipped for "other" frames.
AckField_noflip(c, ack, oth) == IF Bit(ack, 14) = 0 THEN dn_ack(c, ack) ELSE c

\* One sub-field of dn_process_ack; words with bit 14 set are skipped.
AckField(c, ack, oth) ==
  IF Bit(ack, 14) = 0 THEN dn_ack(c, IF oth THEN FlipCross(ack) ELSE ack)
                      ELSE c

AckPresent(ws, i) == Len(ws) >= i /\ Bit(ws[i], 15) = 1

\* dn_process_ack: at most two leading ack words, the second looked at only
\* when the first was present.
dn_process_ack(c, ws, oth) ==
  IF ~AckPresent(ws, 1) THEN c
  ELSE LET c1 == AckField(c, ws[1], oth)
       IN  IF AckPresent(ws, 2) THEN AckField(c1, ws[2], oth) ELSE c1

(***************************************************************************)
(* Control handlers.                                                       *)
(***************************************************************************)

\* The optional data of a CC or DI after hdr header bytes: the length byte
\* is checked against 16 and against skb->len, which still counts the
\* length byte itself.
OptAccepted(f, hdr) ==
  f.len - hdr > 0 /\ f.dlen <= 16 /\ f.dlen <= f.len - hdr

\* skb_copy_from_linear_data_offset(skb, 1, ..., dlen): bytes past the
\* end of the frame are whatever lies there.
OptCopy(f) == [i \in 1..f.dlen |-> IF i <= Len(f.opt) THEN f.opt[i] ELSE Junk]

\* Mutant: a connect-confirm is applied in any state but RUN.
dn_nsp_conn_conf_anystate(c, f) ==
  IF f.len < 4 \/ c.state = "RUN" THEN c
  ELSE [c EXCEPT !.persist = FALSE, !.conntimer = FALSE,
                 !.addrrem = f.srcport, !.sk_state = "ESTABLISHED",
                 !.state = "RUN", !.services_rem = f.fc,
                 !.conndata_in = IF OptAccepted(f, 4) THEN OptCopy(f) ELSE @,
                 !.pending = @ \cup {"IDLE"}]

\* Mutant: a connect-confirm is taken only in CI, not after a connect-ack.
dn_nsp_conn_conf_cionly(c, f) ==
  IF f.len < 4 \/ c.state # "CI" THEN c
  ELSE [c EXCEPT !.persist = FALSE, !.conntimer = FALSE,
                 !.addrrem = f.srcport, !.sk_state = "ESTABLISHED",
                 !.state = "RUN", !.services_rem = f.fc,
                 !.conndata_in = IF OptAccepted(f, 4) THEN OptCopy(f) ELSE @,
                 !.pending = @ \cup {"IDLE"}]

\* dn_nsp_conn_conf (the segment-size and max_window overrides are left out).
dn_nsp_conn_conf(c, f) ==
  IF f.len < 4 \/ c.state \notin {"CI", "CD"} THEN c
  ELSE [c EXCEPT !.persist = FALSE, !.conntimer = FALSE,
                 !.addrrem = f.srcport, !.sk_state = "ESTABLISHED",
                 !.state = "RUN", !.services_rem = f.fc,
                 !.conndata_in = IF OptAccepted(f, 4) THEN OptCopy(f) ELSE @,
                 !.pending = @ \cup {"IDLE"}]

\* dn_nsp_conn_ack
dn_nsp_conn_ack(c) ==
  IF c.state = "CI"
  THEN [c EXCEPT !.state = "CD", !.persist = FALSE, !.conntimer = TRUE]
  ELSE c

\* dn_nsp_disc_init, up to the disconnect-confirm it may send.
dn_nsp_disc_init(c, f) ==
  IF f.len < 2 THEN c
  ELSE [c EXCEPT !.disc_status = f.reason,
                 !.discdata_in = IF OptAccepted(f, 2) THEN OptCopy(f) ELSE <<>>,
                 !.addrrem = f.srcport,
                 !.sk_state = "CLOSE",
                 !.state = DiscInitState(c.state),
                 !.sk_err = IF c.state \in {"CI", "CD"} THEN "ECONNREFUSED" ELSE @,
                 !.conntimer = IF c.state \in {"CI", "CD"} THEN FALSE ELSE @,
                 !.shutdown = @ \/ c.state = "RUN",
                 !.ss = IF @ # "UNCONNECTED" THEN "DISCONNECTING" ELSE @,
                 !.persist_fxn = "destroy", !.persist = TRUE]

\* dn_nsp_disc_conf
dn_nsp_disc_conf(c, f) ==
  IF f.len # 2 THEN c
  ELSE [c EXCEPT !.sk_state = "CLOSE",
                 !.state = DiscConfState(c.state, f.reason),
                 !.shutdown = @ \/ c.state = "RUN",
                 !.ss = IF @ # "UNCONNECTED" THEN "DISCONNECTING" ELSE @,
                 !.persist_fxn = "destroy", !.persist = TRUE]

\* Mutant: a returned connect-init closes the connection in any state.
dn_returned_conn_init_anystate(c) ==
  [c EXCEPT !.state = "NC", !.sk_state = "CLOSE", !.sk_err = "EHOSTUNREACH"]

\* dn_returned_conn_init
dn_returned_conn_init(c) ==
  IF c.state = "CI"
  THEN [c EXCEPT !.state = "NC", !.sk_state = "CLOSE", !.sk_err = "EHOSTUNREACH"]
  ELSE c

(***************************************************************************)
(* Data-class frames: what dn_nsp_backlog_rcv does before the handler.      *)
(***************************************************************************)

\* "other" of dn_nsp_backlog_rcv: the ack words of other-data, link-service
\* and other-data-ack frames name the opposite channel by default.
OtherChannel(f) == ~((f.flags & 28) = 0 \/ f.flags = 4)

\* A data or ack frame kicks a CC connection into RUN.
Promote(c) ==
  IF c.state = "CC" THEN [c EXCEPT !.state = "RUN", !.sk_state = "ESTABLISHED"]
                    ELSE c

\* Promotion, then the piggy-backed acks.
RxPrefix(c, f) == dn_process_ack(Promote(c), f.acks, OtherChannel(f))

IsControl(f) == (f.flags & 12) = 8
IsDataClass(f) == ~IsControl(f) /\ f.flags # F_CA /\ (f.flags & 12) = 0
IsAckClass(f) == ~IsControl(f) /\ f.flags # F_CA /\ (f.flags & 12) # 0

\* The switch of dn_nsp_linkservice for a segment that is in sequence.
LsApply(c, f) ==
  LET mod == f.lsflags & 3
      fc  == f.fcval
  IN  IF (f.lsflags & 4) = 0
      THEN CASE mod = 0 /\ fc < 0 ->
                  IF c.flowrem_dat > -fc /\ c.services_rem = "SCMC"
                  THEN [c EXCEPT !.flowrem_dat = @ + fc] ELSE c
             [] mod = 0 /\ fc > 0 -> [c EXCEPT !.flowrem_dat = @ + fc]
             [] mod = 1 -> [c EXCEPT !.flowrem_sw = "DONTSEND"]
             [] mod = 2 -> [c EXCEPT !.flowrem_sw = "SEND"]
             [] OTHER -> c
      ELSE IF fc > 0 THEN [c EXCEPT !.flowrem_oth = @ + fc] ELSE c

\* Link-service item as the peer's other sub-channel carries it.
LsItem(f) == [kind |-> "LS", pay |-> 0, lsflags |-> f.lsflags, fcval |-> f.fcval]
OdItem(f) == [kind |-> "OD", pay |-> f.pay, lsflags |-> 0, fcval |-> 0]

\* dn_queue_skb (lines 608-643), by its result: the socket filter's error,
\* else -ENOMEM when sk_rmem_alloc has reached sk_rcvbuf, else -ENOBUFS when
\* sk_rmem_schedule finds no memory, else 0 and the frame is queued.  The
\* three tests read the socket filter and the memory accounting, which are
\* outside this file: each is a free choice, and QueueResults is every
\* result the function can return.
EPERM == 1
ENOMEM == 12
ENOBUFS == 105
dn_queue_skb(filter_err, rmem_full, schedule_fails) ==
  CASE filter_err # 0  -> filter_err
    [] rmem_full       -> -ENOMEM
    [] schedule_fails  -> -ENOBUFS
    [] OTHER           -> 0
QueueResults == {dn_queue_skb(e, full, fail) :
                   e \in {0, -EPERM}, full \in BOOLEAN, fail \in BOOLEAN}

DataAck(c) == [kind |-> "DataAck", num |-> c.numdat_rcv]
OthAck(c) == [kind |-> "OthAck", num |-> c.numoth_rcv]


(***************************************************************************)
(* Receiving a frame.  dn_nsp_rx_packet finds the socket and hands the    *)
(* frame to sk_receive_skb, which runs dn_nsp_backlog_rcv at once or from *)
(* the socket backlog in arrival order; the network already reorders, so  *)
(* the backlog adds no behaviour and is not modelled separately.  Each      *)
(* action below is one branch of dn_nsp_backlog_rcv.                        *)
(***************************************************************************)

\* control frame, sub-type 0x20: connect confirm
RxConnConf(f) ==
  /\ IsControl(f) /\ (f.flags & 112) = 32 /\ ~f.rts
  /\ conn' = dn_nsp_conn_conf(conn, f)
  /\ UNCHANGED <<rcvq, othq, out>>

\* nsp_flags 0x24: connect acknowledgment
RxConnAck(f) ==
  /\ f.flags = F_CA /\ ~f.rts
  /\ conn' = dn_nsp_conn_ack(conn)
  /\ UNCHANGED <<rcvq, othq, out>>

\* control frame, sub-type 0x30: disconnect initiate; the reply is sent
\* only when the remote port is known.
RxDiscInit(f) ==
  /\ IsControl(f) /\ (f.flags & 112) = 48 /\ ~f.rts
  /\ LET c == dn_nsp_disc_init(conn, f)
     IN  /\ conn' = c
         /\ out' = IF f.len >= 2 /\ c.addrrem # 0
                   THEN out \cup {[kind |-> "DiscConf", num |-> 0]} ELSE out
  /\ UNCHANGED <<rcvq, othq>>

\* control frame, sub-type 0x40: disconnect confirm
RxDiscConf(f) ==
  /\ IsControl(f) /\ (f.flags & 112) = 64 /\ ~f.rts
  /\ conn' = dn_nsp_disc_conf(conn, f)
  /\ UNCHANGED <<rcvq, othq, out>>

\* ack frames: promotion and ack processing, then the frame is dropped
RxAckFrame(f) ==
  /\ IsAckClass(f) /\ f.flags # F_CA /\ ~f.rts
  /\ conn' = RxPrefix(conn, f)
  /\ UNCHANGED <<rcvq, othq, out>>

\* data-class frames for a connection that is not (now) running: dropped
\* after ack processing
RxNotRunning(f) ==
  /\ IsDataClass(f) /\ ~f.rts
  /\ RxPrefix(conn, f).state # "RUN"
  /\ conn' = RxPrefix(conn, f)
  /\ UNCHANGED <<rcvq, othq, out>>

\* Mutant: an out-of-sequence (duplicate) request is applied too.
RxLinkService_dupapply(f) ==
  /\ IsDataClass(f) /\ f.flags = F_LS /\ ~f.rts
  /\ LET c1 == RxPrefix(conn, f)
         ok == f.len = 4 /\ (f.lsflags & 248) = 0
         inseq == ok /\ seq_next(c1.numoth_rcv, f.seg)
         c2 == IF inseq THEN LsApply([c1 EXCEPT !.numoth_rcv = seq_add(@)], f)
                        ELSE IF ok THEN LsApply(c1, f) ELSE c1
         resume == inseq /\ (f.lsflags & 7) = 2
     IN  /\ c1.state = "RUN"
         /\ conn' = c2
         /\ out' = IF ~ok THEN out
                   ELSE out \cup {OthAck(c2)}
                            \cup (IF resume THEN {[kind |-> "Output", num |-> 0]}
                                            ELSE {})
  /\ UNCHANGED <<rcvq, othq>>

\* Mutant: the reserved flag bits are not checked.
RxLinkService_noflagcheck(f) ==
  /\ IsDataClass(f) /\ f.flags = F_LS /\ ~f.rts
  /\ LET c1 == RxPrefix(conn, f)
         ok == f.len = 4
         inseq == ok /\ seq_next(c1.numoth_rcv, f.seg)
         c2 == IF inseq THEN LsApply([c1 EXCEPT !.numoth_rcv = seq_add(@)], f)
                        ELSE c1
         resume == inseq /\ (f.lsflags & 7) = 2
     IN  /\ c1.state = "RUN"
         /\ conn' = c2
         /\ out' = IF ~ok THEN out
                   ELSE out \cup {OthAck(c2)}
                            \cup (IF resume THEN {[kind |-> "Output", num |-> 0]}
                                            ELSE {})
  /\ UNCHANGED <<rcvq, othq>>

\* dn_nsp_linkservice.  A frame of the wrong size or with reserved flag
\* bits is dropped before the sequence check and is not acknowledged.
RxLinkService(f) ==
  /\ IsDataClass(f) /\ f.flags = F_LS /\ ~f.rts
  /\ LET c1 == RxPrefix(conn, f)
         ok == f.len = 4 /\ (f.lsflags & 248) = 0
         inseq == ok /\ seq_next(c1.numoth_rcv, f.seg)
         c2 == IF inseq THEN LsApply([c1 EXCEPT !.numoth_rcv = seq_add(@)], f)
                        ELSE c1
         resume == inseq /\ (f.lsflags & 7) = 2
     IN  /\ c1.state = "RUN"
         /\ conn' = c2
         /\ out' = IF ~ok THEN out
                   ELSE out \cup {OthAck(c2)}
                            \cup (IF resume THEN {[kind |-> "Output", num |-> 0]}
                                            ELSE {})
  /\ UNCHANGED <<rcvq, othq>>

\* Mutant: the sequence test of dn_nsp_otherdata made against numdat_rcv,
\* the cursor of the data sub-channel.
RxOtherData_datacursor(f) ==
  /\ IsDataClass(f) /\ f.flags = F_OD /\ ~f.rts
  /\ LET c1 == RxPrefix(conn, f)
         inseq == f.len >= 2 /\ seq_next(c1.numdat_rcv, f.seg)
     IN  /\ c1.state = "RUN"
         /\ \E r \in QueueResults :
              LET queued == inseq /\ r = 0
                  c2 == IF queued THEN [c1 EXCEPT !.numoth_rcv = seq_add(@)]
                                  ELSE c1
              IN  /\ conn' = c2
                  /\ othq' = IF queued THEN Append(othq, f.pay) ELSE othq
                  /\ out' = IF f.len < 2 THEN out ELSE out \cup {OthAck(c2)}
  /\ UNCHANGED rcvq

\* dn_nsp_otherdata: queued only when in sequence and dn_queue_skb admits
\* it (socket filter and receive-buffer accounting, external: either way);
\* an other-data ack is sent whether or not it was queued.
RxOtherData(f) ==
  /\ IsDataClass(f) /\ f.flags = F_OD /\ ~f.rts
  /\ LET c1 == RxPrefix(conn, f)
         inseq == f.len >= 2 /\ seq_next(c1.numoth_rcv, f.seg)
     IN  /\ c1.state = "RUN"
         /\ \E r \in QueueResults :
              LET queued == inseq /\ r = 0
                  c2 == IF queued THEN [c1 EXCEPT !.numoth_rcv = seq_add(@)]
                                  ELSE c1
              IN  /\ conn' = c2
                  /\ othq' = IF queued THEN Append(othq, f.pay) ELSE othq
                  /\ out' = IF f.len < 2 THEN out ELSE out \cup {OthAck(c2)}
  /\ UNCHANGED rcvq

\* Mutant: numdat_rcv advances even when dn_queue_skb refused the segment.
RxData_advance_unqueued(f) ==
  /\ IsDataClass(f) /\ f.flags \notin {F_LS, F_OD} /\ ~f.rts
  /\ LET c1 == RxPrefix(conn, f)
         inseq == f.len >= 2 /\ seq_next(c1.numdat_rcv, f.seg)
     IN  /\ c1.state = "RUN"
         /\ \E r \in QueueResults, congested \in BOOLEAN :
              LET queued == inseq /\ r = 0
                  c2 == IF inseq THEN [c1 EXCEPT !.numdat_rcv = seq_add(@)]
                                  ELSE c1
                  stop == inseq /\ c2.flowloc_sw = "SEND" /\ congested
                  c3 == IF stop THEN [c2 EXCEPT !.flowloc_sw = "DONTSEND",
                                                !.pending = @ \cup {"SW"}]
                                ELSE c2
                  delay == queued /\ ~sendack(f.seg)
              IN  /\ conn' = IF delay /\ c3.ackdelay # 0
                             THEN [c3 EXCEPT !.ackdelay = ACKDELAY] ELSE c3
                  /\ rcvq' = IF queued THEN Append(rcvq, f.pay) ELSE rcvq
                  /\ out' = IF f.len < 2 \/ delay THEN out
                            ELSE out \cup {DataAck(c3)}
  /\ UNCHANGED othq

\* Mutant: no minimum length check before the sequence number is read.
RxData_nolencheck(f) ==
  /\ IsDataClass(f) /\ f.flags \notin {F_LS, F_OD} /\ ~f.rts
  /\ LET c1 == RxPrefix(conn, f)
         inseq == seq_next(c1.numdat_rcv, f.seg)
     IN  /\ c1.state = "RUN"
         /\ \E r \in QueueResults, congested \in BOOLEAN :
              LET queued == inseq /\ r = 0
                  c2 == IF queued THEN [c1 EXCEPT !.numdat_rcv = seq_add(@)]
                                  ELSE c1
                  stop == inseq /\ c2.flowloc_sw = "SEND" /\ congested
                  c3 == IF stop THEN [c2 EXCEPT !.flowloc_sw = "DONTSEND",
                                                !.pending = @ \cup {"SW"}]
                                ELSE c2
                  delay == queued /\ ~sendack(f.seg)
              IN  /\ conn' = IF delay /\ c3.ackdelay # 0
                             THEN [c3 EXCEPT !.ackdelay = ACKDELAY] ELSE c3
                  /\ rcvq' = IF queued THEN Append(rcvq, f.pay) ELSE rcvq
                  /\ out' = IF f.len < 2 \/ delay THEN out
                            ELSE out \cup {DataAck(c3)}
  /\ UNCHANGED othq

\* Mutant: any segment ahead of numdat_rcv is accepted, not only the next.
RxData_window(f) ==
  /\ IsDataClass(f) /\ f.flags \notin {F_LS, F_OD} /\ ~f.rts
  /\ LET c1 == RxPrefix(conn, f)
         inseq == f.len >= 2 /\ (seq_next(c1.numdat_rcv, f.seg)
                                 \/ dn_after(f.seg, c1.numdat_rcv))
     IN  /\ c1.state = "RUN"
         /\ \E r \in QueueResults, congested \in BOOLEAN :
              LET queued == inseq /\ r = 0
                  c2 == IF queued THEN [c1 EXCEPT !.numdat_rcv = seq_add(@)]
                                  ELSE c1
                  stop == inseq /\ c2.flowloc_sw = "SEND" /\ congested
                  c3 == IF stop THEN [c2 EXCEPT !.flowloc_sw = "DONTSEND",
                                                !.pending = @ \cup {"SW"}]
                                ELSE c2
                  delay == queued /\ ~sendack(f.seg)
              IN  /\ conn' = IF delay /\ c3.ackdelay # 0
                             THEN [c3 EXCEPT !.ackdelay = ACKDELAY] ELSE c3
                  /\ rcvq' = IF queued THEN Append(rcvq, f.pay) ELSE rcvq
                  /\ out' = IF f.len < 2 \/ delay THEN out
                            ELSE out \cup {DataAck(c3)}
  /\ UNCHANGED othq

\* Mutant: only a segment that was queued is acknowledged (the else
\* branch of line 703 taken only for queued segments).
RxData_ackonlyqueued(f) ==
  /\ IsDataClass(f) /\ f.flags \notin {F_LS, F_OD} /\ ~f.rts
  /\ LET c1 == RxPrefix(conn, f)
         inseq == f.len >= 2 /\ seq_next(c1.numdat_rcv, f.seg)
     IN  /\ c1.state = "RUN"
         /\ \E r \in QueueResults, congested \in BOOLEAN :
              LET queued == inseq /\ r = 0
                  c2 == IF queued THEN [c1 EXCEPT !.numdat_rcv = seq_add(@)]
                                  ELSE c1
                  stop == inseq /\ c2.flowloc_sw = "SEND" /\ congested
                  c3 == IF stop THEN [c2 EXCEPT !.flowloc_sw = "DONTSEND",
                                                !.pending = @ \cup {"SW"}]
                                ELSE c2
                  delay == queued /\ ~sendack(f.seg)
              IN  /\ conn' = IF delay /\ c3.ackdelay # 0
                             THEN [c3 EXCEPT !.ackdelay = ACKDELAY] ELSE c3
                  /\ rcvq' = IF queued THEN Append(rcvq, f.pay) ELSE rcvq
                  /\ out' = IF f.len < 2 \/ delay \/ ~queued THEN out
                            ELSE out \cup {DataAck(c3)}
  /\ UNCHANGED othq

\* dn_nsp_data: queue when in sequence and admitted; on an in-sequence
\* segment, flip the local switch to DONTSEND if the socket is congested
\* (dn_congested, external: either way); then either re-arm the delayed
\* ack (only if scp->ackdelay is already non-zero) or ack at once.
RxData(f) ==
  /\ IsDataClass(f) /\ f.flags \notin {F_LS, F_OD} /\ ~f.rts
  /\ LET c1 == RxPrefix(conn, f)
         inseq == f.len >= 2 /\ seq_next(c1.numdat_rcv, f.seg)
     IN  /\ c1.state = "RUN"
         /\ \E r \in QueueResults, congested \in BOOLEAN :
              LET queued == inseq /\ r = 0
                  c2 == IF queued THEN [c1 EXCEPT !.numdat_rcv = seq_add(@)]
                                  ELSE c1
                  stop == inseq /\ c2.flowloc_sw = "SEND" /\ congested
                  c3 == IF stop THEN [c2 EXCEPT !.flowloc_sw = "DONTSEND",
                                                !.pending = @ \cup {"SW"}]
                                ELSE c2
                  delay == queued /\ ~sendack(f.seg)
              IN  /\ conn' = IF delay /\ c3.ackdelay # 0
                             THEN [c3 EXCEPT !.ackdelay = ACKDELAY] ELSE c3
                  /\ rcvq' = IF queued THEN Append(rcvq, f.pay) ELSE rcvq
                  /\ out' = IF f.len < 2 \/ delay THEN out
                            ELSE out \cup {DataAck(c3)}
  /\ UNCHANGED othq

\* A returned (retransmitted) connect-init, dispatched by dn_nsp_rx_packet
\* to dn_returned_conn_init without going through the backlog.
RxReturnedConnInit(f) ==
  /\ f.rts /\ IsControl(f) /\ (f.flags & 112) \in {16, 96}
  /\ conn' = dn_returned_conn_init(conn)
  /\ UNCHANGED <<rcvq, othq, out>>

\* The frame leaves the network, or a copy stays behind (duplication).
Receive(f) ==
  /\ \/ net' = net \ {f}
     \/ net' = net
  /\ \/ RxConnConf(f) \/ RxConnAck(f) \/ RxDiscInit(f) \/ RxDiscConf(f)
     \/ RxAckFrame(f) \/ RxNotRunning(f)
     \/ RxLinkService(f) \/ RxOtherData(f) \/ RxData(f)
     \/ RxReturnedConnInit(f)
  /\ UNCHANGED envvars

(***************************************************************************)
(* The environment: the peer, the local outbound side, the network.  None  *)
(* of this is code of dn_nsp_in.c.                                          *)
(***************************************************************************)

\* Ack words the peer puts at the front of a frame: its latest cumulative
\* acks, this sub-channel first, the other one as a cross-sub-channel ack.
PeerAcks(oth) ==
  LET this  == IF oth THEN Wire(lsentoth) ELSE Wire(lsent)
      cross == IF oth THEN Wire(lsent) ELSE Wire(lsentoth)
  IN  {<<>>, <<AckWord(0, this), AckWord(2, cross)>>}

LsChoices == {<<0, 1>>, <<0, -1>>, <<1, 0>>, <<2, 0>>, <<4, 1>>}

OthItems(k) ==
  {[kind |-> "OD", pay |-> k, lsflags |-> 0, fcval |-> 0]}
  \cup {[kind |-> "LS", pay |-> 0, lsflags |-> x[1], fcval |-> x[2]] :
          x \in LsChoices}

Send(f) == net' = net \cup {f}

Opt(d) == IF d > 0 THEN [i \in 1..d |-> "d"] ELSE <<>>

PeerConnAck ==
  /\ pphase = "wait"
  /\ Send([Blank EXCEPT !.flags = F_CA])
  /\ UNCHANGED <<conn, rcvq, othq, out, envvars>>

PeerConfirm ==
  /\ pphase = "wait"
  /\ \E fc \in {"NONE", "SCMC"}, d \in {-1, 1} :
       Send([Blank EXCEPT !.flags = F_CC, !.fc = fc, !.dlen = d, !.opt = Opt(d),
                          !.len = 4 + OptLen(d, Opt(d))])
  /\ pphase' = "run"
  /\ UNCHANGED <<conn, rcvq, othq, out, psent, poth, lsent, lsentoth, localdisc>>

\* The peer rejects our connect-init; such a DI may carry no port.
PeerReject ==
  /\ pphase = "wait"
  /\ \E port \in {0, PeerPort} :
       Send([Blank EXCEPT !.flags = F_DI, !.reason = "RJ", !.srcport = port,
                          !.len = 2])
  /\ pphase' = "closed"
  /\ UNCHANGED <<conn, rcvq, othq, out, psent, poth, lsent, lsentoth, localdisc>>

\* The peer has no resources for our connect-init.
PeerNoResources ==
  /\ pphase = "wait"
  /\ Send([Blank EXCEPT !.flags = F_DC, !.reason = "NR", !.len = 2])
  /\ pphase' = "closed"
  /\ UNCHANGED <<conn, rcvq, othq, out, psent, poth, lsent, lsentoth, localdisc>>

PeerDisconnect ==
  /\ pphase = "run"
  /\ \E d \in {-1, 1} :
       Send([Blank EXCEPT !.flags = F_DI, !.reason = "SD", !.dlen = d,
                          !.opt = Opt(d), !.len = 2 + OptLen(d, Opt(d))])
  /\ pphase' = "closed"
  /\ UNCHANGED <<conn, rcvq, othq, out, psent, poth, lsent, lsentoth, localdisc>>

\* The peer confirms our disconnect-init, or says it no longer has a link.
PeerDiscConf ==
  /\ localdisc
  /\ \E r \in {"DC", "NL"} :
       Send([Blank EXCEPT !.flags = F_DC, !.reason = r, !.len = 2])
  /\ pphase' = "closed"
  /\ UNCHANGED <<conn, rcvq, othq, out, psent, poth, lsent, lsentoth, localdisc>>

PeerSendData ==
  /\ pphase = "run" /\ Len(psent) < MaxData
  /\ \E a \in PeerAcks(FALSE) :
       Send([Blank EXCEPT !.flags = F_DATA, !.acks = a, !.seg = Wire(Len(psent)),
                          !.pay = Len(psent) + 1, !.len = 3])
  /\ psent' = Append(psent, Len(psent) + 1)
  /\ UNCHANGED <<conn, rcvq, othq, out, pphase, poth, lsent, lsentoth, localdisc>>

PeerSendOther ==
  /\ pphase = "run" /\ Len(poth) < MaxOth
  /\ \E it \in OthItems(Len(poth) + 1), a \in PeerAcks(TRUE) :
       /\ Send([Blank EXCEPT !.flags = IF it.kind = "OD" THEN F_OD ELSE F_LS,
                   !.acks = a, !.seg = Wire(Len(poth)), !.pay = it.pay,
                   !.lsflags = it.lsflags, !.fcval = it.fcval,
                   !.len = IF it.kind = "OD" THEN 3 ELSE 4])
       /\ poth' = Append(poth, it)
  /\ UNCHANGED <<conn, rcvq, othq, out, pphase, psent, lsent, lsentoth, localdisc>>

PeerSendAck ==
  /\ pphase = "run"
  /\ \/ \E a \in PeerAcks(FALSE) \ {<<>>} :
          Send([Blank EXCEPT !.flags = F_ACKDAT, !.acks = a])
     \/ \E a \in PeerAcks(TRUE) \ {<<>>} :
          Send([Blank EXCEPT !.flags = F_ACKOTH, !.acks = a])
  /\ UNCHANGED <<conn, rcvq, othq, out, envvars>>

\* Our connect-init comes back as undeliverable.
NetReturnConnInit ==
  /\ pphase = "wait"
  /\ Send([Blank EXCEPT !.flags = 24, !.rts = TRUE, !.len = 4])
  /\ UNCHANGED <<conn, rcvq, othq, out, envvars>>

\* The local side (dn_nsp_out.c, af_decnet.c) sends data or other data.
LocalSend ==
  /\ conn.state = "RUN"
  /\ \/ lsent < MaxLocal /\ lsent' = lsent + 1 /\ UNCHANGED lsentoth
     \/ lsentoth < MaxLocalOth /\ lsentoth' = lsentoth + 1 /\ UNCHANGED lsent
  /\ UNCHANGED <<conn, rcvq, othq, out, net, pphase, psent, poth, localdisc>>

\* The local user closes a running connection (af_decnet.c: state DI).
LocalClose ==
  /\ conn.state = "RUN" /\ ~localdisc
  /\ conn' = [conn EXCEPT !.state = "DI"]
  /\ localdisc' = TRUE
  /\ UNCHANGED <<rcvq, othq, out, net, pphase, psent, poth, lsent, lsentoth>>

\* The reader drains the socket and the local switch goes back to SEND.
LocalUncongest ==
  /\ conn.flowloc_sw = "DONTSEND"
  /\ conn' = [conn EXCEPT !.flowloc_sw = "SEND"]
  /\ UNCHANGED <<rcvq, othq, out, net, envvars>>

Lose(f) ==
  /\ net' = net \ {f}
  /\ UNCHANGED <<conn, rcvq, othq, out, envvars>>

Inject ==
  /\ \E f \in Malformed : Send(f)
  /\ UNCHANGED <<conn, rcvq, othq, out, envvars>>

(***************************************************************************)
(* The specification.                                                      *)
(***************************************************************************)

Init ==
  /\ \E s \in StartStates :
       /\ conn = InitConn(s)
       /\ pphase = CASE s = "CI" -> "wait" [] s = "DR" -> "closed"
                     [] OTHER -> "run"
       /\ localdisc = (s \in {"DI", "DR"})
  /\ rcvq = <<>> /\ othq = <<>> /\ out = {} /\ net = {}
  /\ psent = <<>> /\ poth = <<>> /\ lsent = 0 /\ lsentoth = 0

Next ==
  \/ \E f \in net : Receive(f) \/ Lose(f)
  \/ PeerConnAck \/ PeerConfirm \/ PeerReject \/ PeerNoResources
  \/ PeerDisconnect \/ PeerDiscConf
  \/ PeerSendData \/ PeerSendOther \/ PeerSendAck
  \/ NetReturnConnInit \/ LocalSend \/ LocalClose \/ LocalUncongest
  \/ Inject

Spec == Init /\ [][Next]_vars


(***************************************************************************)
(* Properties.                                                             *)
(***************************************************************************)

FrameSet == [flags : 0..255, acks : Seq(0..65535), seg : 0..NSP_SG_MASK,
             pay : Nat, lsflags : 0..255, fcval : -128..127,
             srcport : {0, PeerPort}, reason : STRING, fc : {"NONE", "SCMC"},
             dlen : -1..255, opt : Seq(STRING), len : Nat, rts : BOOLEAN]

TypeOK ==
  /\ conn.state \in States
  /\ conn.numdat_rcv \in 0..NSP_SG_MASK /\ conn.numoth_rcv \in 0..NSP_SG_MASK
  /\ conn.ackrcv_dat \in 0..NSP_SG_MASK /\ conn.ackrcv_oth \in 0..NSP_SG_MASK
  /\ conn.flowrem_sw \in {"SEND", "DONTSEND"}
  /\ conn.flowloc_sw \in {"SEND", "DONTSEND"}
  /\ conn.flowrem_dat \in Int /\ conn.flowrem_oth \in Int
  /\ conn.pending \subseteq {"IDLE", "SW"}
  /\ conn.discdata_in \in Seq(STRING) /\ Len(conn.discdata_in) <= 16
  /\ conn.conndata_in \in Seq(STRING) /\ Len(conn.conndata_in) <= 16
  /\ rcvq \in Seq(1..MaxData) /\ othq \in Seq(1..MaxOth)
  /\ net \subseteq FrameSet
  /\ pphase \in {"wait", "run", "closed"}

\* How many items a sequence cursor says were accepted.
Accepted(cursor) == SeqDist(cursor, Wire(0))

\* Data sub-channel (dn_nsp_data, seq_next/seq_add): whatever the network
\* loses, duplicates or reorders, and across the 4095 -> 0 wrap, the
\* receive queue only ever grows by the next segment the peer sent.
DataChan == INSTANCE ReliableChannel
              WITH Items <- 1..MaxData, sent <- psent, delivered <- rcvq
DataDeliveredInOrder == DataChan!Spec

\* dn_nsp_data advances numdat_rcv exactly when dn_queue_skb queued the
\* segment, so the cursor always counts the segments in the receive queue,
\* also after admission failures.
DataCursorCountsQueue == Accepted(conn.numdat_rcv) = Len(rcvq)

\* The credit a request-count link-service item leaves.  A negative request
\* is applied in segment-count mode when the credit stays strictly
\* positive (strict) or when it merely does not go below zero (~strict).
CreditAfter(dat, fc, strict) ==
  IF fc < 0
  THEN IF (IF strict THEN dat > -fc ELSE dat + fc >= 0)
          /\ conn.services_rem = "SCMC"
       THEN dat + fc ELSE dat
  ELSE dat + fc

\* The flow-control fields after applying the accepted items its of the
\* other sub-channel once each, in order, to fl.
RECURSIVE FlowAfter(_, _, _)
FlowAfter(fl, its, strict) ==
  IF its = <<>> THEN fl
  ELSE LET it == Head(its)
           mod == it.lsflags % 4
           nfl == CASE it.kind = "OD" -> fl
                    [] it.lsflags >= 4 ->
                         [fl EXCEPT !.oth = IF it.fcval > 0 THEN @ + it.fcval ELSE @]
                    [] mod = 0 -> [fl EXCEPT !.dat = CreditAfter(@, it.fcval, strict)]
                    [] mod = 1 -> [fl EXCEPT !.sw = "DONTSEND"]
                    [] mod = 2 -> [fl EXCEPT !.sw = "SEND"]
                    [] OTHER -> fl
       IN  FlowAfter(nfl, Tail(its), strict)

FlowStart == [sw |-> "SEND", dat |-> FlowInit, oth |-> 1]

AcceptedOther == SubSeq(poth, 1, Accepted(conn.numoth_rcv))
IsOD(it) == it.kind = "OD"

\* Other-data and link-service share numoth_rcv (dn_nsp_otherdata,
\* dn_nsp_linkservice): the cursor never passes what the peer sent, the
\* other-data queue holds exactly the accepted OD payloads in order, and
\* the flow-control state is exactly what the accepted link-service
\* requests give when each is applied once, in order - duplicates and
\* reordered stop/resume requests change nothing.
OtherStateAgrees ==
  /\ Accepted(conn.numoth_rcv) <= Len(poth)
  /\ othq = [i \in 1..Len(SelectSeq(AcceptedOther, IsOD)) |->
               SelectSeq(AcceptedOther, IsOD)[i].pay]
  /\ LET fl == FlowAfter(FlowStart, AcceptedOther, TRUE)
     IN  /\ conn.flowrem_sw = fl.sw
         /\ conn.flowrem_dat = fl.dat
         /\ conn.flowrem_oth = fl.oth

\* Spec 4.6: a negative request-count lowers the data credit whenever the
\* decrement does not underflow.
CreditFollowsSpec ==
  conn.flowrem_dat = FlowAfter(FlowStart, AcceptedOther, FALSE).dat

\* Which of the local side's segments an ack cursor names (-1: none).
AckIdx(v, n) == IF \E j \in 0..n : Wire(j) = v
                THEN CHOOSE j \in 0..n : Wire(j) = v ELSE -1

\* dn_process_ack / dn_ack: under reordered and duplicated acks, with the
\* cross-sub-channel bit flipped for other-data and link-service frames,
\* ackrcv_dat and ackrcv_oth only move forward and only ever name a segment
\* the local side has sent on that sub-channel.
AckCursorsMonotone ==
  [][ /\ AckIdx(conn'.ackrcv_dat, lsent') >= AckIdx(conn.ackrcv_dat, lsent)
      /\ AckIdx(conn'.ackrcv_dat, lsent') >= 0
      /\ AckIdx(conn'.ackrcv_oth, lsentoth') >= AckIdx(conn.ackrcv_oth, lsentoth)
      /\ AckIdx(conn'.ackrcv_oth, lsentoth') >= 0 ]_vars

Terminal == {"RJ", "NR", "NC", "DRC", "CN", "DIC", "DN"}

\* Refused, reset, unreachable and disconnected connections stay so: no
\* late, duplicated or reordered frame (a second connect-confirm, data, a
\* returned connect-init, another disconnect) moves them out of that state.
TerminalStable == [][conn.state \in Terminal => conn'.state = conn.state]_vars

\* Once the peer's disconnect-initiate has been processed (disc_status is
\* set, the socket is TCP_CLOSE and a destroy timer is armed), the
\* connection is never running.
NoRunAfterPeerDisconnect == conn.disc_status # "NONE" => conn.state # "RUN"

\* Spec 3: optional data is copied only when its length is within the
\* frame, so no byte beyond the frame ends up in conndata_in or discdata_in.
OptionalDataWithinFrame ==
  /\ \A i \in DOMAIN conn.discdata_in : conn.discdata_in[i] # Junk
  /\ \A i \in DOMAIN conn.conndata_in : conn.conndata_in[i] # Junk

=============================================================================
