----------------------------- MODULE NSPConnInit -----------------------------
(***************************************************************************)
(* The listener side of dn_nsp_in.c: how dn_nsp_rx_packet classifies a     *)
(* frame, how dn_find_listener and dn_check_idf validate a connect-init,    *)
(* how dn_nsp_conn_init queues it on the listener and how dn_nsp_no_socket  *)
(* answers frames that reach no socket.                                    *)
(*                                                                         *)
(* A frame is a record: its flags byte, the returned-to-sender bit, its    *)
(* NSP message as a byte sequence (flags byte first, so the 9-byte         *)
(* connect-init header is m[1..9]), and whether dn_find_by_skb finds a     *)
(* socket for it.                                                          *)
(***************************************************************************)
EXTENDS Integers, Sequences, SequencesExt, Bitwise

CONSTANTS MaxBacklog,  \* sk_max_ack_backlog of the listening socket
          Listeners,   \* object numbers some socket listens on
          Sample,      \* connect-init messages the peers send
          FlagSet      \* flags bytes of the other frames that arrive

VARIABLES acceptq,     \* object numbers of the queued connect-inits
          reply,       \* the last reply sent by dn_nsp_no_socket
          lastin       \* the last frame dn_nsp_rx_packet was handed

vars == <<acceptq, reply, lastin>>

NSP_HDR == 9          \* msgflg, dstaddr(2), srcaddr(2), services, info, segsize(2)
DN_MENUVER_ACC == 1   \* access control fields present
DN_MENUVER_USR == 2   \* user data field present
NoDst == -1
None == [type |-> "none", reason |-> "OK"]

\* ci_err_table: the reason sent back for each failure ordinal; "OK" is the
\* zero entry, which means no reply at all.
ci_err_table == <<"OK", "ID", "ID", "US", "OK", "OK", "IO", "IO">>

(***************************************************************************)
(* dn_username2sockaddr (af_decnet.c, outside this repository), after      *)
(* spec section 4.4: a format byte and an object byte; format 0 ends        *)
(* there, formats 1 and 2 go on with a length-prefixed name of at most 16  *)
(* or 12 bytes, other formats are errors.  The result is the number of     *)
(* bytes used (-1 on error), the format, the object and the last index     *)
(* read.  It checks the length before every read.                          *)
(***************************************************************************)
Username(m, p, len) ==
  LET fail(last) == [size |-> -1, fmt |-> m[p], obj |-> NoDst, last |-> last]
  IN  IF len < 2 THEN [size |-> -1, fmt |-> 0, obj |-> NoDst, last |-> p - 1]
      ELSE IF m[p] = 0 THEN [size |-> 2, fmt |-> 0, obj |-> m[p + 1], last |-> p + 1]
      ELSE IF m[p] > 2 \/ len < 3 THEN fail(p + 1)
      ELSE IF m[p + 2] > (IF m[p] = 1 THEN 16 ELSE 12) \/ m[p + 2] > len - 3
           THEN fail(p + 2)
      ELSE [size |-> 3 + m[p + 2], fmt |-> m[p], obj |-> NoDst, last |-> p + 2]

\* Mutant: a field as long as what is left after it is refused.
dn_check_idf_ge(m, p, len, max) ==
  IF len - 1 < 0 \/ m[p] > max \/ m[p] >= len - 1
  THEN [ok |-> FALSE, p |-> p, len |-> len - 1, last |-> p]
  ELSE [ok |-> TRUE, p |-> p + 1 + m[p], len |-> len - 1 - m[p], last |-> p]

\* dn_check_idf(&ptr, &len, max).  The length byte at ptr is read before
\* *len is known to be positive: when nothing is left it lies beyond the
\* frame, and the call fails whatever its value, since *len is then -1.
dn_check_idf(m, p, len, max) ==
  IF len - 1 < 0 \/ m[p] > max \/ m[p] > len - 1
  THEN [ok |-> FALSE, p |-> p, len |-> len - 1, last |-> p]
  ELSE [ok |-> TRUE, p |-> p + 1 + m[p], len |-> len - 1 - m[p], last |-> p]

\* The calls of dn_check_idf in a row, each with its maximum, stopping at
\* the first failure; last is the furthest index any of them read.
RECURSIVE CheckIdfs(_, _, _, _, _)
CheckIdfs(m, p, len, maxes, last) ==
  IF maxes = <<>> THEN [ok |-> TRUE, p |-> p, len |-> len, last |-> last]
  ELSE LET r == dn_check_idf(m, p, len, Head(maxes))
       IN  IF r.ok THEN CheckIdfs(m, r.p, r.len, Tail(maxes), r.last)
           ELSE r

\* dn_find_listener up to the listener lookup: the failure ordinal (err,
\* -1 on success), the destination object, and the last index read.  The
\* header fields are read (lines 250-254) before pskb_may_pull checks
\* that there is a header.
dn_find_listener(m) ==
  LET Fail(e, last) == [err |-> e, dst |-> NoDst, last |-> last]
      len1 == Len(m) - NSP_HDR
      d    == Username(m, NSP_HDR + 1, len1)
      p2   == NSP_HDR + 1 + d.size
      s    == Username(m, p2, len1 - d.size)
      p3   == p2 + s.size
      len3 == len1 - d.size - s.size
      menuver == m[p3]
      acc  == CheckIdfs(m, p3 + 1, len3 - 1, <<39, 39, 39>>, p3)
      usr  == IF (menuver & DN_MENUVER_ACC) # 0 THEN acc
              ELSE [ok |-> TRUE, p |-> p3 + 1, len |-> len3 - 1, last |-> p3]
      ud   == CheckIdfs(m, usr.p, usr.len, <<16>>, usr.last)
  IN  IF Len(m) < NSP_HDR THEN Fail(0, NSP_HDR)
      ELSE IF d.size < 0 THEN Fail(1, d.last)
      ELSE IF d.fmt > 1 THEN Fail(2, d.last)
      ELSE IF s.size < 0 THEN Fail(3, s.last)
      ELSE IF len3 < 1 THEN Fail(4, s.last)
      ELSE IF (menuver & (DN_MENUVER_ACC + DN_MENUVER_USR)) # 0 /\ len3 - 1 < 1
           THEN Fail(5, p3)
      ELSE IF (menuver & DN_MENUVER_ACC) # 0 /\ ~acc.ok THEN Fail(6, acc.last)
      ELSE IF (menuver & DN_MENUVER_USR) # 0 /\ ~ud.ok THEN Fail(7, ud.last)
      ELSE [err |-> -1, dst |-> d.obj,
            last |-> IF (menuver & DN_MENUVER_USR) # 0 THEN ud.last ELSE usr.last]

(***************************************************************************)
(* dn_nsp_rx_packet, as far as the listener side is concerned.             *)
(***************************************************************************)

IsCI(fl) == (fl & 12) = 8 /\ (fl & 112) \in {16, 96}

\* Where dn_nsp_rx_packet sends a frame of at least two bytes: dropped
\* (reserved bits, NOP and reserved control types, returned frames other
\* than connect-inits, frames too short for a destination port), the
\* returned-CI path, the listener path, or the lookup by port.
RxClass(f) ==
  CASE (f.flags & 131) # 0                                    -> "drop"
    [] (f.flags & 12) = 8 /\ (f.flags & 112) \in {0, 80, 112} -> "drop"
    [] IsCI(f.flags) /\ f.rts                                 -> "returned"
    [] IsCI(f.flags)                                          -> "listener"
    [] f.rts                                                  -> "drop"
    [] Len(f.msg) < 3                                         -> "drop"
    [] OTHER                                                  -> "lookup"

\* Mutant: a disconnect goes back even with reason 0.
dn_nsp_no_socket_anyreason(f, reason) ==
  IF f.rts \/ (f.flags & 12) # 8 THEN None
  ELSE CASE (f.flags & 112) \in {16, 96} -> [type |-> "DI", reason |-> reason]
         [] (f.flags & 112) = 32         -> [type |-> "DC", reason |-> reason]
         [] OTHER                        -> None

\* dn_nsp_no_socket: a disconnect goes back only for a (retransmitted)
\* connect-init or a connect-confirm, and only with a non-zero reason.
dn_nsp_no_socket(f, reason) ==
  IF f.rts \/ reason = "OK" \/ (f.flags & 12) # 8 THEN None
  ELSE CASE (f.flags & 112) \in {16, 96} -> [type |-> "DI", reason |-> reason]
         [] (f.flags & 112) = 32         -> [type |-> "DC", reason |-> reason]
         [] OTHER                        -> None

\* sk_acceptq_is_full (include/net/sock.h, not in this repository):
\* sk_ack_backlog > sk_max_ack_backlog.  The test is strict, so the queue
\* admits one connect-init beyond the backlog before it drops.
sk_acceptq_is_full(q) == Len(q) > MaxBacklog

\* Mutant: a full queue makes room by dropping its oldest entry.
dn_nsp_conn_init_evict(q, dst) ==
  IF sk_acceptq_is_full(q) THEN Append(Tail(q), dst) ELSE Append(q, dst)

\* Mutant: the test of a full queue is left out.
dn_nsp_conn_init_nofull(q, dst) == Append(q, dst)

\* dn_nsp_conn_init: the listener's accept queue takes the connect-init
\* unless it is full (line 339), and then counts it (sk_acceptq_added).
dn_nsp_conn_init(q, dst) ==
  IF sk_acceptq_is_full(q) THEN q ELSE Append(q, dst)

(***************************************************************************)
(* Actions.                                                                *)
(***************************************************************************)

\* A connect-init on the listener path.  A failed validation leaves the
\* reason of its ordinal; a valid one that names no listener keeps the
\* NSP_REASON_NL set at line 764.
RxConnInit(f) ==
  LET r == dn_find_listener(f.msg)
  IN  /\ RxClass(f) = "listener"
      /\ IF r.err < 0 /\ r.dst \in Listeners
         THEN /\ acceptq' = dn_nsp_conn_init(acceptq, r.dst)
              /\ reply' = None
         ELSE /\ reply' = dn_nsp_no_socket(f, IF r.err >= 0 THEN ci_err_table[r.err + 1]
                                                             ELSE "NL")
              /\ UNCHANGED acceptq
      /\ lastin' = f

\* Any other frame: dropped by the classifier, handed on to the returned-CI
\* or socket path (modelled in NSPRx), or answered when no socket has it.
RxOther(f) ==
  /\ RxClass(f) # "listener"
  /\ reply' = IF RxClass(f) = "lookup" /\ ~f.sock
              THEN dn_nsp_no_socket(f, "NL") ELSE None
  /\ lastin' = f
  /\ UNCHANGED acceptq

\* The application accepts the oldest queued connection (af_decnet.c).
Accept ==
  /\ acceptq # <<>>
  /\ acceptq' = Tail(acceptq)
  /\ UNCHANGED <<reply, lastin>>

CIFlags == {24, 104}     \* 0x18 connect-init, 0x68 retransmitted connect-init

Frames ==
  [flags : CIFlags, rts : {FALSE}, msg : Sample, sock : {FALSE}]
  \cup [flags : FlagSet, rts : BOOLEAN, msg : {<<0, 0>>, <<0, 0, 0>>}, sock : BOOLEAN]

Init ==
  /\ acceptq = <<>>
  /\ reply = None
  /\ lastin = [flags |-> 0, rts |-> FALSE, msg |-> <<0, 0>>, sock |-> TRUE]

Next ==
  \/ \E f \in Frames : RxConnInit(f) \/ RxOther(f)
  \/ Accept

Spec == Init /\ [][Next]_vars

\* lastin is a history variable no action reads: states that differ only
\* in it have the same successors, and the properties about it are
\* properties of steps.
View == <<acceptq, reply>>

(***************************************************************************)
(* Properties.                                                             *)
(***************************************************************************)

\* Types; the accept queue never holds more than sk_max_ack_backlog + 1
\* connect-inits, since the full test at line 339 is made before each add.
TypeOK ==
  /\ acceptq \in Seq(Listeners) /\ Len(acceptq) <= MaxBacklog + 1
  /\ reply \in [type : {"none", "DI", "DC"}, reason : {"OK", "ID", "US", "IO", "NL"}]
  /\ lastin \in Frames

\* The validator of spec section 4.4, reading through a cursor that never
\* passes the end: bounded fields in order, each a length byte and at
\* most that many bytes, failing when the length exceeds the field's
\* maximum or what remains.  Returns the cursor after them, or -1.
RECURSIVE RefFields(_, _, _)
RefFields(m, p, maxes) ==
  IF maxes = <<>> THEN p
  ELSE IF p > Len(m) THEN -1
  ELSE IF m[p] > Head(maxes) \/ m[p] > Len(m) - p THEN -1
  ELSE RefFields(m, p + 1 + m[p], Tail(maxes))

\* The failure ordinal spec section 4.4 assigns to a message, in the order
\* it lists them (-1: valid).
RefValidate(m) ==
  LET d  == Username(m, NSP_HDR + 1, Len(m) - NSP_HDR)
      p2 == NSP_HDR + 1 + d.size
      s  == Username(m, p2, Len(m) - p2 + 1)
      p3 == p2 + s.size
      mv == m[p3]
      pu == IF (mv & DN_MENUVER_ACC) # 0 THEN RefFields(m, p3 + 1, <<39, 39, 39>>)
                                         ELSE p3 + 1
  IN  CASE Len(m) < NSP_HDR                          -> 0
        [] d.size < 0                                -> 1
        [] d.fmt > 1                                 -> 2
        [] s.size < 0                                -> 3
        [] p3 > Len(m)                               -> 4
        [] (mv & 3) # 0 /\ p3 + 1 > Len(m)           -> 5
        [] pu < 0                                    -> 6
        [] (mv & DN_MENUVER_USR) # 0 /\ RefFields(m, pu, <<16>>) < 0 -> 7
        [] OTHER                                     -> -1

\* On every connect-init it is handed, the validator of dn_find_listener
\* reaches the decision of spec section 4.4: the same failure ordinal,
\* hence the same reason code and reply.
ParseMatchesSpec ==
  [][dn_find_listener(lastin'.msg).err = RefValidate(lastin'.msg)]_vars

\* Every byte dn_find_listener and dn_check_idf read of a connect-init
\* lies inside the message (spec section 9: a cursor is never allowed past the end).
ReadsWithinFrame ==
  [][IsCI(lastin'.flags) => dn_find_listener(lastin'.msg).last <= Len(lastin'.msg)]_vars

\* The reply to each frame is the one spec sections 4.4, 4.7 and 7
\* prescribe: none to a malformed, reserved or returned frame; to a
\* connect-init that fails validation, a disconnect-initiate with the
\* reason of its failure unless that is "no reply"; "no link" when no
\* listener or socket has the frame; a disconnect-confirm only for a
\* connect-confirm.
SpecReply(f) ==
  LET ord == RefValidate(f.msg)
      dst == Username(f.msg, NSP_HDR + 1, Len(f.msg) - NSP_HDR).obj
      ciReason == IF ord >= 0 THEN ci_err_table[ord + 1]
                  ELSE IF dst \in Listeners THEN "OK" ELSE "NL"
  IN  CASE f.rts \/ RxClass(f) = "drop"         -> None
        [] IsCI(f.flags) /\ ciReason # "OK"    -> [type |-> "DI", reason |-> ciReason]
        [] (f.flags & 12) = 8 /\ (f.flags & 112) = 32 /\ ~f.sock
                                              -> [type |-> "DC", reason |-> "NL"]
        [] OTHER                              -> None

ReplyFollowsSpec == [][reply' = SpecReply(lastin')]_vars

\* The accept queue changes only in two ways: the application takes its
\* oldest entry, or a connect-init that passes the validation of spec
\* section 4.4 and names a listener is added at the end, the entries
\* already queued staying as they were (dn_nsp_conn_init drops the new
\* frame when the queue is full, never one already queued).
QueuedOnlyValid ==
  [][acceptq' # acceptq =>
       \/ acceptq # <<>> /\ acceptq' = Tail(acceptq)
       \/ /\ RefValidate(lastin'.msg) = -1
          /\ acceptq' = Append(acceptq, dn_find_listener(lastin'.msg).dst)]_vars

=============================================================================
