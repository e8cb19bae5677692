# TLA+ models of the DECnet NSP receive path

This directory holds the model-checking project for
`src/kernel/net/decnet/dn_nsp_in.c`. That file is the receive half of the
DECnet Network Services Protocol (NSP) in the Linux kernel. It is the only
source file of the repository. `spec.md` describes it.

## 1. The system and its parts

`dn_nsp_rx` hands every NSP frame to `dn_nsp_rx_packet`. That function
classifies the frame by its flags byte and drops reserved patterns (`& 0x83`,
the NOP and reserved control types). It finds the socket in one of three
ways:
- through `dn_find_listener` for a connect-init;
- through `dn_check_returned_conn` for a returned connect-init;
- through `dn_find_by_skb` for everything else.

Then it resets `nsp_rxtshift` and `stamp` and passes the frame to
`sk_receive_skb`. That call runs `dn_nsp_backlog_rcv` either at once or later
from the socket backlog, in arrival order. A frame with no socket goes to
`dn_nsp_no_socket`.

`dn_nsp_backlog_rcv` dispatches:

| frame | handler |
|---|---|
| control `0x18/0x68` connect-init | `dn_nsp_conn_init` (listener accept queue) |
| control `0x28` connect-confirm | `dn_nsp_conn_conf` |
| control `0x38` disconnect-initiate | `dn_nsp_disc_init` |
| control `0x48` disconnect-confirm (also "no resources", "no link") | `dn_nsp_disc_conf` |
| `0x24` connect-ack | `dn_nsp_conn_ack` |
| any other frame | CC->RUN promotion, then `dn_process_ack` / `dn_ack` on up to two ack words |
| then, if data-class and RUN: `0x10` link service | `dn_nsp_linkservice` (flow control) |
| `0x30` other data | `dn_nsp_otherdata` |
| other data-class frames | `dn_nsp_data` |
| ack frames (`0x04`, `0x14`) | dropped after the ack processing |

The components and the state each one owns:

- **Sequence arithmetic** (`dn_after`, `seq_next`, `seq_add`, `sendack`).
  These are 12-bit modular comparisons. They live in `include/net/dn_nsp.h`,
  which is not in the repository, so they are modelled from spec §4.1/4.5.
- **Acknowledgment processor** (`dn_ack` 106-137, `dn_process_ack` 142-176).
  - State: `ackrcv_dat` and `ackrcv_oth`.
  - An ack word is read only with bit 15 set; bit 14 means "skip".
  - Frames of the other sub-channel flip bit 13 (`^= 0x2000`).
  - The cursor advances only if the new ack is `dn_after` the old one.
- **Connection state machine**.
  - Handlers: `conn_conf` 349-403, `conn_ack` 405-416, `disc_init` 418-481,
    `disc_conf` 487-531, `returned_conn_init` 717-728, and the CC promotion
    in `backlog_rcv` 935-938.
  - State: `scp->state`, the socket's state, error, shutdown flags and socket
    state, `addrrem`, the connect and disconnect optional data, the persist
    timer and its function, and `conntimer`.
- **Receive engines** (`dn_nsp_data` 674-710, `dn_nsp_otherdata` 645-672,
  `dn_queue_skb` 608-643).
  - State: `numdat_rcv`, `numoth_rcv`, the receive and other-receive queues,
    the local flow switch and the ack delay.
- **Flow control** (`dn_nsp_linkservice` 533-600).
  - State: `flowrem_sw`, `flowrem_dat` and `flowrem_oth`.
  - Link-service frames share `numoth_rcv` with other data.
- **Connect-request validator** (`dn_find_listener` 230-334, `dn_check_idf`
  187-201, `ci_err_table` 209-221) and the **listener queue**
  (`dn_nsp_conn_init` 337-347).
- **No-destination handler** (`dn_nsp_no_socket` 730-756).
- **Diagnostic logging** (`dn_log_martian` 87-99).

Concurrency is as follows:
- `dn_nsp_rx_packet` runs in softirq context, on any CPU, without the
  socket lock. Up to `sk_receive_skb` it reads `scp->state` and writes the
  route, `nsp_rxtshift` and `stamp` of a socket whose handlers may be
  running on another CPU.
- The handlers run under the socket lock, one frame at a time and in arrival
  order.
- The network between the peers may lose, duplicate and reorder frames.

The hard behaviours are these:
- duplicated and reordered segments on each sub-channel;
- stale acks;
- control frames arriving late, or in a state they were not written for;
- the 12-bit wrap;
- the reserved-bit and length checks;
- the admission failure of `dn_queue_skb`.

## 2. Modules

| module | models |
|---|---|
| `NSPSeq` | The sequence arithmetic as operators (spec-modelled). |
| `ReliableChannel` | The abstract promise of one sub-channel: the receiver's queue is always a prefix of what the peer sent. |
| `NSPRx` | The receive path of one connection against a modelled peer and network. |
| `MCNSPRx` | Model values for TLC: the malformed frames, the network bound and the view. |
| `NSPRxLive` | `NSPRx` composed with a peer that retransmits what is unacknowledged on both sub-channels, and the fairness for liveness. |
| `NSPStates` | The `scp->state` switches of `dn_nsp_disc_init` and `dn_nsp_disc_conf`, shared by `NSPRx` and `NSPRxRace`. |
| `NSPRxRace` | The unlocked part of `dn_nsp_rx_packet` (lines 838-881) on two CPUs, beside the disconnect handlers that run under `bh_lock_sock`. |
| `MCNSPRxRace` | Model values for TLC: two CPUs, two routes. |
| `NSPConnInit` | The listener side of `dn_nsp_rx_packet`: the flags filter, the connect-init validator, the accept queue and `dn_nsp_no_socket`. |
| `MCNSPConnInit` | Model values for TLC: sets of connect-init messages and flags bytes. |

How `NSPRx` corresponds to the code:

- **`conn`** is one record holding the `dn_scp` and socket fields the
  handlers touch. Each handler is a pure operator `conn -> conn` under the C
  function's name (`dn_ack`, `dn_process_ack`, `dn_nsp_conn_conf`,
  `dn_nsp_conn_ack`, `dn_nsp_disc_init`, `dn_nsp_disc_conf`,
  `dn_returned_conn_init`). `LsApply` is the body of the link-service switch.
  Early returns are the `IF ... THEN c` branches.
- **`rcvq` and `othq`** are `sk_receive_queue` and `other_receive_queue`,
  holding the payloads.
- **`out`** holds the replies the handlers send: data acks, other acks,
  disconnect-confirm, `dn_nsp_output`.
- **One action per branch of `dn_nsp_backlog_rcv`**:
  - `RxConnConf`, `RxConnAck`, `RxDiscInit`, `RxDiscConf` for the control
    frames;
  - `RxAckFrame` for ack frames;
  - `RxNotRunning` for data-class frames reaching a connection that is not in
    RUN;
  - `RxLinkService`, `RxOtherData` and `RxData` for the three data handlers;
  - `RxReturnedConnInit` for the returned-CI path of `dn_nsp_rx_packet`.

  Each action is the whole path: promotion, then ack processing, then the
  handler, then the reply it sends. `Receive(f)` takes a frame from `net`, or
  leaves a copy behind (duplication), and applies exactly one of these
  actions.
- **`dn_queue_skb`** is an operator of its three tests, in the code's order:
  the socket filter's error, then `-ENOMEM` when `sk_rmem_alloc` has reached
  `sk_rcvbuf`, then `-ENOBUFS` when `sk_rmem_schedule` fails, else 0. The
  tests read accounting that is outside this file, so each is a free choice.
  `QueueResults` is every result the function can return, and a handler
  queues the frame only on 0 (`\E r \in QueueResults`).
- **`dn_congested`** depends on the same accounting. It is a free boolean
  choice (`\E congested`).
- **The environment** is not code of this file:
  - `Peer*` actions: an honest peer that numbers its segments, carries
    cumulative acks of our traffic and opens or closes the connection.
  - `LocalSend`, `LocalClose` and `LocalUncongest`: the local side.
  - `Lose`: the network dropping a frame.
  - `Inject`: malformed frames from the constant `Malformed`.
- **`SeqBase`** is the first sequence number. It is set to 4094 so that the
  wrap 4095 -> 0 happens within two segments.

Left out on purpose:
- Segment-size and window overrides, which no property reads.
- Socket wake-ups and `sk_state_change`.
- Transmit-queue pruning (`dn_nsp_check_xmit_queue`, in `dn_nsp_out.c`).

How `NSPConnInit` corresponds to the code:

- **A frame** is a record: the flags byte, the returned-to-sender bit
  (`DN_RT_F_RTS`), the NSP message as a byte sequence whose first byte is
  the flags byte, and whether `dn_find_by_skb` finds a socket.
- **`dn_check_idf`, `dn_find_listener`, `ci_err_table`, `dn_nsp_no_socket`
  and `dn_nsp_conn_init`** are operators under the C names.
  - `dn_find_listener(m)` returns the failure ordinal `err` (-1 on success),
    the destination object, and `last`, the furthest index the code reads.
  - The chain of `err++` and `goto err_out` is an `IF` chain in the code's
    order.
  - `CheckIdfs` is the run of `dn_check_idf` calls, RECURSIVE over the field
    maxima `<<39, 39, 39>>` and `<<16>>`.
  - `dn_username2sockaddr` lives in `af_decnet.c`, outside the repository.
    `Username` is written from spec §4.4. Only format-0 (numbered) names
    carry an object; named listeners are not matched.
- **`RxClass`** is the filter at lines 766-812: the `0x83` drop, the NOP and
  reserved control types, the returned-CI path, the listener path, other
  returned frames, and the 3-byte pull before the port lookup.
- **Actions.** There is one action per path of `dn_nsp_rx_packet`:
  - `RxConnInit`: validate, then queue the connect-init on the listener or
    answer through `dn_nsp_no_socket`;
  - `RxOther`: every other frame, which is dropped, handed on, or answered
    when no socket has it;
  - `Accept`: the application taking the head of the accept queue.
- **State.**
  - `acceptq`: the accept queue, as the destination objects queued.
  - `reply`: the last disconnect sent by `dn_nsp_no_socket`.
  - `lastin`: a history variable holding the last frame handed in.
- **Properties about the frame.** They are action properties on `lastin'`.
  The view `<<acceptq, reply>>` leaves `lastin` out: no action reads it, so
  states that differ only in it have the same successors, while every frame
  is still enumerated as a step from every state.

How `NSPRxRace` corresponds to the code:

- **State.** Of the connection only `scp->state`, `sk_dst_cache` (`dst`) and
  `nsp_rxtshift` (`rxtshift`) are kept. `slock` is the CPU holding
  `bh_lock_sock`. `pc`, `frame` and `reg` belong to each CPU: where it is,
  the frame it is receiving, and the `nsp_rxtshift` value that
  `dn_nsp_persist` loaded.
- **Actions of one CPU, in the code's order:**
  - `Arrive`: `dn_find_by_skb` found the socket.
  - `RxCheckRoute` (842-853): the unlocked test of the route and of
    `scp->state == DN_RUN`.
  - `RxSetRoute` (854): `__sk_dst_set`.
  - `RxResetBackoff` (857-863): `nsp_rxtshift = 0`, and `stamp`, which no
    step here reads.
  - `RxLinearizeFail` (865-881): `skb_linearize` fails for a frame other
    than data, and the frame is dropped.
  - `RxHandle` (873): `sk_receive_skb` takes the lock and runs
    `dn_nsp_backlog_rcv`. A disconnect applies the `NSPStates` switch and
    enters `dn_nsp_persist` (lines 477, 527), which loads `nsp_rxtshift`.
  - `PersistStore` / `PersistAtMax`: the store of `if (nsp_rxtshift <
    NSP_MAXRXTSHIFT) nsp_rxtshift++`, then the unlock.
- **History.** `sinceRx` counts the `dn_nsp_persist` increments since the
  last reset.
- **Left out.** A user context holding the socket (`lock_sock`, and the
  backlog that `release_sock` drains) is left out. It runs the same handlers
  under the same exclusion, and it is not in this repository.

## 3. Runs

All runs use `MCNSPRx` with `CONSTRAINT NetBound` (at most `NetMax` frames in
flight) and `VIEW View`, which excludes the write-only reply set `out`.

| run | start | checks | result |
|---|---|---|---|
| `rx_data` | CC | `TypeOK`, `DataCursorCountsQueue`, `DataDeliveredInOrder` (refinement of `ReliableChannel` under `psent -> sent`, `rcvq -> delivered`), `AckCursorsMonotone` | pass, 49,774 states |
| `rx_other` | RUN | `OtherStateAgrees` (other queue, `numoth_rcv` and the three flow fields equal the fold of the peer's accepted items), `AckCursorsMonotone` | pass, 409,368 states |
| `rx_malformed` | CI, CC, DI, DR, RUN | `TerminalStable`: no frame, well-formed or not, leaves a terminal state; short and reserved-bit frames leave `OtherStateAgrees` and `DataDeliveredInOrder` intact | pass, 252,139 states |
| `rx_disc_in_cc` | CC | `NoRunAfterPeerDisconnect` | **violation** |
| `rx_optdata` | RUN | `OptionalDataWithinFrame` | **violation** |
| `rx_credit` | RUN | `CreditFollowsSpec` | **violation** |

`rx_live` uses `NSPRxLive` directly, with `LiveSpec`. It starts in CI
(our connect-init sent, nothing answered) or in RUN, with `AckDelayInit = 0`, `MaxData = 2`, `MaxOth = 1`, and no constraint or
view.

| run | checks | result |
|---|---|---|
| `rx_live` | `EverySegmentAcked`: each peer segment is eventually covered by a data ack, unless the connection is closing. `DataEventuallyDelivered`: each peer segment eventually reaches `rcvq`. `EveryOtherItemAcked`: each other-data or link-service item is eventually covered by an other-data ack. `ConnectEventuallyRuns`: once the peer has confirmed, our side reaches RUN, whatever the order, loss or duplication of the connect-ack and connect-confirm. | pass, 9,709 states, about 2 min |

`rx_race` uses `MCNSPRxRace`: two CPUs, two routes, start state RUN or CC,
`NSP_MAXRXTSHIFT = 2`, and at most three frames.

| run | checks | result |
|---|---|---|
| `rx_race` | `BackoffResetNotLost`: `nsp_rxtshift` never counts more `dn_nsp_persist` calls than were made since the last frame reset it | **violation** |
| `rx_route` | `RouteWrittenOnlyInRun`: no step writes `sk_dst_cache` unless the socket is in RUN | **violation** |

The `cinit_*` runs use `MCNSPConnInit` with `VIEW View`.

| run | frames | checks | result |
|---|---|---|---|
| `cinit_listen` | about 4,100 connect-inits: every accepted username shape followed by up to 5 bytes from {0,1,3,40}, every rejected shape followed by up to one byte, and one example of each failure kind; every flags byte 0-255, returned or not, with or without a socket | `TypeOK`; `ParseMatchesSpec` (`dn_find_listener` gives the failure ordinal of a cursor-checked reference validator, `RefValidate`); `ReplyFollowsSpec` (the reply is the one spec §4.4/4.7 prescribes); `QueuedOnlyValid` (the queue changes only by accept at its head or by a valid connect-init at its tail) | pass, 186 states |
| `cinit_hdr` | messages of 2-9 bytes | `ReadsWithinFrame` | **violation** |
| `cinit_field` | the message shapes of `cinit_listen` | `ReadsWithinFrame` | **violation** |

What the violations show:

1. **Disconnect-initiate in CC.** A peer sends data and then a DI, and the
   network delivers the DI first. `dn_nsp_disc_init` has no `DN_CC` case: the
   socket is closed, a disconnect-confirm is sent and the destroy timer is
   armed, but the state stays CC. The late data frame then takes the CC->RUN
   promotion, and the socket is `ESTABLISHED` again after the peer
   disconnected.
2. **Optional data off by one.** The check `dlen <= skb->len` counts the
   length byte, and the copy starts after that byte. A DI of length 3 whose
   length byte says 1 copies one byte from beyond the frame. The same code is
   at line 390, for the CC.
3. **Credit decrement.** Line 567 needs `flowrem_dat > -fcval`, so a request
   that would bring the credit exactly to 0 is ignored. Spec §4.6 allows any
   decrement that does not underflow.
4. **Connect-init header read before the length check.** `dn_find_listener`
   copies the ports, services, info and segment size (lines 250-254) before
   `pskb_may_pull(skb, sizeof(*msg))` at line 256. `dn_nsp_rx_packet` has
   pulled only 2 bytes, so a 2- to 8-byte connect-init is read past its end.
   The validation then fails with ordinal 0, which sends no reply.
5. **Field-length byte read past the end.** `dn_check_idf` reads the length
   byte (line 190) before it decrements and tests `*len`. Take a
   connect-init whose menuver asks for access data and whose first access
   field ends the message. The second call reads one byte past it, then
   fails because `*len` is -1.

   The validation result is still correct: `ParseMatchesSpec` passes. The
   defect is the read itself, which spec §9 rules out.
6. **Backoff reset lost.** `nsp_rxtshift` starts at 0 and three frames
   arrive. CPU 1 applies a DI under the lock, and its `dn_nsp_persist`
   raises the backoff to 1. CPU 2 takes the lock for a second DI, and
   `dn_nsp_persist` loads 1. Meanwhile CPU 1 receives a third frame and
   writes `nsp_rxtshift = 0` at line 858 without the lock. CPU 2 then
   stores 2. A frame was accepted after the last increment, yet the backoff
   is 2. Spec §3 (`retransmit_backoff`) says it is reset to zero whenever a
   frame is accepted from the peer.
7. **Route written outside RUN** (`rx_route`, 8 steps). CPU 2 tests
   `scp->state == DN_RUN` without the lock (line 853). CPU 1 then applies
   a DI under the lock, which moves the socket to DN. CPU 2 writes the new
   route into the closing socket (line 854). Spec §5 says the route cache
   is written only in the running state.

Spec §7 (c) says the data channel "does not ack an out-of-order
segment", but §4.5 prescribes an immediate ack for any segment that was
not both accepted and delayed, and §8 assumes the ack an out-of-order
receipt triggers. `dn_nsp_data` follows §4.5 (lines 702-706). The spec
contradicts itself here, so no run reports the code against §7 (c).
`rx_live` relies on the §4.5 behaviour.

Every property of a passing run has a mutant in `PROJECT.json`. Each mutant
is a plausible slip in the mapped code, and TLC finds the property violated
under the run's own configuration:
- the ack stored unmasked;
- the `dn_after` guard dropped;
- the cross-channel bit not flipped;
- the cursor advanced on a refused segment;
- a window of acceptance instead of the single next number;
- a duplicate link-service request applied again;
- the reserved-bit check dropped;
- the length check dropped;
- a connect-confirm accepted in any state;
- a returned CI closing any state;
- `dn_check_idf` refusing a field that fills exactly what is left;
- `dn_nsp_no_socket` replying with reason 0;
- the full-queue test left out;
- a full accept queue evicting its oldest entry;
- only queued data segments acknowledged, so a duplicate gets no ack;
- the cursor advanced on a refused segment (for liveness);
- the other-data sequence test made against the data cursor.

## 4. Bounds, deadlock and fairness

- **`MaxData = 2` and `MaxOth = 2`.** Two segments per sub-channel are enough
  to reorder and to duplicate one across the other, and they cross the wrap
  from `SeqBase = 4094`.
- **`LsChoices`.** It holds one request of each kind: +1 count, -1 count,
  stop, start, and +1 interrupt credit. `FlowInit = 1` makes the -1 request
  meet the zero edge.
- **`MaxLocal` and `MaxLocalOth`.** They give the peer one of our segments to
  acknowledge, so stale and fresh acks exist on both channels.
- **`NetMax = 3`.** Three frames in flight allow any two to be swapped while
  a duplicate is pending. The malformed run uses 2, because the injected
  frames widen the branching.

- **`NSPRxRace`: two CPUs, `MaxRx = 3`, `NSP_MAXRXTSHIFT = 2`.** Two CPUs
  are the least that can race. Three frames let one CPU hold the lock for a
  disconnect while the other receives a frame. A ceiling of 2 leaves room
  for a stale increment below it. The initial `nsp_rxtshift` ranges over
  0..2, as earlier timeouts leave it.

- **`MaxBacklog = 3` and `Listeners = {4, 5}`** (`cinit_listen`). Valid
  connect-inits for both objects fill the queue and meet the full-queue
  drop. `sk_acceptq_is_full` (include/net/sock.h, outside the repository)
  is `sk_ack_backlog > sk_max_ack_backlog`, so the queue holds four before
  it drops; the two objects let an eviction or a reordering be seen.
- **Message shapes** (`cinit_listen`). Five bytes after an accepted username
  reach every check: the menuver, three access fields and the user-data
  field. The byte values are the ones that matter to the checks:
  - 0 and 1 as field lengths;
  - 3, which sets both menuver bits and is longer than most remainders;
  - 40, over both maxima.
  Rejected username shapes are followed by at most one byte, since the
  code stops at them.

Deadlock checking is off (`CHECK_DEADLOCK FALSE`) because the modelled system
really does stop. The peer is bounded, and once the connection reaches a
terminal state (RJ, NR, NC, DN, DIC, CN, DRC) with an empty network, nothing
is enabled. The kernel then waits for the destroy timer, which is not in this
file.

The safety runs assume no fairness. `rx_live` assumes the following:

- **Weak fairness of `PeerRetransmitData`.** This is the peer's
  retransmission timer. While a segment is unacknowledged, the peer keeps
  sending its queue again, from the oldest unacknowledged segment.
- **Strong fairness of `ReceiveRetransmitted`.** A segment retransmitted
  again and again is not lost every time. The step is enabled only between
  a loss and the next retransmission, which is why the fairness is strong.
- **Strong fairness of `ReceiveProgress`.** `dn_queue_skb` does not refuse
  an in-sequence segment forever, because the application drains the
  receive buffer.

The same holds for the other sub-channel: weak fairness of
`PeerRetransmitOther`, and strong fairness of `ReceiveRetransmittedOther`
and `ReceiveProgressOther`. Each channel has its own conjuncts, so neither
channel can be starved by the other's progress.

For connection set-up: weak fairness of `PeerRetransmitConfirm` and strong
fairness of `ReceiveConfirm`. The accepting peer sits in CC and repeats its
confirm on its timer until a frame of ours reaches it. We send nothing
before RUN, so the repeat stays enabled while our side is in CI or CD.

In `NSPRxLive` the environment is cut down:
- the peer answers a connect-init with a connect-ack and a connect-confirm
  without connect data, and repeats the confirm;
- the peer sends and retransmits data, and one other item (an interrupt
  message or a +1 credit request, one for each of the two handlers);
- first transmissions carry no ack words: with no local traffic they would
  only repeat the initial cursors;
- the network loses and duplicates frames;
- the reader uncongests the socket.

The receive actions are those of `NSPRx`, unchanged.

`sendack` lives in include/net/dn_nsp.h, outside the repository, and is
written from spec §4.5 as the "even/periodic" rule. The property does not
rest on which segments that rule picks. It needs only some segment for
which `sendack` is false, and in the kernel that is any segment whose
sender set the delay bit. With `SeqBase = 4094` the peer may stop after an
even segment, so the last segment it sends is one the rule delays. Under
either predicate the only ack it can get is the one line 706 sends for its
duplicate.

The run is about scp->ackdelay = 0, where line 703 neither acks an even
segment nor arms the delayed ack. The ack of the retransmitted duplicate
then covers the segment. With the mutant that acks only queued segments,
TLC finds a peer whose only segment is never acknowledged.

For `ConnectEventuallyRuns` the mutant `dn_nsp_conn_conf_cionly` accepts a
confirm only in CI, as if line 364 left out DN_CD. TLC then finds a
connect-ack that moves us to CD (line 409), after which every repeated
confirm is dropped.

## 5. What is not modelled, and why

- **The owner side outside this file.** The retransmission timer and
  `sendmsg` also call `dn_nsp_persist` or touch the route. `NSPRxRace` races
  the unlocked writes only against the handlers of this file that increment
  `nsp_rxtshift`. `stamp` has no reader here.
- **The width of `flowrem_dat`** is declared in `include/net/dn.h`, which is
  not in the repository. So the unbounded add of a positive credit
  (line 572) is not checked for wrap-around.
- **Named listeners.** Listener matching by name
  (`dn_sklist_find_listener`, in `af_decnet.c`) is out of reach. Only
  numbered objects are matched.
- **Logging.** `dn_log_martian` only writes to the log.
- **Coverage.** The map covers all of this file's handlers. The lines left
  over are includes, comments, `dn_log_martian` and the `NF_HOOK` wrappers
  (`dn_nsp_rx`), which only pass the frame to the next function. Nothing
  more of the file can be modelled with a state change.
- **Code outside this repository.** The outbound path, the timers and routing
  are represented only by the environment actions and by `out`.

## 6. Plan for later work

1. `ReliableChannel` for the other sub-channel: a second refinement, mapping
   `poth` to `othq` through the OD filter.
2. Credit wrap-around at line 572, once the width of `flowrem_dat` is taken
   as a constant.
3. A larger live instance (`MaxOth = 2`). It passes, but takes about four
   minutes.
