------------------------------- MODULE NSPSeq -------------------------------
(***************************************************************************)
(* The 12-bit NSP sequence-number arithmetic used by dn_nsp_in.c: dn_after, *)
(* seq_next, seq_add and sendack.  They live in include/net/dn_nsp.h,      *)
(* which is not part of this repository, so they are written from the      *)
(* spec (section 4.1 and 4.5).                                              *)
(***************************************************************************)
EXTENDS Integers

NSP_SG_MASK == 4095     \* low 12 bits of a sequence or ack word
SeqSpace    == 4096     \* numbers wrap modulo 2^12

\* Distance from b forward to a in the cyclic sequence space.
SeqDist(a, b) == ((a % SeqSpace) - (b % SeqSpace)) % SeqSpace

\* dn_after(a, b): a is strictly ahead of b, by less than half the space.
\* Both arguments are masked to 12 bits first.
dn_after(a, b) == SeqDist(a, b) \in 1..2047

\* seq_next(expected, n): only the single next value is accepted.
seq_next(expected, n) == (n % SeqSpace) = expected

\* seq_add(&n, 1): increment modulo 2^12.
seq_add(n) == (n + 1) % SeqSpace

\* sendack(seq): the data channel acknowledges at once on odd numbers and
\* may defer the acknowledgment of even ones (the "even/periodic" rule).
sendack(seg) == seg % 2 = 1

=============================================================================
