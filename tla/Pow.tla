-------------------------------- MODULE Pow --------------------------------
(***************************************************************************)
(* Proof-of-work arithmetic of an event (src/src/types/event.rs):          *)
(* get_leading_zero_bits, which counts the leading zero bits of an event   *)
(* id byte by byte, and Event::pow, which caps that count by the target    *)
(* declared in the event's first nonce tag.                                *)
(*                                                                         *)
(* A digest is a sequence of bytes (32 in the code, fewer in the runs).    *)
(* Strings are abstracted to what the code does with them: a nonce or      *)
(* target string is either the decimal rendering format!("{n}") of a       *)
(* number n, or a string str::parse rejects.                               *)
(***************************************************************************)
EXTENDS Naturals, Sequences

Byte == 0..255

\* The decimal string format!("{n}") writes for the number n.
DecStr(n) == [num |-> TRUE, val |-> n]

\* A string that is not a decimal number.
JunkStr == [num |-> FALSE, val |-> 0]

\* t.parse::<u8>().unwrap_or(0): a decimal string above 255 overflows the
\* u8 and is rejected like a non-number.
ParseU8(s) == IF s.num /\ s.val <= 255 THEN s.val ELSE 0

(***************************************************************************)
(* Tags as proof-of-work sees them: the nonce tag (tag.rs, Tag::Nonce)     *)
(* with its nonce string and optional target string (<<>> is None, <<s>>  *)
(* is Some(s)); every other tag only by its name.                          *)
(***************************************************************************)
NonceTag(n, t) == [v |-> "nonce", nonce |-> n, target |-> t]

OtherTag(nm) == [v |-> nm, nonce |-> JunkStr, target |-> <<>>]

IsNonce(t) == t.v = "nonce"

\* input.tags.retain(|t| !matches!(t, Tag::Nonce { .. })).
StripNonces(ts) == SelectSeq(ts, LAMBDA t : t.v # "nonce")

\* u8::leading_zeros: the number of zero bits above the highest set bit.
ByteLz(b) == IF b = 0 THEN 8
             ELSE CHOOSE k \in 0..7 : 2^(7 - k) <= b /\ b < 2^(8 - k)

\* get_leading_zero_bits: add 8 for every zero byte from the most
\* significant end and stop at the first nonzero byte, adding its leading
\* zeros. The accumulator is a u8, hence the reduction modulo 256 (reached
\* only by a digest of 32 zero bytes).
ZeroPrefix(d) == CHOOSE k \in 0..Len(d) :
                   /\ \A i \in 1..k : d[i] = 0
                   /\ k < Len(d) => d[k + 1] # 0

LeadingZeroBits(d) ==
  LET k == ZeroPrefix(d)
  IN  (8 * k + (IF k < Len(d) THEN ByteLz(d[k + 1]) ELSE 0)) % 256

MinOf(a, b) == IF a <= b THEN a ELSE b

\* The target Event::pow reads: that of the first nonce tag, 0 if there is
\* none, if it has no target, or if the target does not parse as a u8.
DeclaredTarget(tags) ==
  LET nt == SelectSeq(tags, IsNonce)
  IN  IF nt = <<>> \/ nt[1].target = <<>> THEN 0 ELSE ParseU8(nt[1].target[1])

\* Event::pow: the leading zero bits of the id, never more than declared.
Pow(tags, id) == MinOf(LeadingZeroBits(id), DeclaredTarget(tags))

(***************************************************************************)
(* Reference definition the byte-wise count is checked against: the       *)
(* number of leading zero bits of the digest read as one big-endian        *)
(* number, i.e. the largest k with value < 2^(8*Len(d) - k).               *)
(***************************************************************************)
BigEndian(d) ==
  LET v[i \in 0..Len(d)] == IF i = 0 THEN 0 ELSE 256 * v[i - 1] + d[i]
  IN  v[Len(d)]

LeadingZeroBitsRef(d) ==
  LET n == 8 * Len(d)
  IN  CHOOSE k \in 0..n : BigEndian(d) < 2^(n - k)
                          /\ (k = n \/ BigEndian(d) >= 2^(n - k - 1))

\* A second reference that needs no number wider than a byte, so that it
\* also applies to full 32-byte ids: the digest as its sequence of bits,
\* most significant first, and the length of its run of leading zeros.
BitsOf(d) == [i \in 1..8 * Len(d) |->
                (d[(i - 1) \div 8 + 1] \div 2^(7 - ((i - 1) % 8))) % 2]

LeadingZeroBitsOfBits(d) ==
  LET b == BitsOf(d)
  IN  CHOOSE k \in 0..Len(b) : /\ \A i \in 1..k : b[i] = 0
                               /\ k < Len(b) => b[k + 1] = 1
=============================================================================
