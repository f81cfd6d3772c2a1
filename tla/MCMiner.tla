------------------------------ MODULE MCMiner ------------------------------
(***************************************************************************)
(* Instantiation of Miner for TLC: two workers over a 2-bit attempt space  *)
(* (u64 scaled to 4 values, so each worker's range wraps within a run),   *)
(* 2-byte digests whose leading zero counts straddle the target 8, and    *)
(* PreEvents with no nonce tag, with a nonce tag declaring another         *)
(* target, and with a targetless nonce tag after another tag.              *)
(***************************************************************************)
EXTENDS Miner

MCCores == 2

MCMaxU == 3

MCZeroBits == 8

\* Leading zero bits 0, 1, 2, 8 and 15.
MCDigests == {<<255, 0>>, <<64, 0>>, <<32, 0>>, <<0, 128>>, <<0, 1>>}

\* For the refinement run: leading zero bits 0, 1 and 8.
MCContractDigests == {<<255, 0>>, <<64, 0>>, <<0, 128>>}

MCPreTags == {<<>>,
              <<NonceTag(DecStr(3), <<DecStr(2)>>)>>,
              <<OtherTag("p"), NonceTag(JunkStr, <<>>)>>}

\* The byte-wise count agrees with the big-endian reference on every
\* one-byte digest and on two- and three-byte digests over bytes at each
\* bit boundary.
Edge == {0, 1, 2, 3, 64, 127, 128, 255}

ASSUME LeadingZeroBitsMatchesReference ==
  /\ \A b \in Byte : LeadingZeroBits(<<b>>) = LeadingZeroBitsRef(<<b>>)
  /\ \A d \in [1..2 -> Edge] \cup [1..3 -> Edge] :
        LeadingZeroBits(d) = LeadingZeroBitsRef(d)
=============================================================================
