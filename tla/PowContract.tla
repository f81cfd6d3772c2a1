----------------------------- MODULE PowContract -----------------------------
(***************************************************************************)
(* What Event::new_with_pow (src/src/types/event.rs) promises its caller, *)
(* with no threads: in one step it returns the event whose tags are the   *)
(* caller's tags without their nonce tags, followed by one nonce tag with *)
(* the requested target and some nonce n, and whose id is the hash with   *)
(* that nonce. The nonce meets the target. The one exception is the       *)
(* panic path of the progress channel: when the caller's receiver may be  *)
(* dropped, the event may also carry the initial nonce 0, whether or not  *)
(* it meets the target (run miner_drop). When some nonce meets the target *)
(* the call returns.                                                      *)
(*                                                                         *)
(* Module Miner implements this specification (property PowContractSpec,  *)
(* theorem MinerRefinesContract in MinerProofs).                          *)
(***************************************************************************)
EXTENDS Pow

CONSTANTS MaxU, ZeroBits, Digests, PreTags, HasSender, ReceiverMayDrop

VARIABLES
  hashOf,  \* [Attempt -> Digests]: the hash of the event with each nonce
  pre,     \* the tags of the caller's PreEvent
  result   \* the returned event, NoEvent while the call runs

vars == <<hashOf, pre, result>>

Attempt == 0..MaxU

Target == <<DecStr(ZeroBits)>>

NoEvent == [id |-> <<>>, tags |-> <<>>]

\* The caller's tags without nonce tags, with the nonce tag "0" appended.
Prepared(p) == Append(StripNonces(p), NonceTag(DecStr(0), Target))

\* The appended nonce tag rewritten to carry nonce n.
WithNonce(t, n) == [t EXCEPT ![Len(t)] = NonceTag(DecStr(n), Target)]

\* The event signed with nonce n.
Mined(n) == [id |-> hashOf[n], tags |-> WithNonce(Prepared(pre), n)]

MeetsTarget(n) == LeadingZeroBits(hashOf[n]) >= ZeroBits

Init ==
  /\ hashOf \in [Attempt -> Digests]
  /\ pre \in PreTags
  /\ result = NoEvent

\* The call returns an event whose nonce meets the target.
MineHit ==
  /\ result = NoEvent
  /\ \E n \in Attempt : MeetsTarget(n) /\ result' = Mined(n)
  /\ UNCHANGED <<hashOf, pre>>

\* The call returns with the initial nonce after a dropped receiver.
MineAbandoned ==
  /\ HasSender /\ ReceiverMayDrop
  /\ result = NoEvent
  /\ result' = Mined(0)
  /\ UNCHANGED <<hashOf, pre>>

Next == MineHit \/ MineAbandoned

Spec == Init /\ [][Next]_vars /\ WF_vars(MineHit)
=============================================================================
