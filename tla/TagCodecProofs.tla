---------------------------- MODULE TagCodecProofs ----------------------------
(***************************************************************************)
(* Proofs about a tag crossing the wire (module TagCodec): every canonical *)
(* tag the application serializes reads back as itself, from the round    *)
(* trip of TagSerdeProofs and the assumption that the tags sent are values *)
(* of enum Tag.                                                            *)
(***************************************************************************)
EXTENDS TagCodec, TagSerdeProofs

\* Every initial state satisfies CodecInv.
LEMMA InitCodecInv == Init => CodecInv
BY DEF Init, CodecInv

\* serde_json::to_string and from_str, and stuttering, keep CodecInv.
LEMMA NextCodecInv == CodecInv /\ [Next]_vars => CodecInv'
<1> SUFFICES ASSUME CodecInv, [Next]_vars PROVE CodecInv'
  OBVIOUS
<1>1. CASE Encode
  BY <1>1 DEF Encode, CodecInv
<1>2. CASE Decode
  BY <1>2 DEF Decode, CodecInv
<1>3. CASE UNCHANGED vars
  BY <1>3 DEF vars, CodecInv
<1>4. QED
  BY <1>1, <1>2, <1>3 DEF Next

\* Under CodecInv a decoded canonical tag is its own round trip.
LEMMA CodecInvRoundTrip == CodecInv => RoundTripUpToPlaceholder
<1> SUFFICES ASSUME CodecInv, phase = "decoded", tag # NoTag, Canonical(tag)
             PROVE  back = Ok(Placeheld(tag), Len(wire))
  BY DEF RoundTripUpToPlaceholder
<1>1. tag \in TagType
  BY TagUniverseTyped DEF CodecInv
<1>2. wire = Serialize(tag) /\ back = Visit(wire)
  BY DEF CodecInv
<1>3. QED
  BY <1>1, <1>2, SerializeVisit

\* The tag codec round-trips (RoundTripUpToPlaceholder): in every run, a
\* canonical tag the application serializes with Serialize for Tag and
\* reads back with TagVisitor::visit_seq comes back as itself, up to the
\* "" placeholder written for a petname without a relay url, and the whole
\* array is consumed.
THEOREM CodecRoundTrip == Spec => []RoundTripUpToPlaceholder
<1>1. Spec => []CodecInv
  BY InitCodecInv, NextCodecInv, PTL DEF Spec
<1>2. QED
  BY <1>1, CodecInvRoundTrip, PTL
====
