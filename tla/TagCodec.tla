------------------------------ MODULE TagCodec ------------------------------
(***************************************************************************)
(* A tag crossing the wire (src/src/types/tag.rs), over the serialization *)
(* and the visitor of module TagSerde: either the application's tag is    *)
(* serialized and read back, or an array received from elsewhere is read. *)
(***************************************************************************)
EXTENDS TagSerde

CONSTANTS
  TagUniverse,  \* the tags the runs encode
  WireUniverse  \* the received arrays the runs decode

\* The tags the application sends are values of enum Tag.
ASSUME TagUniverseTyped == TagUniverse \subseteq TagType

NoResult == [ok |-> FALSE, tag |-> NoTag, used |-> 0]

VARIABLES
  phase,  \* "typed": a tag to send; "wire": an array to read; "decoded"
  tag,    \* the tag serialized, NoTag for a received array
  wire,   \* the array on the wire
  back    \* what visit_seq returned

vars == <<phase, tag, wire, back>>

Init ==
  /\ back = NoResult
  /\ \/ /\ phase = "typed" /\ tag \in TagUniverse /\ wire = <<>>
     \/ /\ phase = "wire" /\ tag = NoTag /\ wire \in WireUniverse

\* serde_json::to_string(&tag).
Encode ==
  /\ phase = "typed"
  /\ wire' = Serialize(tag)
  /\ phase' = "wire"
  /\ UNCHANGED <<tag, back>>

\* serde_json::from_str::<Tag>(..): the visitor reads the array.
Decode ==
  /\ phase = "wire"
  /\ back' = Visit(wire)
  /\ phase' = "decoded"
  /\ UNCHANGED <<tag, wire>>

Next == Encode \/ Decode

Spec == Init /\ [][Next]_vars

\* What a run has done so far: an application tag was serialized onto the
\* wire, and a decoded wire is what visit_seq returned for it. This is the
\* inductive invariant the round-trip theorem rests on.
CodecInv ==
  /\ tag \in TagUniverse \cup {NoTag}
  /\ phase \in {"wire", "decoded"} /\ tag # NoTag => wire = Serialize(tag)
  /\ phase = "decoded" => back = Visit(wire)

-----------------------------------------------------------------------------
(* Properties.                                                             *)

\* Round trip (Serialize, then visit_seq): every canonical tag reads back
\* as itself, up to the relay placeholder, and the visitor consumes the
\* whole array, so serde_json accepts it.
RoundTripUpToPlaceholder ==
  phase = "decoded" /\ tag # NoTag /\ Canonical(tag)
    => back = Ok(Placeheld(tag), Len(wire))

\* The round trip the documentation states for every Tag variant: a tag
\* reads back exactly as it was written.
RoundTrip ==
  phase = "decoded" /\ tag # NoTag => back = Ok(tag, Len(wire))

\* Address tags round-trip: the identifier d survives "kind:pubkey:d".
AddressRoundTrip ==
  phase = "decoded" /\ tag # NoTag /\ tag.v = "a" => back = Ok(tag, Len(wire))

\* The decoder never fails on an array of strings: a known name followed
\* by too few or malformed elements degrades to Tag::Other.
NeverFails ==
  phase = "decoded" /\ (\A i \in 1..Len(wire) : IsStr(wire[i])) => back.ok

\* When visit_seq falls back to Tag::Other, the fallback carries exactly
\* the strings it read: serializing it gives back the array read so far,
\* so a received event's signed bytes are kept.
FallbackWireStable ==
  phase = "decoded" /\ back.ok /\ back.tag.v = "other"
    => Serialize(back.tag) = SubSeq(wire, 1, back.used)

\* A received array that decodes in full serializes back to itself, so
\* the id Event::verify recomputes from the decoded tags is that of the
\* bytes received.
WireStable ==
  phase = "decoded" /\ back.ok /\ back.used = Len(wire)
    => Serialize(back.tag) = wire
====
