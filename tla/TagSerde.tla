------------------------------ MODULE TagSerde ------------------------------
(***************************************************************************)
(* The serde of a tag (src/src/types/tag.rs): Serialize for Tag,           *)
(* which writes a tag as a JSON array, and TagVisitor::visit_seq, which    *)
(* reads one back element by element, falling back to Tag::Other when a    *)
(* known tag name is followed by too few elements.                         *)
(*                                                                         *)
(* Strings are abstracted to what the code does with them. A string is     *)
(* the sequence of its ':'-separated segments (so format!("{}:{}:{}") is   *)
(* concatenation and a.split(':') is the identity); a segment is a word    *)
(* of the constant set Words. The typed fields are parsed by what their    *)
(* deserializers accept: a hex id or public key (Hex32), a hex signature  *)
(* (Hex64), a delegation condition string (CondWords), a Unixtime (a JSON  *)
(* number, not a string), an UncheckedUrl or a String (any string).       *)
(***************************************************************************)
EXTENDS Naturals, Sequences

CONSTANTS
  Words,        \* the segments strings are built from
  Hex32,        \* the words Id / PublicKeyHex deserialize
  Hex64,        \* the words SignatureHex deserializes
  CondWords,    \* the words DelegationConditions deserializes
  U32Parse,     \* str::parse::<u32>: the numeral words and their values
  U32Show       \* format!("{}") of an event kind number

\* A JSON array element: a string or a number.
StrElem(s) == [kind |-> "str", s |-> s]
NumElem(n) == [kind |-> "num", n |-> n]

\* The one-word string w, e.g. a tag name.
W(w) == <<w>>

\* The empty string "" has one empty segment.
EmptyStr == W("")

\* Tag names the visitor dispatches on.
SingleNames == {"content-warning", "t", "g", "subject", "title"}
KnownNames == SingleNames \cup {"a", "delegation", "e", "expiration", "p",
                                "r", "d", "nonce", "parameter"}
\* Tags of the form [name, string]: Tag::ContentWarning, Hashtag, Geohash,
\* Subject, Title, Identifier and Parameter.
StringTagNames == SingleNames \cup {"d", "parameter"}

(***************************************************************************)
(* Tags. Options are <<>> (None) or <<x>> (Some(x)).                       *)
(***************************************************************************)
AddressTag(k, pk, d, r) == [v |-> "a", kind |-> k, pubkey |-> pk, d |-> d,
                            relay |-> r]
DelegationTag(pk, c, s) == [v |-> "delegation", pubkey |-> pk, conds |-> c,
                            sig |-> s]
\* Tag::Event (id) and Tag::Pubkey (pubkey, petname as marker).
RefTag(nm, x, r, m) == [v |-> nm, ref |-> x, relay |-> r, marker |-> m]
ExpirationTag(t) == [v |-> "expiration", time |-> t]
ReferenceTag(u, m) == [v |-> "r", url |-> u, marker |-> m]
NonceTagOf(n, t) == [v |-> "nonce", nonce |-> n, target |-> t]
StringTag(nm, s) == [v |-> nm, s |-> s]
OtherTag(nm, data) == [v |-> "other", tag |-> nm, data |-> data]
EmptyTag == [v |-> "empty"]

NoTag == [v |-> "none"]

\* The field types of enum Tag: a String or UncheckedUrl is any string, an
\* Option<_> holds at most one, an Id or PublicKeyHex is one Hex32 word, a
\* SignatureHex one Hex64 word, DelegationConditions one CondWords word,
\* an EventKind one the kind numbering shows, and Vec<String> any strings.
Str == Seq(Words)
OptStr == {x \in Seq(Str) : Len(x) <= 1}
OneWord(S) == {x \in Seq(S) : Len(x) = 1}
TagType ==
  [v : {"a"}, kind : DOMAIN U32Show, pubkey : OneWord(Hex32), d : Str,
   relay : OptStr]
  \cup [v : StringTagNames, s : Str]
  \cup [v : {"delegation"}, pubkey : OneWord(Hex32), conds : OneWord(CondWords),
        sig : OneWord(Hex64)]
  \cup [v : {"e", "p"}, ref : OneWord(Hex32), relay : OptStr, marker : OptStr]
  \cup [v : {"expiration"}, time : Nat]
  \cup [v : {"r"}, url : Str, marker : OptStr]
  \cup [v : {"nonce"}, nonce : Str, target : OptStr]
  \cup [v : {"other"}, tag : Str, data : Seq(Str)]
  \cup {EmptyTag}

\* u32's Display followed by str::parse::<u32> gives the number back.
ASSUME U32ShowParses ==
  \A k \in DOMAIN U32Show : /\ U32Show[k] \in DOMAIN U32Parse
                            /\ U32Parse[U32Show[k]] = k

\* "" is a string, and split(':') of it is its one empty segment.
ASSUME EmptySegment == "" \in Words


Opt(x) == IF x = <<>> THEN <<>> ELSE <<StrElem(x[1])>>

-----------------------------------------------------------------------------
(* Serialize for Tag.                                                      *)

\* Tag::Address: ["a", "kind:pubkey:d", relay_url?].
EncodeAddress(t) ==
  <<StrElem(W("a")), StrElem(W(U32Show[t.kind]) \o t.pubkey \o t.d)>>
  \o Opt(t.relay)

\* Fault variant: the "" placeholder for a missing relay url is not written.
EncodeRefNoPlaceholder(t) ==
  <<StrElem(W(t.v)), StrElem(t.ref)>> \o Opt(t.relay) \o Opt(t.marker)

\* Tag::Event and Tag::Pubkey: [name, id, relay?, marker?], with "" in the
\* relay slot when only the marker (petname) is present.
EncodeRef(t) ==
  <<StrElem(W(t.v)), StrElem(t.ref)>>
  \o (IF t.relay = <<>> /\ t.marker # <<>> THEN <<StrElem(EmptyStr)>>
      ELSE Opt(t.relay))
  \o Opt(t.marker)

Serialize(t) ==
  CASE t.v = "a"             -> EncodeAddress(t)
    [] t.v \in {"e", "p"}    -> EncodeRef(t)
    [] t.v \in StringTagNames -> <<StrElem(W(t.v)), StrElem(t.s)>>
    [] t.v = "delegation"    -> <<StrElem(W("delegation")), StrElem(t.pubkey),
                                  StrElem(t.conds), StrElem(t.sig)>>
    [] t.v = "expiration"    -> <<StrElem(W("expiration")), NumElem(t.time)>>
    [] t.v = "r"             -> <<StrElem(W("r")), StrElem(t.url)>> \o Opt(t.marker)
    [] t.v = "nonce"         -> <<StrElem(W("nonce")), StrElem(t.nonce)>>
                                \o Opt(t.target)
    [] t.v = "other"         -> <<StrElem(t.tag)>>
                                \o [i \in 1..Len(t.data) |-> StrElem(t.data[i])]
    [] t.v = "empty"         -> <<>>
-----------------------------------------------------------------------------
(* TagVisitor::visit_seq. A result is Ok(tag) after reading `used`         *)
(* elements, or an Err a `?` propagated from a typed read.                 *)

Ok(t, used) == [ok |-> TRUE, tag |-> t, used |-> used]
Err == [ok |-> FALSE, tag |-> NoTag, used |-> 0]

IsStr(e) == e.kind = "str"
IsNum(e) == e.kind = "num"
IsWordIn(e, S) == IsStr(e) /\ Len(e.s) = 1 /\ e.s[1] \in S
IsHex32(e) == IsWordIn(e, Hex32)
IsHex64(e) == IsWordIn(e, Hex64)
IsConds(e) == IsWordIn(e, CondWords)

\* Whether element e deserializes as the type ty.
Accepts(e, ty) ==
  CASE ty = "str"   -> IsStr(e)
    [] ty = "num"   -> IsNum(e)
    [] ty = "hex32" -> IsHex32(e)
    [] ty = "hex64" -> IsHex64(e)
    [] ty = "conds" -> IsConds(e)

\* let x = match seq.next_element()? { Some(x) => x, None => return
\* Ok(Tag::Other { tag, data: seen }) }: the i-th element is required.
Need(A, i, ty, nm, seen, then) ==
  IF i > Len(A) THEN Ok(OtherTag(W(nm), seen), i - 1)
  ELSE IF ~Accepts(A[i], ty) THEN Err
  ELSE then

\* let x: Option<String> = seq.next_element()?: an optional string; past
\* the end of the array every further read is None.
OptOk(A, i) == i > Len(A) \/ IsStr(A[i])
OptVal(A, i) == IF i > Len(A) THEN <<>> ELSE <<A[i].s>>

\* Fault variant: the fallback drops the relay url already read.
DecodeAddressNoUrl(A) ==
  Need(A, 2, "str", "a", <<>>,
    LET a == A[2].s
    IN  IF ~OptOk(A, 3) THEN Err
        ELSE IF Len(a) # 3 \/ a[1] \notin DOMAIN U32Parse \/ a[2] \notin Hex32
        THEN Ok(OtherTag(W("a"), <<a>>), 2 + Len(OptVal(A, 3)))
        ELSE Ok(AddressTag(U32Parse[a[1]], W(a[2]), W(a[3]), OptVal(A, 3)),
                2 + Len(OptVal(A, 3))))

\* "a": split "kind:pubkey:d" on ':'; three parts, a u32 kind and a hex
\* public key, or Tag::Other with the strings read so far (failvec).
DecodeAddress(A) ==
  Need(A, 2, "str", "a", <<>>,
    LET a == A[2].s
        relay == OptVal(A, 3)
    IN  IF ~OptOk(A, 3) THEN Err
        ELSE IF Len(a) # 3 \/ a[1] \notin DOMAIN U32Parse \/ a[2] \notin Hex32
        THEN Ok(OtherTag(W("a"), <<a>> \o relay), 2 + Len(relay))
        ELSE Ok(AddressTag(U32Parse[a[1]], W(a[2]), W(a[3]), relay),
                2 + Len(relay)))

\* "content-warning", "t", "g", "subject", "title": one required string.
DecodeStringTag(A, nm) ==
  Need(A, 2, "str", nm, <<>>, Ok(StringTag(nm, A[2].s), 2))

DecodeHashtag(A) == DecodeStringTag(A, "t")
DecodeGeohash(A) == DecodeStringTag(A, "g")
DecodeSubject(A) == DecodeStringTag(A, "subject")
DecodeTitle(A) == DecodeStringTag(A, "title")

\* "delegation": public key, conditions and signature, each required.
DecodeDelegation(A) ==
  Need(A, 2, "hex32", "delegation", <<>>,
    Need(A, 3, "conds", "delegation", <<A[2].s>>,
      Need(A, 4, "hex64", "delegation", <<A[2].s, A[3].s>>,
        Ok(DelegationTag(A[2].s, A[3].s, A[4].s), 4))))

\* "e" and "p": a required hex id or public key, then an optional relay
\* url and an optional marker (petname).
DecodeRef(A, nm) ==
  Need(A, 2, "hex32", nm, <<>>,
    IF OptOk(A, 3) /\ OptOk(A, 4)
    THEN Ok(RefTag(nm, A[2].s, OptVal(A, 3), OptVal(A, 4)),
            2 + Len(OptVal(A, 3)) + Len(OptVal(A, 4)))
    ELSE Err)

DecodePubkey(A) == DecodeRef(A, "p")

\* "expiration": a required Unixtime.
DecodeExpiration(A) ==
  Need(A, 2, "num", "expiration", <<>>, Ok(ExpirationTag(A[2].n), 2))

\* "r": a required url and an optional marker.
DecodeReference(A) ==
  Need(A, 2, "str", "r", <<>>,
    IF OptOk(A, 3) THEN Ok(ReferenceTag(A[2].s, OptVal(A, 3)),
                           2 + Len(OptVal(A, 3)))
    ELSE Err)

\* "nonce": a required nonce and an optional target.
DecodeNonce(A) ==
  Need(A, 2, "str", "nonce", <<>>,
    IF OptOk(A, 3) THEN Ok(NonceTagOf(A[2].s, OptVal(A, 3)),
                           2 + Len(OptVal(A, 3)))
    ELSE Err)

\* "d" and "parameter": a missing value is the implicit empty string.
DecodeImplicit(A, nm) ==
  IF 2 > Len(A) THEN Ok(StringTag(nm, EmptyStr), 1)
  ELSE IF IsStr(A[2]) THEN Ok(StringTag(nm, A[2].s), 2)
  ELSE Err

DecodeParameter(A) == DecodeImplicit(A, "parameter")

\* Any other name: every further element, each a String, into Tag::Other.
DecodeOther(A) ==
  IF \A i \in 2..Len(A) : IsStr(A[i])
  THEN Ok(OtherTag(A[1].s, [i \in 1..Len(A) - 1 |-> A[i + 1].s]), Len(A))
  ELSE Err

Visit(A) ==
  IF A = <<>> THEN Ok(EmptyTag, 0)
  ELSE IF ~IsStr(A[1]) THEN Err
  ELSE
  CASE A[1].s = W("a")           -> DecodeAddress(A)
    [] A[1].s = W("content-warning") -> DecodeStringTag(A, "content-warning")
    [] A[1].s = W("delegation")  -> DecodeDelegation(A)
    [] A[1].s = W("e")           -> DecodeRef(A, "e")
    [] A[1].s = W("expiration")  -> DecodeExpiration(A)
    [] A[1].s = W("p")           -> DecodePubkey(A)
    [] A[1].s = W("t")           -> DecodeHashtag(A)
    [] A[1].s = W("r")           -> DecodeReference(A)
    [] A[1].s = W("g")           -> DecodeGeohash(A)
    [] A[1].s = W("d")           -> DecodeImplicit(A, "d")
    [] A[1].s = W("subject")     -> DecodeSubject(A)
    [] A[1].s = W("nonce")       -> DecodeNonce(A)
    [] A[1].s = W("parameter")   -> DecodeParameter(A)
    [] A[1].s = W("title")       -> DecodeTitle(A)
    [] OTHER                     -> DecodeOther(A)
-----------------------------------------------------------------------------
(* The tags an application can expect back.                                *)

\* The one ambiguity the wire format has by design: a marker (petname)
\* without a relay url is written after a "" placeholder, which reads back
\* as the relay url "".
Placeheld(t) ==
  IF t.v \in {"e", "p"} /\ t.relay = <<>> /\ t.marker # <<>>
  THEN [t EXCEPT !.relay = <<EmptyStr>>] ELSE t

\* A tag the application may build and expect back: Tag::Other only for a
\* name no variant claims, and an Address identifier without ':'.
Canonical(t) ==
  /\ t.v = "other" => \A nm \in KnownNames : t.tag # W(nm)
  /\ t.v = "a" => Len(t.d) = 1
=============================================================================
