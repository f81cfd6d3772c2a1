---------------------------- MODULE TagSerdeProofs ----------------------------
(***************************************************************************)
(* Proofs about the serde of a tag (module TagSerde): Serialize for Tag   *)
(* followed by TagVisitor::visit_seq gives back every canonical value of  *)
(* enum Tag, for every set of words, hex words, condition words and kind  *)
(* numbering, under the two assumptions TagSerde states (u32 numerals     *)
(* parse back, and "" is a string).                                       *)
(***************************************************************************)
EXTENDS TagSerde, TLAPS

\* The array elements that are strings.
StrElems == [kind : {"str"}, s : Str]

\* The length of a sequence is a natural number.
LEMMA LenInNat ==
  ASSUME NEW S, NEW x \in Seq(S)
  PROVE  Len(x) \in Nat
OBVIOUS

\* A natural number at most one is 0 or 1.
LEMMA NatAtMostOne ==
  ASSUME NEW n \in Nat, n <= 1
  PROVE  n = 0 \/ n = 1
BY SMT

\* A sequence of length at most one has length 0 or 1.
LEMMA ShortSeq ==
  ASSUME NEW S, NEW x \in Seq(S), Len(x) <= 1
  PROVE  Len(x) = 0 \/ Len(x) = 1
<1>1. Len(x) \in Nat
  BY LenInNat
<1>2. QED
  BY <1>1, NatAtMostOne, Zenon

\* A one-element tuple of a member of S is a sequence over S.
LEMMA OneSeq ==
  ASSUME NEW S, NEW w \in S
  PROVE  <<w>> \in Seq(S) /\ Len(<<w>>) = 1
OBVIOUS

\* A sequence of length one is the tuple of its element.
LEMMA OneElem ==
  ASSUME NEW S, NEW x \in Seq(S), Len(x) = 1
  PROVE  x = <<x[1]>> /\ x[1] \in S
OBVIOUS

\* The empty sequence is a sequence over any set.
LEMMA EmptySeq ==
  ASSUME NEW S
  PROVE  <<>> \in Seq(S)
OBVIOUS

\* Seq is monotonic in its element set.
LEMMA SeqMono ==
  ASSUME NEW S, NEW U, NEW x \in Seq(S)
  PROVE  x \in Seq(S \cup U) /\ x \in Seq(U \cup S)
OBVIOUS

\* Two sequences over S concatenate to a sequence over S.
LEMMA ConcatSeq ==
  ASSUME NEW S, NEW x \in Seq(S), NEW y \in Seq(S)
  PROVE  x \o y \in Seq(S)
OBVIOUS

\* Appending one element to a sequence.
LEMMA ConcatOne ==
  ASSUME NEW T, NEW P \in Seq(T), NEW e
  PROVE  /\ Len(P \o <<e>>) = Len(P) + 1
         /\ \A i \in 1..Len(P) : (P \o <<e>>)[i] = P[i]
         /\ (P \o <<e>>)[Len(P) + 1] = e
<1>1. P \o <<e>> \in Seq(T \cup {e})
  OBVIOUS
<1>2. QED
  BY <1>1

\* One element in front of a sequence.
LEMMA ConcatFront ==
  ASSUME NEW S, NEW e, NEW D \in Seq(S)
  PROVE  /\ Len(<<e>> \o D) = 1 + Len(D)
         /\ (<<e>> \o D)[1] = e
         /\ \A i \in 1..Len(D) : (<<e>> \o D)[i + 1] = D[i]
<1>1. <<e>> \in Seq(S \cup {e}) /\ D \in Seq(S \cup {e})
  OBVIOUS
<1>2. QED
  BY <1>1

\* A one-word string determines its word.
LEMMA WInjective ==
  ASSUME NEW x, NEW y
  PROVE  W(x) = W(y) <=> x = y
BY DEF W

\* An Option<String> is None or Some(y), written as no element or one.
LEMMA OptShape ==
  ASSUME NEW x \in OptStr
  PROVE  \/ x = <<>> /\ Opt(x) = <<>>
         \/ \E y \in Str : x = <<y>> /\ Opt(x) = <<StrElem(y)>>
<1>0. Len(x) = 0 \/ Len(x) = 1
  <2>1. x \in Seq(Str) /\ Len(x) <= 1
    BY DEF OptStr
  <2>2. QED
    BY <2>1, ShortSeq
<1>1. CASE Len(x) = 0
  BY <1>1 DEF OptStr, Opt
<1>2. CASE Len(x) = 1
  <2>1. x = <<x[1]>> /\ x[1] \in Str
    BY <1>2 DEF OptStr
  <2>2. QED
    BY <2>1, <1>2 DEF Opt
<1>3. QED
  BY <1>0, <1>1, <1>2

\* An optional string written after a prefix P is read back at the next
\* position, and every later optional read is None.
LEMMA OptAfter ==
  ASSUME NEW T, NEW P \in Seq(T), NEW x \in OptStr
  PROVE  /\ Len(P \o Opt(x)) = Len(P) + Len(x)
         /\ \A i \in 1..Len(P) : (P \o Opt(x))[i] = P[i]
         /\ OptOk(P \o Opt(x), Len(P) + 1)
         /\ OptVal(P \o Opt(x), Len(P) + 1) = x
         /\ OptOk(P \o Opt(x), Len(P) + 2)
         /\ OptVal(P \o Opt(x), Len(P) + 2) = <<>>
<1>1. CASE x = <<>> /\ Opt(x) = <<>>
  BY <1>1 DEF OptOk, OptVal
<1>2. CASE \E y \in Str : x = <<y>> /\ Opt(x) = <<StrElem(y)>>
  <2>1. PICK y \in Str : x = <<y>> /\ Opt(x) = <<StrElem(y)>>
    BY <1>2
  <2> DEFINE e == StrElem(y)
  <2>2. /\ Len(P \o <<e>>) = Len(P) + 1
        /\ \A i \in 1..Len(P) : (P \o <<e>>)[i] = P[i]
        /\ (P \o <<e>>)[Len(P) + 1] = e
    BY ConcatOne
  <2>3. Len(P) \in Nat /\ Len(x) = 1
    BY <2>1, LenInNat
  <2>4. P \o Opt(x) = P \o <<e>>
    BY <2>1
  <2>5. QED
    BY <2>1, <2>2, <2>3, <2>4 DEF OptOk, OptVal, StrElem, IsStr
<1>3. QED
  BY <1>1, <1>2, OptShape

\* An optional string written after a prefix over T gives a sequence of
\* T's elements and strings.
LEMMA OptAfterSeq ==
  ASSUME NEW T, NEW P \in Seq(T), NEW x \in OptStr
  PROVE  P \o Opt(x) \in Seq(T \cup StrElems)
<1>1. Opt(x) \in Seq(StrElems)
  <2>1. CASE x = <<>> /\ Opt(x) = <<>>
    BY <2>1, EmptySeq
  <2>2. CASE \E y \in Str : x = <<y>> /\ Opt(x) = <<StrElem(y)>>
    <3>1. PICK y \in Str : x = <<y>> /\ Opt(x) = <<StrElem(y)>>
      BY <2>2
    <3>2. StrElem(y) \in StrElems
      BY Zenon DEF StrElem, StrElems
    <3>3. QED
      BY <3>1, <3>2, OneSeq
  <2>3. QED
    BY <2>1, <2>2, OptShape
<1>2. P \in Seq(T \cup StrElems) /\ Opt(x) \in Seq(T \cup StrElems)
  BY <1>1, SeqMono
<1>3. QED
  BY <1>2, ConcatSeq

\* Serialize on a string tag writes [name, s].
LEMMA SerializeString ==
  ASSUME NEW t, t.v \in StringTagNames
  PROVE  Serialize(t) = <<StrElem(W(t.v)), StrElem(t.s)>>
BY Zenon DEF Serialize, StringTagNames, SingleNames

\* What Serialize writes for each of the other variants.
LEMMA SerializeCases ==
  ASSUME NEW t
  PROVE  /\ t.v = "a" => Serialize(t) = EncodeAddress(t)
         /\ t.v \in {"e", "p"} => Serialize(t) = EncodeRef(t)
         /\ t.v = "delegation" =>
              Serialize(t) = <<StrElem(W("delegation")), StrElem(t.pubkey),
                               StrElem(t.conds), StrElem(t.sig)>>
         /\ t.v = "expiration" =>
              Serialize(t) = <<StrElem(W("expiration")), NumElem(t.time)>>
         /\ t.v = "r" =>
              Serialize(t) = <<StrElem(W("r")), StrElem(t.url)>> \o Opt(t.marker)
         /\ t.v = "nonce" =>
              Serialize(t) = <<StrElem(W("nonce")), StrElem(t.nonce)>>
                             \o Opt(t.target)
         /\ t.v = "other" =>
              Serialize(t) = <<StrElem(t.tag)>>
                             \o [i \in 1..Len(t.data) |-> StrElem(t.data[i])]
         /\ t.v = "empty" => Serialize(t) = <<>>
<1>1. t.v = "a" => Serialize(t) = EncodeAddress(t)
  BY Zenon DEF Serialize, StringTagNames, SingleNames
<1>2. t.v \in {"e", "p"} => Serialize(t) = EncodeRef(t)
  BY Zenon DEF Serialize, StringTagNames, SingleNames
<1>3. t.v = "delegation" =>
        Serialize(t) = <<StrElem(W("delegation")), StrElem(t.pubkey),
                         StrElem(t.conds), StrElem(t.sig)>>
  BY Zenon DEF Serialize, StringTagNames, SingleNames
<1>4. t.v = "expiration" =>
        Serialize(t) = <<StrElem(W("expiration")), NumElem(t.time)>>
  BY Zenon DEF Serialize, StringTagNames, SingleNames
<1>5. t.v = "r" =>
        Serialize(t) = <<StrElem(W("r")), StrElem(t.url)>> \o Opt(t.marker)
  BY Zenon DEF Serialize, StringTagNames, SingleNames
<1>6. t.v = "nonce" =>
        Serialize(t) = <<StrElem(W("nonce")), StrElem(t.nonce)>> \o Opt(t.target)
  BY Zenon DEF Serialize, StringTagNames, SingleNames
<1>7. t.v = "other" =>
        Serialize(t) = <<StrElem(t.tag)>>
                       \o [i \in 1..Len(t.data) |-> StrElem(t.data[i])]
  BY Zenon DEF Serialize, StringTagNames, SingleNames
<1>8. t.v = "empty" => Serialize(t) = <<>>
  BY Zenon DEF Serialize, StringTagNames, SingleNames
<1>9. QED
  BY <1>1, <1>2, <1>3, <1>4, <1>5, <1>6, <1>7, <1>8

\* TagVisitor::visit_seq dispatches on the tag name, the first element.
LEMMA VisitDispatch ==
  ASSUME NEW A, A # <<>>, IsStr(A[1])
  PROVE  /\ A[1].s = W("a") => Visit(A) = DecodeAddress(A)
         /\ A[1].s = W("delegation") => Visit(A) = DecodeDelegation(A)
         /\ A[1].s = W("e") => Visit(A) = DecodeRef(A, "e")
         /\ A[1].s = W("p") => Visit(A) = DecodeRef(A, "p")
         /\ A[1].s = W("expiration") => Visit(A) = DecodeExpiration(A)
         /\ A[1].s = W("r") => Visit(A) = DecodeReference(A)
         /\ A[1].s = W("nonce") => Visit(A) = DecodeNonce(A)
         /\ \A nm \in SingleNames :
              A[1].s = W(nm) => Visit(A) = DecodeStringTag(A, nm)
         /\ \A nm \in {"d", "parameter"} :
              A[1].s = W(nm) => Visit(A) = DecodeImplicit(A, nm)
         /\ (\A nm \in KnownNames : A[1].s # W(nm))
              => Visit(A) = DecodeOther(A)
<1> USE WInjective
<1>1. A[1].s = W("a") => Visit(A) = DecodeAddress(A)
  BY Zenon DEF Visit
<1>2. A[1].s = W("delegation") => Visit(A) = DecodeDelegation(A)
  BY Zenon DEF Visit
<1>3. A[1].s = W("e") => Visit(A) = DecodeRef(A, "e")
  BY Zenon DEF Visit
<1>4. A[1].s = W("p") => Visit(A) = DecodeRef(A, "p")
  BY Zenon DEF Visit, DecodePubkey
<1>5. A[1].s = W("expiration") => Visit(A) = DecodeExpiration(A)
  BY Zenon DEF Visit
<1>6. A[1].s = W("r") => Visit(A) = DecodeReference(A)
  BY Zenon DEF Visit
<1>7. A[1].s = W("nonce") => Visit(A) = DecodeNonce(A)
  BY Zenon DEF Visit
<1>8. \A nm \in SingleNames :
        A[1].s = W(nm) => Visit(A) = DecodeStringTag(A, nm)
  BY Zenon DEF Visit, SingleNames, DecodeHashtag, DecodeGeohash,
               DecodeSubject, DecodeTitle
<1>9. \A nm \in {"d", "parameter"} :
        A[1].s = W(nm) => Visit(A) = DecodeImplicit(A, nm)
  BY Zenon DEF Visit, DecodeParameter
<1>10. (\A nm \in KnownNames : A[1].s # W(nm)) => Visit(A) = DecodeOther(A)
  BY Zenon DEF Visit, KnownNames, SingleNames
<1>11. QED
  BY <1>1, <1>2, <1>3, <1>4, <1>5, <1>6, <1>7, <1>8, <1>9, <1>10

\* A required element that is present and of its type is read.
LEMMA NeedRead ==
  ASSUME NEW A, NEW i, NEW ty, NEW nm, NEW seen, NEW then,
         ~(i > Len(A)), Accepts(A[i], ty)
  PROVE  Need(A, i, ty, nm, seen, then) = then
BY Zenon DEF Need

\* What each deserializer accepts.
LEMMA AcceptsTypes ==
  ASSUME NEW e
  PROVE  /\ Accepts(e, "str") <=> IsStr(e)
         /\ Accepts(e, "num") <=> IsNum(e)
         /\ Accepts(e, "hex32") <=> IsHex32(e)
         /\ Accepts(e, "hex64") <=> IsHex64(e)
         /\ Accepts(e, "conds") <=> IsConds(e)
BY Zenon DEF Accepts

\* Placeheld changes only an Event or Pubkey tag with a marker and no relay.
LEMMA PlaceheldOther ==
  ASSUME NEW t, t.v \notin {"e", "p"}
  PROVE  Placeheld(t) = t
BY DEF Placeheld

\* [name, s] for Tag::ContentWarning, Hashtag, Geohash, Subject, Title,
\* Identifier and Parameter reads back as itself.
LEMMA StringTagRoundTrip ==
  ASSUME NEW t \in TagType, t.v \in StringTagNames
  PROVE  Visit(Serialize(t)) = Ok(Placeheld(t), Len(Serialize(t)))
<1>1. t \in [v : StringTagNames, s : Str]
  BY DEF TagType, StringTagNames, SingleNames, EmptyTag
<1> DEFINE A == <<StrElem(W(t.v)), StrElem(t.s)>>
<1>2. Serialize(t) = A /\ Placeheld(t) = t
  BY <1>1, SerializeString, PlaceheldOther DEF StringTagNames, SingleNames
<1>3. /\ A # <<>> /\ IsStr(A[1]) /\ IsStr(A[2]) /\ Len(A) = 2
      /\ A[1].s = W(t.v) /\ A[2].s = t.s
  BY DEF StrElem, IsStr
<1>4. Ok(StringTag(t.v, A[2].s), 2) = Ok(t, Len(A))
  BY <1>1, <1>3 DEF StringTag
<1>5. CASE t.v \in SingleNames
  <2>1. Visit(A) = DecodeStringTag(A, t.v)
    BY <1>3, <1>5, VisitDispatch
  <2>2. DecodeStringTag(A, t.v) = Ok(StringTag(t.v, A[2].s), 2)
    BY <1>3, NeedRead, AcceptsTypes DEF DecodeStringTag
  <2>3. QED
    BY <1>2, <1>4, <2>1, <2>2
<1>6. CASE t.v \in {"d", "parameter"}
  <2>1. Visit(A) = DecodeImplicit(A, t.v)
    BY <1>3, <1>6, VisitDispatch
  <2>2. ~(2 > Len(A))
    BY <1>3
  <2>3. DecodeImplicit(A, t.v) = Ok(StringTag(t.v, A[2].s), 2)
    BY <1>3, <2>2, Zenon DEF DecodeImplicit
  <2>4. QED
    BY <1>2, <1>4, <2>1, <2>3
<1>7. QED
  BY <1>5, <1>6 DEF StringTagNames

\* Tag::Delegation reads back as itself.
LEMMA DelegationRoundTrip ==
  ASSUME NEW t \in TagType, t.v = "delegation"
  PROVE  Visit(Serialize(t)) = Ok(Placeheld(t), Len(Serialize(t)))
<1>1. t \in [v : {"delegation"}, pubkey : OneWord(Hex32),
             conds : OneWord(CondWords), sig : OneWord(Hex64)]
  BY DEF TagType, StringTagNames, SingleNames, EmptyTag
<1> DEFINE A == <<StrElem(W("delegation")), StrElem(t.pubkey),
                  StrElem(t.conds), StrElem(t.sig)>>
<1>2. Serialize(t) = A /\ Placeheld(t) = t
  BY SerializeCases, PlaceheldOther
<1>3. /\ A # <<>> /\ IsStr(A[1]) /\ A[1].s = W("delegation") /\ Len(A) = 4
      /\ IsHex32(A[2]) /\ IsConds(A[3]) /\ IsHex64(A[4])
      /\ ~(2 > Len(A)) /\ ~(3 > Len(A)) /\ ~(4 > Len(A))
  BY <1>1 DEF StrElem, IsStr, IsHex32, IsConds, IsHex64, IsWordIn, OneWord
<1>4. DelegationTag(A[2].s, A[3].s, A[4].s) = t
  BY <1>1 DEF DelegationTag, StrElem
<1>5. Visit(A) = DecodeDelegation(A)
  BY <1>3, VisitDispatch
<1>6. DecodeDelegation(A) = Ok(DelegationTag(A[2].s, A[3].s, A[4].s), 4)
  <2>1. Accepts(A[2], "hex32") /\ Accepts(A[3], "conds") /\ Accepts(A[4], "hex64")
    BY <1>3, AcceptsTypes
  <2>2. QED
    BY <1>3, <2>1 DEF DecodeDelegation, Need
<1>7. QED
  BY <1>2, <1>3, <1>4, <1>5, <1>6

\* Tag::Expiration reads back as itself.
LEMMA ExpirationRoundTrip ==
  ASSUME NEW t \in TagType, t.v = "expiration"
  PROVE  Visit(Serialize(t)) = Ok(Placeheld(t), Len(Serialize(t)))
<1>1. t \in [v : {"expiration"}, time : Nat]
  BY DEF TagType, StringTagNames, SingleNames, EmptyTag
<1> DEFINE A == <<StrElem(W("expiration")), NumElem(t.time)>>
<1>2. Serialize(t) = A /\ Placeheld(t) = t
  BY SerializeCases, PlaceheldOther
<1>3. /\ A # <<>> /\ IsStr(A[1]) /\ A[1].s = W("expiration") /\ Len(A) = 2
      /\ IsNum(A[2]) /\ ~(2 > Len(A)) /\ ExpirationTag(A[2].n) = t
  BY <1>1 DEF StrElem, NumElem, IsStr, IsNum, ExpirationTag
<1>4. Visit(A) = DecodeExpiration(A)
  BY <1>3, VisitDispatch
<1>5. DecodeExpiration(A) = Ok(ExpirationTag(A[2].n), 2)
  BY <1>3, AcceptsTypes DEF DecodeExpiration, Need
<1>6. QED
  BY <1>2, <1>3, <1>4, <1>5

\* Tag::Empty is the empty array, which reads back as Tag::Empty.
LEMMA EmptyRoundTrip ==
  ASSUME NEW t \in TagType, t.v = "empty"
  PROVE  Visit(Serialize(t)) = Ok(Placeheld(t), Len(Serialize(t)))
<1>1. t = EmptyTag
  BY DEF TagType, StringTagNames, SingleNames, EmptyTag
<1>2. Serialize(t) = <<>> /\ Placeheld(t) = t
  BY SerializeCases, PlaceheldOther
<1>3. Visit(<<>>) = Ok(EmptyTag, 0)
  BY DEF Visit
<1>4. QED
  BY <1>1, <1>2, <1>3

\* Tag::Reference reads back as itself.
LEMMA ReferenceRoundTrip ==
  ASSUME NEW t \in TagType, t.v = "r"
  PROVE  Visit(Serialize(t)) = Ok(Placeheld(t), Len(Serialize(t)))
<1>1. t \in [v : {"r"}, url : Str, marker : OptStr]
  BY DEF TagType, StringTagNames, SingleNames, EmptyTag
<1> DEFINE P == <<StrElem(W("r")), StrElem(t.url)>>
           A == P \o Opt(t.marker)
<1>2. Serialize(t) = A /\ Placeheld(t) = t
  BY SerializeCases, PlaceheldOther
<1>3. P \in Seq({P[1], P[2]}) /\ Len(P) = 2
  OBVIOUS
<1>4. /\ Len(A) = 2 + Len(t.marker)
      /\ A[1] = P[1] /\ A[2] = P[2]
      /\ OptOk(A, 3) /\ OptVal(A, 3) = t.marker
  <2>1. t.marker \in OptStr
    BY <1>1
  <2>2. /\ Len(A) = Len(P) + Len(t.marker)
        /\ \A i \in 1..Len(P) : A[i] = P[i]
        /\ OptOk(A, Len(P) + 1) /\ OptVal(A, Len(P) + 1) = t.marker
    BY <1>3, <2>1, OptAfter
  <2>3. QED
    BY <1>3, <2>2
<1>5. /\ A # <<>> /\ IsStr(A[1]) /\ A[1].s = W("r")
      /\ Accepts(A[2], "str") /\ ~(2 > Len(A))
  <2>1. Len(t.marker) \in Nat
    BY <1>1, LenInNat DEF OptStr
  <2>2. QED
    BY <1>4, <2>1, AcceptsTypes DEF StrElem, IsStr
<1>6. Visit(A) = DecodeReference(A)
  BY <1>5, VisitDispatch
<1>7. DecodeReference(A) = Ok(ReferenceTag(A[2].s, OptVal(A, 3)), 2 + Len(OptVal(A, 3)))
  BY <1>4, <1>5 DEF DecodeReference, Need
<1>8. ReferenceTag(A[2].s, OptVal(A, 3)) = t
  BY <1>1, <1>4 DEF ReferenceTag, StrElem
<1>9. QED
  BY <1>2, <1>4, <1>6, <1>7, <1>8

\* Tag::Nonce reads back as itself.
LEMMA NonceRoundTrip ==
  ASSUME NEW t \in TagType, t.v = "nonce"
  PROVE  Visit(Serialize(t)) = Ok(Placeheld(t), Len(Serialize(t)))
<1>1. t \in [v : {"nonce"}, nonce : Str, target : OptStr]
  BY DEF TagType, StringTagNames, SingleNames, EmptyTag
<1> DEFINE P == <<StrElem(W("nonce")), StrElem(t.nonce)>>
           A == P \o Opt(t.target)
<1>2. Serialize(t) = A /\ Placeheld(t) = t
  BY SerializeCases, PlaceheldOther
<1>3. P \in Seq({P[1], P[2]}) /\ Len(P) = 2
  OBVIOUS
<1>4. /\ Len(A) = 2 + Len(t.target)
      /\ A[1] = P[1] /\ A[2] = P[2]
      /\ OptOk(A, 3) /\ OptVal(A, 3) = t.target
  <2>1. t.target \in OptStr
    BY <1>1
  <2>2. /\ Len(A) = Len(P) + Len(t.target)
        /\ \A i \in 1..Len(P) : A[i] = P[i]
        /\ OptOk(A, Len(P) + 1) /\ OptVal(A, Len(P) + 1) = t.target
    BY <1>3, <2>1, OptAfter
  <2>3. QED
    BY <1>3, <2>2
<1>5. /\ A # <<>> /\ IsStr(A[1]) /\ A[1].s = W("nonce")
      /\ Accepts(A[2], "str") /\ ~(2 > Len(A))
  <2>1. Len(t.target) \in Nat
    BY <1>1, LenInNat DEF OptStr
  <2>2. QED
    BY <1>4, <2>1, AcceptsTypes DEF StrElem, IsStr
<1>6. Visit(A) = DecodeNonce(A)
  BY <1>5, VisitDispatch
<1>7. DecodeNonce(A) = Ok(NonceTagOf(A[2].s, OptVal(A, 3)), 2 + Len(OptVal(A, 3)))
  BY <1>4, <1>5 DEF DecodeNonce, Need
<1>8. NonceTagOf(A[2].s, OptVal(A, 3)) = t
  BY <1>1, <1>4 DEF NonceTagOf, StrElem
<1>9. QED
  BY <1>2, <1>4, <1>6, <1>7, <1>8

\* Tag::Event and Tag::Pubkey read back as themselves, except that a
\* marker (petname) without a relay url reads back with the relay url "".
LEMMA RefRoundTrip ==
  ASSUME NEW t \in TagType, t.v \in {"e", "p"}
  PROVE  Visit(Serialize(t)) = Ok(Placeheld(t), Len(Serialize(t)))
<1>1. t \in [v : {"e", "p"}, ref : OneWord(Hex32), relay : OptStr,
             marker : OptStr]
  BY DEF TagType, StringTagNames, SingleNames, EmptyTag
<1> DEFINE R == IF t.relay = <<>> /\ t.marker # <<>> THEN <<EmptyStr>>
                ELSE t.relay
           P == <<StrElem(W(t.v)), StrElem(t.ref)>>
           A == Serialize(t)
<1>2. /\ A = P \o Opt(R) \o Opt(t.marker)
      /\ Placeheld(t) = RefTag(t.v, t.ref, R, t.marker)
  <2>1. A = EncodeRef(t)
    BY SerializeCases
  <2>2. t = RefTag(t.v, t.ref, t.relay, t.marker)
    BY <1>1 DEF RefTag
  <2>3. Placeheld(t) = RefTag(t.v, t.ref, R, t.marker)
    BY <2>2, Zenon DEF Placeheld, RefTag
  <2>4. (IF t.relay = <<>> /\ t.marker # <<>> THEN <<StrElem(EmptyStr)>>
         ELSE Opt(t.relay)) = Opt(R)
    BY DEF Opt
  <2>5. QED
    BY <2>1, <2>3, <2>4 DEF EncodeRef
<1>3. R \in OptStr /\ t.marker \in OptStr
  <2>1. EmptyStr \in Str
    BY EmptySegment, OneSeq DEF EmptyStr, W, Str
  <2>2. <<EmptyStr>> \in OptStr
    BY <2>1 DEF OptStr
  <2>3. QED
    BY <1>1, <2>2
<1>4. ASSUME A[1] = P[1], A[2] = P[2], Len(A) >= 2
      PROVE  Visit(A) = DecodeRef(A, t.v)
  <2>1. A # <<>> /\ IsStr(A[1]) /\ A[1].s = W(t.v)
    BY <1>4 DEF StrElem, IsStr
  <2>2. QED
    BY <1>1, <2>1, VisitDispatch
<1>5. ASSUME A[1] = P[1], A[2] = P[2], ~(2 > Len(A))
      PROVE  DecodeRef(A, t.v)
               = IF OptOk(A, 3) /\ OptOk(A, 4)
                 THEN Ok(RefTag(t.v, t.ref, OptVal(A, 3), OptVal(A, 4)),
                         2 + Len(OptVal(A, 3)) + Len(OptVal(A, 4)))
                 ELSE Err
  <2>1. Accepts(A[2], "hex32")
    BY <1>1, <1>5, AcceptsTypes DEF StrElem, IsHex32, IsWordIn, IsStr, OneWord
  <2>2. A[2].s = t.ref
    BY <1>5 DEF StrElem
  <2>3. QED
    BY <1>5, <2>1, <2>2 DEF DecodeRef, Need
\* The array is P, then the relay slot, then the marker slot.
<1> DEFINE B == P \o Opt(R)
<1> DEFINE T0 == {P[1], P[2]}
           T1 == T0 \cup StrElems
<1>6. P \in Seq(T0) /\ Len(P) = 2
  OBVIOUS
<1>7. /\ Len(B) = Len(P) + Len(R)
      /\ \A i \in 1..Len(P) : B[i] = P[i]
      /\ OptOk(B, Len(P) + 1) /\ OptVal(B, Len(P) + 1) = R
  BY <1>3, <1>6, OptAfter
<1>8. B \in Seq(T1)
  BY <1>3, <1>6, OptAfterSeq
<1>9. A = B \o Opt(t.marker)
  BY <1>2
<1> HIDE DEF A, B, P, R, T0, T1
<1>10. /\ Len(B \o Opt(t.marker)) = Len(B) + Len(t.marker)
       /\ \A i \in 1..Len(B) : (B \o Opt(t.marker))[i] = B[i]
       /\ OptOk(B \o Opt(t.marker), Len(B) + 1)
       /\ OptVal(B \o Opt(t.marker), Len(B) + 1) = t.marker
  BY <1>3, <1>8, OptAfter
<1>11. Len(R) \in Nat /\ Len(t.marker) \in Nat
  BY <1>3, LenInNat DEF OptStr
<1>12. /\ Len(B) = 2 + Len(R) /\ B[1] = P[1] /\ B[2] = P[2]
       /\ OptOk(B, 3) /\ OptVal(B, 3) = R
  BY <1>6, <1>7
<1>13. /\ Len(A) = Len(B) + Len(t.marker)
       /\ \A i \in 1..Len(B) : A[i] = B[i]
       /\ OptOk(A, Len(B) + 1) /\ OptVal(A, Len(B) + 1) = t.marker
  BY <1>9, <1>10
<1>14. A[1] = P[1] /\ A[2] = P[2] /\ ~(2 > Len(A))
  <2>1. 1 \in 1..Len(B) /\ 2 \in 1..Len(B)
    BY <1>11, <1>12
  <2>2. A[1] = B[1] /\ A[2] = B[2]
    BY <1>13, <2>1
  <2>3. ~(2 > Len(A))
    <3>1. Len(B) >= 2
      BY <1>11, <1>12
    <3>2. Len(A) >= Len(B)
      BY <1>11, <1>13
    <3>3. Len(A) >= 2
      BY <3>1, <3>2
    <3>4. QED
      BY <3>3
  <2>4. QED
    BY <1>12, <2>2, <2>3
<1>15. Visit(A) = DecodeRef(A, t.v)
  BY <1>4, <1>14
<1>16. /\ OptOk(A, 3) /\ OptVal(A, 3) = R
       /\ OptOk(A, 4) /\ OptVal(A, 4) = t.marker
       /\ Len(A) = 2 + Len(R) + Len(t.marker)
  <2>1. CASE R = <<>>
    <3>1. t.marker = <<>>
      BY <2>1 DEF R
    <3>2. Len(R) = 0 /\ Len(t.marker) = 0
      BY <2>1, <3>1
    <3>3. Len(A) = 2
      BY <1>12, <1>13, <3>2
    <3>4. QED
      BY <2>1, <3>1, <3>3 DEF OptOk, OptVal
  <2>2. CASE R # <<>>
    <3>1. Len(R) = 1
      BY <1>3, <1>11, <2>2, ShortSeq DEF OptStr
    <3>2. Len(B) = 3 /\ Len(A) = 3 + Len(t.marker)
      BY <1>11, <1>12, <1>13, <3>1
    <3>3. A[3] = B[3] /\ 3 <= Len(A)
      BY <1>11, <1>13, <3>2
    <3>4. ~(3 > Len(A)) /\ ~(3 > Len(B))
      BY <3>2, <3>3
    <3>5. IsStr(B[3])
      BY <1>12, <3>4 DEF OptOk
    <3>6. OptOk(A, 3) /\ OptVal(A, 3) = OptVal(B, 3)
      BY <3>3, <3>4, <3>5 DEF OptOk, OptVal
    <3>7. QED
      BY <1>11, <1>12, <1>13, <3>1, <3>2, <3>6
  <2>3. QED
    BY <2>1, <2>2
<1>17. QED
  BY <1>2, <1>5, <1>14, <1>15, <1>16 DEF A

\* Tag::Other with a name no variant claims reads back as itself: the
\* visitor copies every further element into data.
LEMMA OtherRoundTrip ==
  ASSUME NEW t \in TagType, t.v = "other", Canonical(t)
  PROVE  Visit(Serialize(t)) = Ok(Placeheld(t), Len(Serialize(t)))
<1>1. t \in [v : {"other"}, tag : Str, data : Seq(Str)]
  BY DEF TagType, StringTagNames, SingleNames, EmptyTag
<1>2. \A nm \in KnownNames : t.tag # W(nm)
  BY DEF Canonical
<1> DEFINE D == [i \in 1..Len(t.data) |-> StrElem(t.data[i])]
           A == <<StrElem(t.tag)>> \o D
<1>3. Serialize(t) = A /\ Placeheld(t) = t
  BY SerializeCases, PlaceheldOther
<1>4. D \in Seq(StrElems) /\ Len(D) = Len(t.data)
  BY <1>1 DEF StrElem, StrElems
<1>5. /\ Len(A) = 1 + Len(t.data)
      /\ A[1] = StrElem(t.tag)
      /\ \A i \in 1..Len(t.data) : A[i + 1] = StrElem(t.data[i])
  BY <1>4, ConcatFront
<1>6. Len(t.data) \in Nat
  BY <1>1, LenInNat
<1> HIDE DEF A, D
<1>7. Visit(A) = DecodeOther(A)
  <2>1. A # <<>> /\ IsStr(A[1]) /\ A[1].s = t.tag
    BY <1>5, <1>6 DEF StrElem, IsStr
  <2>2. QED
    BY <1>2, <2>1, VisitDispatch
<1>8. \A i \in 2..Len(A) : IsStr(A[i])
  <2>1. SUFFICES ASSUME NEW i \in 2..Len(A) PROVE IsStr(A[i])
    OBVIOUS
  <2>2. i - 1 \in 1..Len(t.data) /\ i = (i - 1) + 1
    BY <1>5, <1>6
  <2>3. A[i] = StrElem(t.data[i - 1])
    BY <1>5, <2>2
  <2>4. QED
    BY <2>3 DEF StrElem, IsStr
<1>9. [i \in 1..Len(A) - 1 |-> A[i + 1].s] = t.data
  <2>1. Len(A) - 1 = Len(t.data)
    BY <1>5, <1>6
  <2>2. \A i \in 1..Len(t.data) : A[i + 1].s = t.data[i]
    <3>1. SUFFICES ASSUME NEW i \in 1..Len(t.data) PROVE A[i + 1].s = t.data[i]
      OBVIOUS
    <3>2. A[i + 1] = StrElem(t.data[i])
      BY <1>5
    <3>3. QED
      BY <3>2 DEF StrElem
  <2>3. t.data = [i \in 1..Len(t.data) |-> t.data[i]]
    BY <1>1
  <2>4. QED
    BY <2>1, <2>2, <2>3
<1>10. DecodeOther(A) = Ok(OtherTag(t.tag, t.data), Len(A))
  BY <1>5, <1>8, <1>9 DEF DecodeOther, StrElem
<1>11. OtherTag(t.tag, t.data) = t
  BY <1>1 DEF OtherTag
<1>12. QED
  BY <1>3, <1>7, <1>10, <1>11

\* Tag::Address with an identifier d without ':' reads back as itself:
\* "kind:pubkey:d" splits into three parts, the kind numeral parses back
\* to the kind and the public key is a hex word.
LEMMA AddressRoundTripLemma ==
  ASSUME NEW t \in TagType, t.v = "a", Canonical(t)
  PROVE  Visit(Serialize(t)) = Ok(Placeheld(t), Len(Serialize(t)))
<1>1. t \in [v : {"a"}, kind : DOMAIN U32Show, pubkey : OneWord(Hex32),
             d : Str, relay : OptStr]
  BY DEF TagType, StringTagNames, SingleNames, EmptyTag
<1> DEFINE k == t.kind
           sw == U32Show[k]
           h == t.pubkey[1]
           w == t.d[1]
<1>2. t.pubkey = <<h>> /\ h \in Hex32 /\ t.d = <<w>> /\ w \in Words
  <2>1. t.pubkey \in Seq(Hex32) /\ Len(t.pubkey) = 1
    BY <1>1 DEF OneWord
  <2>2. t.d \in Seq(Words) /\ Len(t.d) = 1
    BY <1>1 DEF Canonical, Str
  <2>3. QED
    BY <2>1, <2>2, OneElem
<1>3. sw \in DOMAIN U32Parse /\ U32Parse[sw] = k
  BY <1>1, U32ShowParses
<1> DEFINE a2 == W(sw) \o t.pubkey
           a == a2 \o t.d
<1>4. Len(a) = 3 /\ a[1] = sw /\ a[2] = h /\ a[3] = w
  <2>1. W(sw) \in Seq({sw}) /\ Len(W(sw)) = 1 /\ W(sw)[1] = sw
    BY OneSeq DEF W
  <2>2. /\ Len(W(sw) \o <<h>>) = Len(W(sw)) + 1
        /\ \A i \in 1..Len(W(sw)) : (W(sw) \o <<h>>)[i] = W(sw)[i]
        /\ (W(sw) \o <<h>>)[Len(W(sw)) + 1] = h
    BY <2>1, ConcatOne
  <2>3. a2 = W(sw) \o <<h>>
    BY <1>2
  <2>4. Len(a2) = 2 /\ a2[1] = sw /\ a2[2] = h
    BY <2>1, <2>2, <2>3
  <2>5. a2 \in Seq({sw} \cup Hex32)
    <3>1. W(sw) \in Seq({sw} \cup Hex32) /\ t.pubkey \in Seq({sw} \cup Hex32)
      BY <1>1, <2>1, SeqMono DEF OneWord
    <3>2. QED
      BY <3>1, ConcatSeq
  <2>6. /\ Len(a2 \o <<w>>) = Len(a2) + 1
        /\ \A i \in 1..Len(a2) : (a2 \o <<w>>)[i] = a2[i]
        /\ (a2 \o <<w>>)[Len(a2) + 1] = w
    BY <2>5, ConcatOne
  <2>7. a = a2 \o <<w>>
    BY <1>2
  <2> HIDE DEF a, a2
  <2>8. QED
    BY <2>4, <2>6, <2>7
<1> DEFINE P == <<StrElem(W("a")), StrElem(a)>>
           A == P \o Opt(t.relay)
<1>5. Serialize(t) = A /\ Placeheld(t) = t
  BY SerializeCases, PlaceheldOther DEF EncodeAddress
<1>6. P \in Seq({P[1], P[2]}) /\ Len(P) = 2
  OBVIOUS
<1>7. /\ Len(A) = Len(P) + Len(t.relay)
      /\ \A i \in 1..Len(P) : A[i] = P[i]
      /\ OptOk(A, Len(P) + 1) /\ OptVal(A, Len(P) + 1) = t.relay
  BY <1>1, <1>6, OptAfter
<1>8. Len(t.relay) \in Nat
  BY <1>1, LenInNat DEF OptStr
<1> HIDE DEF A, P, a, a2
<1>9. /\ A[1] = StrElem(W("a")) /\ A[2] = StrElem(a)
      /\ ~(2 > Len(A)) /\ Len(A) = 2 + Len(t.relay)
      /\ OptOk(A, 3) /\ OptVal(A, 3) = t.relay
  <2>1. P[1] = StrElem(W("a")) /\ P[2] = StrElem(a)
    BY DEF P
  <2>2. Len(A) = 2 + Len(t.relay)
    BY <1>6, <1>7
  <2>3. ~(2 > Len(A))
    BY <1>8, <2>2
  <2>4. QED
    BY <1>6, <1>7, <2>1, <2>2, <2>3
<1>10. Visit(A) = DecodeAddress(A)
  <2>1. A # <<>> /\ IsStr(A[1]) /\ A[1].s = W("a")
    BY <1>9 DEF StrElem, IsStr
  <2>2. QED
    BY <2>1, VisitDispatch
<1>11. DecodeAddress(A)
         = Ok(AddressTag(U32Parse[a[1]], W(a[2]), W(a[3]), t.relay),
              2 + Len(t.relay))
  <2>1. Accepts(A[2], "str") /\ A[2].s = a
    BY <1>9, AcceptsTypes DEF StrElem, IsStr
  <2>2. ~(Len(a) # 3 \/ a[1] \notin DOMAIN U32Parse \/ a[2] \notin Hex32)
    BY <1>2, <1>3, <1>4
  <2>3. QED
    BY <1>9, <2>1, <2>2 DEF DecodeAddress, Need
<1>12. AddressTag(U32Parse[a[1]], W(a[2]), W(a[3]), t.relay) = t
  <2>1. U32Parse[a[1]] = k /\ W(a[2]) = t.pubkey /\ W(a[3]) = t.d
    BY <1>2, <1>3, <1>4 DEF W
  <2>2. QED
    BY <1>1, <2>1 DEF AddressTag
<1>13. QED
  BY <1>5, <1>9, <1>10, <1>11, <1>12

\* The "" placeholder is invisible on the wire: a tag and its placeheld
\* form serialize to the same array, so re-serializing a tag read back
\* gives the bytes that were signed.
LEMMA SerializePlaceheld ==
  ASSUME NEW t \in TagType
  PROVE  Serialize(Placeheld(t)) = Serialize(t)
<1>1. CASE t.v \in {"e", "p"} /\ t.relay = <<>> /\ t.marker # <<>>
  <2> DEFINE u == [t EXCEPT !.relay = <<EmptyStr>>]
  <2>1. Placeheld(t) = u
    BY <1>1 DEF Placeheld
  <2>2. u.v = t.v /\ u.ref = t.ref /\ u.marker = t.marker
        /\ u.relay = <<EmptyStr>>
    BY <1>1 DEF TagType
  <2>3. Serialize(u) = EncodeRef(u) /\ Serialize(t) = EncodeRef(t)
    BY <1>1, <2>2, SerializeCases
  <2>4. Opt(<<EmptyStr>>) = <<StrElem(EmptyStr)>>
    BY DEF Opt
  <2>5. EncodeRef(u) = EncodeRef(t)
    BY <1>1, <2>2, <2>4 DEF EncodeRef
  <2>6. QED
    BY <2>1, <2>3, <2>5
<1>2. CASE ~(t.v \in {"e", "p"} /\ t.relay = <<>> /\ t.marker # <<>>)
  BY <1>2 DEF Placeheld
<1>3. QED
  BY <1>1, <1>2

\* Serialize for Tag followed by TagVisitor::visit_seq: every canonical
\* value of enum Tag reads back as itself up to the relay placeholder, and
\* the visitor consumes the whole array.
LEMMA SerializeVisit ==
  ASSUME NEW t \in TagType, Canonical(t)
  PROVE  Visit(Serialize(t)) = Ok(Placeheld(t), Len(Serialize(t)))
<1>1. t.v \in {"a", "delegation", "e", "p", "expiration", "r", "nonce",
               "other", "empty"} \cup StringTagNames
  BY DEF TagType, EmptyTag
<1>2. QED
  BY <1>1, AddressRoundTripLemma, StringTagRoundTrip, DelegationRoundTrip,
     RefRoundTrip, ExpirationRoundTrip, ReferenceRoundTrip, NonceRoundTrip,
     OtherRoundTrip, EmptyRoundTrip
=============================================================================
