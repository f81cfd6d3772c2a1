---------------------------- MODULE EventIdProofs ----------------------------
(***************************************************************************)
(* Proofs about Event::new, Event::verify and the relay between them       *)
(* (module EventId), for every set of keys, relay keys, PreEvents, foreign *)
(* events and tampering choices, and every bound.                          *)
(***************************************************************************)
EXTENDS EventId, TagSerdeProofs

\* Event::new, and the constructors built on it, sign the id they return.
LEMMA NewEventSignsId ==
  ASSUME NEW pre, NEW k
  PROVE  /\ NewEvent(pre, k).sig = Sign(k, NewEvent(pre, k).id)
         /\ NewEvent(pre, k).sig.signer = k
         /\ NewEvent(pre, k).sig.digest = NewEvent(pre, k).id
BY DEF NewEvent, Sign

\* The wire form keeps the id, the author and the signature.
LEMMA WireKeepsSig ==
  ASSUME NEW e
  PROVE  /\ ToWire(e).sig = e.sig
         /\ FromWire(e).sig = e.sig
         /\ FromWire(e).id = e.id
         /\ FromWire(e).pubkey = e.pubkey
BY DEF ToWire, FromWire

\* Nothing is signed or sent in the initial state.
LEMMA InitSigInv == Init => SigInv
BY DEF Init, SigInv

\* Made(e) for an event whose signature signs its id.
LEMMA MadeSigInv ==
  ASSUME SigInv, NEW e, e.sig.digest = e.id, Made(e)
  PROVE  SigInv'
BY DEF Made, SigInv

\* Sending w keeps SigInv when w's signature is a relay key's or signs a
\* pair in signed'.
LEMMA SentSigInv ==
  ASSUME SigInv, NEW w, Sent(w), signed \subseteq signed',
         w.sig.signer \notin RelayKeys => <<w.sig.signer, w.sig.digest>> \in signed'
  PROVE  SigInv'
BY DEF Sent, SigInv

\* Every step (a clock tick, a constructor, publishing, the relay's
\* tampering, a foreign event re-published) keeps SigInv.
LEMMA NextSigInv == SigInv /\ [Next]_vars => SigInv'
<1> SUFFICES ASSUME SigInv, [Next]_vars PROVE SigInv'
  OBVIOUS
<1>1. CASE Tick
  BY <1>1 DEF Tick, SigInv
<1>2. CASE \E pre \in pres, k \in Keys :
             \/ New(pre, k)
             \/ \E md \in Metadatas : NewSetMetadata(pre, k, md)
  <2>1. SUFFICES ASSUME NEW pre, NEW k,
                        \/ New(pre, k)
                        \/ \E md \in Metadatas : NewSetMetadata(pre, k, md)
                 PROVE  SigInv'
    BY <1>2
  <2>2. CASE New(pre, k)
    BY <2>2, NewEventSignsId, MadeSigInv DEF New
  <2>3. CASE \E md \in Metadatas : NewSetMetadata(pre, k, md)
    BY <2>3, NewEventSignsId, MadeSigInv DEF NewSetMetadata, SetMetadataEvent
  <2>4. QED
    BY <2>1, <2>2, <2>3
<1>3. CASE \E k, rcpt \in Keys, ze \in ZapIds, msat \in Millisats,
              rs \in ZapRelays, m \in Messages :
             NewZapRequest(k, W(KeyHex[rcpt]), ze, msat, rs, <<Plain(m)>>)
  BY <1>3, NewEventSignsId, MadeSigInv DEF NewZapRequest, ZapRequestEvent
<1>4. CASE \E k, rcpt \in Keys, m \in Messages, iv \in Ivs :
             NewNip04(k, rcpt, m, iv)
  BY <1>4 DEF NewNip04, SigInv
<1>5. CASE \E e \in made : Publish(e)
  <2>1. PICK e \in made : Publish(e)
    BY <1>5
  <2>2. ToWire(e).sig = e.sig /\ signed' = signed
    BY <2>1, WireKeepsSig DEF Publish
  <2>3. QED
    BY <2>1, <2>2, SentSigInv DEF Publish, SigInv
<1>6. CASE \E w \in net : \E w2 \in Tampered(w) : Tamper(w, w2)
  <2>0. PICK w \in net : \E w2 \in Tampered(w) : Tamper(w, w2)
    BY <1>6
  <2>1. PICK w2 \in Tampered(w) : Tamper(w, w2)
    BY <2>0
  <2>2. signed' = signed
    BY <2>1 DEF Tamper
  <2>3. \/ w2.sig = w.sig
        \/ \E x \in net : w2.sig = x.sig
        \/ w2.sig.signer \in RelayKeys
    <3>1. CASE \E t \in AltTimes : w2 = [w EXCEPT !.created_at = t]
      BY <3>1
    <3>2. CASE \E x \in AltKinds : w2 = [w EXCEPT !.kind = x]
      BY <3>2
    <3>3. CASE \E c \in AltContents : w2 = [w EXCEPT !.content = c]
      BY <3>3
    <3>4. CASE \E g \in AltTags : w2 = [w EXCEPT !.tags = g]
      BY <3>4
    <3>5. CASE \E p \in Keys : w2 = [w EXCEPT !.pubkey = p]
      BY <3>5
    <3>6. CASE \E x \in net : w2 = [w EXCEPT !.id = x.id]
      BY <3>6
    <3>7. CASE \E x \in net : w2 = [w EXCEPT !.sig = x.sig]
      BY <3>7, <2>0 DEF SigInv
    <3>8. CASE \E r \in RelayKeys : w2 = [w EXCEPT !.sig = Sign(r, w.id)]
      BY <3>8, <2>0 DEF SigInv, Sign
    <3>9. QED
      BY <2>1, <3>1, <3>2, <3>3, <3>4, <3>5, <3>6, <3>7, <3>8 DEF Tampered
  <2>4. QED
    BY <2>1, <2>2, <2>3, SentSigInv DEF Tamper, SigInv
<1>7. CASE \E f \in ForeignEvents, k \in Keys : PublishForeign(f, k)
  <2>1. PICK f \in ForeignEvents, k \in Keys : PublishForeign(f, k)
    BY <1>7
  <2> DEFINE w == ForeignEvent(f, k)
  <2>2. /\ Sent(w)
        /\ signed' = signed \cup {<<k, w.id>>}
        /\ w.sig.signer = k /\ w.sig.digest = w.id
    BY <2>1 DEF PublishForeign, ForeignEvent, Sign
  <2>3. QED
    BY <2>2, SentSigInv
<1>8. CASE UNCHANGED vars
  BY <1>8 DEF vars, SigInv
<1>9. QED
  BY <1>1, <1>2, <1>3, <1>4, <1>5, <1>6, <1>7, <1>8 DEF Next

-----------------------------------------------------------------------------
(* An event Event::new made from a well-formed PreEvent crosses the wire.  *)

\* The tags of a well-formed PreEvent: serde_json writes each with
\* Serialize for Tag, TagVisitor reads every array to its end, and the tags
\* it reads serialize to the same arrays.
LEMMA TagsRoundTrip ==
  ASSUME NEW g, TagsCanonical(g)
  PROVE  /\ \A i \in DOMAIN TagsJson(g) :
              /\ Visit(TagsJson(g)[i]).ok
              /\ Visit(TagsJson(g)[i]).used = Len(TagsJson(g)[i])
         /\ TagsJson([i \in DOMAIN TagsJson(g) |-> Visit(TagsJson(g)[i]).tag])
              = TagsJson(g)
<1>1. DOMAIN TagsJson(g) = DOMAIN g
  BY DEF TagsJson
<1>2. ASSUME NEW i \in DOMAIN g
      PROVE  /\ g[i] \in TagType
             /\ TagsJson(g)[i] = Serialize(g[i])
             /\ Visit(TagsJson(g)[i]) = Ok(Placeheld(g[i]), Len(Serialize(g[i])))
  <2>1. g[i] \in TagType /\ Canonical(g[i])
    BY DEF TagsCanonical
  <2>2. TagsJson(g)[i] = Serialize(g[i])
    BY DEF TagsJson
  <2>3. QED
    BY <2>1, <2>2, SerializeVisit
<1>3. ASSUME NEW i \in DOMAIN g
      PROVE  Serialize(Visit(TagsJson(g)[i]).tag) = TagsJson(g)[i]
  <2>0. Visit(TagsJson(g)[i]) = Ok(Placeheld(g[i]), Len(Serialize(g[i])))
    BY <1>2
  <2>1. Visit(TagsJson(g)[i]).tag = Placeheld(g[i])
    BY <2>0 DEF Ok
  <2>2. Serialize(Placeheld(g[i])) = Serialize(g[i])
    BY <1>2, SerializePlaceheld
  <2>3. QED
    BY <1>2, <2>1, <2>2
<1>4. QED
  BY <1>1, <1>2, <1>3 DEF Ok, TagsJson

\* serde_json round trip of an event Event::new made from a well-formed
\* PreEvent: every tag array is read to its end, the fields other than the
\* tags are kept, and the event read back has the serialization it was
\* signed over.
LEMMA NewEventWire ==
  ASSUME NEW e, FromNew(e)
  PROVE  /\ Readable(ToWire(e))
         /\ Text(FromWire(ToWire(e))) = Text(e)
         /\ FromWire(ToWire(e)).id = e.id
         /\ FromWire(ToWire(e)).pubkey = e.pubkey
         /\ FromWire(ToWire(e)).sig = e.sig
         /\ FromWire(ToWire(e)).created_at = e.created_at
         /\ FromWire(ToWire(e)).kind = e.kind
         /\ FromWire(ToWire(e)).content = e.content
<1> DEFINE tg == e.tags
           w == ToWire(e)
           f == FromWire(w)
<1>1. DOMAIN e = {"id", "pubkey", "created_at", "kind", "tags", "content", "sig"}
  BY DEF FromNew, NewEvent
<1>2. TagsCanonical(tg)
  BY DEF FromNew, WellFormedPre, PreOf
<1>3. /\ w.tags = TagsJson(tg)
      /\ w.id = e.id /\ w.pubkey = e.pubkey /\ w.sig = e.sig
      /\ w.created_at = e.created_at /\ w.kind = e.kind /\ w.content = e.content
  BY <1>1 DEF ToWire
<1>4. Readable(w)
  <2>1. \A i \in DOMAIN TagsJson(tg) :
          /\ Visit(TagsJson(tg)[i]).ok
          /\ Visit(TagsJson(tg)[i]).used = Len(TagsJson(tg)[i])
    BY <1>2, TagsRoundTrip, Zenon
  <2>2. QED
    BY <1>3, <2>1 DEF Readable
<1>5. DOMAIN w = DOMAIN e
  BY Zenon DEF ToWire
<1>6. /\ f.tags = [i \in DOMAIN w.tags |-> Visit(w.tags[i]).tag]
      /\ f.id = e.id /\ f.pubkey = e.pubkey /\ f.sig = e.sig
      /\ f.created_at = e.created_at /\ f.kind = e.kind /\ f.content = e.content
  <2>1. f = [w EXCEPT !.tags = [i \in DOMAIN w.tags |-> Visit(w.tags[i]).tag]]
    BY DEF FromWire
  <2>2. "tags" \in DOMAIN w /\ "id" \in DOMAIN w /\ "pubkey" \in DOMAIN w
        /\ "sig" \in DOMAIN w /\ "created_at" \in DOMAIN w
        /\ "kind" \in DOMAIN w /\ "content" \in DOMAIN w
    BY <1>1, <1>5
  <2> HIDE DEF w
  <2>3. /\ f.tags = [i \in DOMAIN w.tags |-> Visit(w.tags[i]).tag]
        /\ f.id = w.id /\ f.pubkey = w.pubkey /\ f.sig = w.sig
        /\ f.created_at = w.created_at /\ f.kind = w.kind
        /\ f.content = w.content
    BY <2>1, <2>2
  <2>4. QED
    BY <2>3, <1>3
<1>7. TagsJson(f.tags) = TagsJson(tg)
  <2>1. TagsJson([i \in DOMAIN TagsJson(tg) |-> Visit(TagsJson(tg)[i]).tag])
          = TagsJson(tg)
    BY <1>2, TagsRoundTrip
  <2>2. QED
    BY <1>3, <1>6, <2>1
<1>8. Text(f) = Text(e)
  BY <1>6, <1>7 DEF Text
<1>9. QED
  BY <1>4, <1>6, <1>8

\* Event::new with the author's own key, read back from the wire, passes
\* Event::verify under every maxtime not before its created_at: the
\* signature is over the id, and the id is the hash of the serialization
\* the reader recomputes.
LEMMA HonestVerifies ==
  ASSUME NEW e, FromNew(e), SelfSigned(e),
         NEW mt \in MaxTimes, mt = None \/ e.created_at <= mt[1]
  PROVE  Received(ToWire(e), mt) = "ok"
<1> DEFINE f == FromWire(ToWire(e))
<1>1. /\ Readable(ToWire(e))
      /\ Text(f) = Text(e)
      /\ f.id = e.id /\ f.pubkey = e.pubkey /\ f.sig = e.sig
      /\ f.created_at = e.created_at
  BY NewEventWire
<1>2. Text(PreOf(e)) = Text(e)
  BY DEF Text, PreOf
<1>3. e.id = H(Text(e)) /\ e.sig = Sign(e.pubkey, e.id)
  BY <1>2 DEF FromNew, NewEvent, Hash, SelfSigned, Sign
<1>4. VerifySig(f.pubkey, Text(f), f.sig) /\ H(Text(f)) = f.id
  BY <1>1, <1>3 DEF VerifySig
<1>5. e.created_at \in Nat
  BY DEF FromNew, WellFormedPre, PreOf
<1>6. ~(mt # None /\ f.created_at > mt[1])
  <2>1. CASE mt = None
    BY <2>1
  <2>2. CASE mt # None
    <3>1. PICK t \in 0..MaxTime : mt = <<t>>
      BY <2>2 DEF MaxTimes, None
    <3>2. e.created_at <= t
      BY <2>2, <3>1
    <3>3. QED
      BY <1>1, <1>5, <3>1, <3>2
  <2>3. QED
    BY <2>1, <2>2
<1>7. QED
  BY <1>1, <1>4, <1>6 DEF Received, Verify

\* A direct message Event::new made from new_nip04's PreEvent, read back
\* from the wire, decrypts for its recipient to the plaintext: the kind,
\* the two base64 parts and the 16-byte iv pass every check, and the ECDH
\* pair of recipient and author is the one it was encrypted with.
LEMMA DMDecrypts ==
  ASSUME NEW e, FromNew(e), NEW r, NEW msg, DMOf(e, e.pubkey, r, msg)
  PROVE  ReadDM(ToWire(e), r) = {OkMsg(msg)}
<1> DEFINE f == FromWire(ToWire(e))
<1>1. PICK iv \in Ivs : e.kind = KDirectMessage
                        /\ e.content = Nip04Content(e.pubkey, r, msg, iv)
  BY DEF DMOf
<1>2. /\ Readable(ToWire(e))
      /\ f.pubkey = e.pubkey /\ f.kind = e.kind /\ f.content = e.content
  BY NewEventWire
<1> DEFINE ct == Cipher({e.pubkey, r}, iv, msg)
           ivb == IvBytes(16, iv)
<1>3. f.content = <<B64(ct), B64(ivb)>>
  BY <1>1, <1>2 DEF Nip04Content
<1>4. /\ f.kind = KDirectMessage
      /\ Len(f.content) = 2
      /\ IsB64(f.content[1]) /\ IsB64(f.content[2])
      /\ ByteLen(f.content[2].b64) = 16
  BY <1>1, <1>2, <1>3 DEF B64, IsB64, ByteLen, IvBytes
<1>5. DecryptedContents(f, r) = Nip04Decrypt(r, e.pubkey, ct, ivb)
  BY <1>2, <1>3, <1>4 DEF DecryptedContents, B64
<1>6. Nip04Decrypt(r, e.pubkey, ct, ivb) = {OkMsg(msg)}
  BY DEF Nip04Decrypt, Cipher, IvBytes
<1>7. QED
  BY <1>2, <1>5, <1>6 DEF ReadDM

-----------------------------------------------------------------------------
(* HonestInv is inductive.                                                 *)

\* The tags an application builds and expects back.
CanonTags == {t \in TagType : Canonical(t)}

\* A sequence of canonical tags is a canonical tag list.
LEMMA CanonSeq ==
  ASSUME NEW g \in Seq(CanonTags)
  PROVE  TagsCanonical(g)
BY DEF TagsCanonical, CanonTags

\* A 'p' or 'e' tag with a hex id and neither relay url nor petname, as
\* new_nip04 and new_zap_request push it.
LEMMA RefCanon ==
  ASSUME NEW nm \in {"e", "p"}, NEW x \in OneWord(Hex32)
  PROVE  RefTag(nm, x, <<>>, <<>>) \in CanonTags
<1>1. <<>> \in OptStr
  BY DEF OptStr
<1>2. RefTag(nm, x, <<>>, <<>>) \in TagType
  BY <1>1, Zenon DEF RefTag, TagType
<1>3. QED
  BY <1>2 DEF CanonTags, Canonical, RefTag

\* A public key's hex as a one-word id.
LEMMA KeyHexWord ==
  ASSUME NEW k \in Keys
  PROVE  W(KeyHex[k]) \in OneWord(Hex32)
<1>1. KeyHex[k] \in Hex32
  BY EventIdTyped
<1>2. QED
  BY <1>1, OneSeq DEF W, OneWord

\* Tag::Other under the names "relays" and "amount" of new_zap_request.
LEMMA ZapOtherCanon ==
  ASSUME NEW nm \in {"relays", "amount"}, NEW data \in Seq(Str)
  PROVE  OtherTag(W(nm), data) \in CanonTags
<1>1. W(nm) \in Str
  BY EventIdTyped, OneSeq DEF W, Str
<1>2. OtherTag(W(nm), data) \in TagType
  BY <1>1, Zenon DEF OtherTag, TagType
<1>3. \A kn \in KnownNames : W(nm) # W(kn)
  BY DEF W, KnownNames, SingleNames
<1>4. QED
  BY <1>2, <1>3 DEF CanonTags, Canonical, OtherTag

\* Event::new keeps FromNew: what it makes of a well-formed PreEvent is
\* Event::new of its own fields with its signer's key.
LEMMA NewFromNew ==
  ASSUME NEW pre, NEW k, WellFormedPre(pre)
  PROVE  FromNew(NewEvent(pre, k))
<1>1. PreOf(NewEvent(pre, k)) = PreOf(pre) /\ NewEvent(pre, k).sig.signer = k
  BY DEF PreOf, NewEvent, Sign
<1>2. PreOf(pre) = pre
  BY DEF WellFormedPre
<1>3. QED
  BY <1>1, <1>2 DEF FromNew

\* A record of the PreEvent shape whose every field is fixed is that record.
LEMMA PreShape ==
  ASSUME NEW q, NEW a, NEW b, NEW c, NEW d, NEW x,
         q \in [pubkey : {a}, created_at : {b}, kind : {c}, tags : {d}, content : {x}]
  PROVE  q = [pubkey |-> a, created_at |-> b, kind |-> c, tags |-> d, content |-> x]
OBVIOUS

\* new_set_metadata's PreEvent: the caller's, with kind Metadata and the
\* metadata JSON as content.
LEMMA MetadataPre ==
  ASSUME NEW pre, WellFormedPre(pre), NEW md
  PROVE  WellFormedPre([pre EXCEPT !.kind = KMetadata, !.content = md])
<1> DEFINE S == [pubkey : {pre.pubkey}, created_at : {pre.created_at},
                 kind : {KMetadata}, tags : {pre.tags}, content : {md}]
           L == [pubkey |-> pre.pubkey, created_at |-> pre.created_at,
                 kind |-> KMetadata, tags |-> pre.tags, content |-> md]
<1>1. pre = PreOf(pre)
  BY DEF WellFormedPre
<1>2. [pre EXCEPT !.kind = KMetadata, !.content = md] \in S
  BY <1>1, Zenon DEF PreOf
<1>3. L = PreOf(L) /\ L.created_at \in Nat /\ TagsCanonical(L.tags)
  BY DEF PreOf, WellFormedPre
<1>4. \A q \in S : q = L
  BY PreShape
<1>5. QED
  BY <1>2, <1>3, <1>4, Zenon DEF WellFormedPre

\* new_nip04's PreEvent, created now with one 'p' tag for the recipient.
LEMMA Nip04PreWellFormed ==
  ASSUME NEW k, NEW rcpt \in Keys, NEW msg, NEW iv, NEW t \in Nat
  PROVE  WellFormedPre(Nip04Pre(k, rcpt, msg, iv, t))
<1>1. RefTag("p", W(KeyHex[rcpt]), <<>>, <<>>) \in CanonTags
  BY KeyHexWord, RefCanon
<1>2. <<RefTag("p", W(KeyHex[rcpt]), <<>>, <<>>)>> \in Seq(CanonTags)
  BY <1>1, OneSeq
<1>3. TagsCanonical(<<RefTag("p", W(KeyHex[rcpt]), <<>>, <<>>)>>)
  BY <1>2, CanonSeq, Zenon
<1>4. Nip04Pre(k, rcpt, msg, iv, t) = PreOf(Nip04Pre(k, rcpt, msg, iv, t))
  BY DEF PreOf, Nip04Pre
<1>5. QED
  BY <1>3, <1>4 DEF WellFormedPre, Nip04Pre

\* new_zap_request's PreEvent, created now: 'p' for the recipient, the
\* "relays" and "amount" Tag::Other, and an 'e' tag for a zapped event.
LEMMA ZapPreWellFormed ==
  ASSUME NEW k, NEW rcpt \in Keys, NEW ze \in ZapIds, NEW msat \in Millisats,
         NEW rs \in ZapRelays, NEW content, NEW t \in Nat
  PROVE  WellFormedPre(
           [pubkey |-> k, created_at |-> t, kind |-> KZapRequest,
            tags |-> <<RefTag("p", W(KeyHex[rcpt]), <<>>, <<>>),
                       OtherTag(W("relays"), rs),
                       OtherTag(W("amount"), <<W(MsatShow[msat])>>)>>
                     \o (IF ze = None THEN <<>>
                         ELSE <<RefTag("e", ze[1], <<>>, <<>>)>>),
            content |-> content])
<1> DEFINE front == <<RefTag("p", W(KeyHex[rcpt]), <<>>, <<>>),
                      OtherTag(W("relays"), rs),
                      OtherTag(W("amount"), <<W(MsatShow[msat])>>)>>
           back == IF ze = None THEN <<>> ELSE <<RefTag("e", ze[1], <<>>, <<>>)>>
<1>1. RefTag("p", W(KeyHex[rcpt]), <<>>, <<>>) \in CanonTags
  BY KeyHexWord, RefCanon
<1>2. rs \in Seq(Str)
  BY EventIdTyped
<1>3. OtherTag(W("relays"), rs) \in CanonTags
  BY <1>2, ZapOtherCanon
<1>4. W(MsatShow[msat]) \in Str
  BY EventIdTyped, OneSeq DEF W, Str
<1>5. <<W(MsatShow[msat])>> \in Seq(Str)
  BY <1>4, OneSeq
<1>6. OtherTag(W("amount"), <<W(MsatShow[msat])>>) \in CanonTags
  BY <1>5, ZapOtherCanon, Zenon
<1>7. front \in Seq(CanonTags)
  BY <1>1, <1>3, <1>6
<1>8. back \in Seq(CanonTags)
  <2>1. CASE ze = None
    BY <2>1, EmptySeq
  <2>2. CASE ze # None
    <3>1. ze \in Seq(OneWord(Hex32)) /\ Len(ze) <= 1
      BY EventIdTyped
    <3>2. Len(ze) # 0
      BY <2>2, <3>1 DEF None
    <3>3. Len(ze) = 1
      BY <3>1, <3>2, ShortSeq
    <3>4. ze[1] \in OneWord(Hex32)
      BY <3>1, <3>3, OneElem
    <3>5. RefTag("e", ze[1], <<>>, <<>>) \in CanonTags
      BY <3>4, RefCanon
    <3>6. QED
      BY <2>2, <3>5, OneSeq
  <2>3. QED
    BY <2>1, <2>2
<1>9. TagsCanonical(front \o back)
  BY <1>7, <1>8, ConcatSeq, CanonSeq, Zenon
<1>10. QED
  BY <1>9 DEF WellFormedPre, PreOf

\* A caller's PreEvents are the first members of pres.
LEMMA InitHonestInv ==
  ASSUME PreEventsCanonical
  PROVE  Init => HonestInv
BY DEF Init, HonestInv, PreEventsCanonical

\* Made adds one event and leaves pres and now alone.
LEMMA MadeHonestInv ==
  ASSUME HonestInv, NEW e, FromNew(e), Made(e)
  PROVE  HonestInv'
BY DEF Made, HonestInv

\* Every step of the clients and of the relay keeps HonestInv.
LEMMA NextHonestInv == HonestInv /\ [Next]_vars => HonestInv'
<1> SUFFICES ASSUME HonestInv, [Next]_vars PROVE HonestInv'
  OBVIOUS
<1>1. CASE Tick
  BY <1>1 DEF Tick, HonestInv
<1>2. ASSUME NEW pre \in pres, NEW k \in Keys, New(pre, k)
      PROVE  HonestInv'
  <2>1. WellFormedPre(pre)
    BY DEF HonestInv
  <2>2. FromNew(NewEvent(pre, k))
    BY <2>1, NewFromNew
  <2>3. QED
    BY <1>2, <2>2, MadeHonestInv DEF New
<1>3. ASSUME NEW pre \in pres, NEW k \in Keys, NEW md \in Metadatas,
             NewSetMetadata(pre, k, md)
      PROVE  HonestInv'
  <2>1. WellFormedPre(pre)
    BY DEF HonestInv
  <2>2. WellFormedPre([pre EXCEPT !.kind = KMetadata, !.content = md])
    BY <2>1, MetadataPre, Zenon
  <2>3. FromNew(SetMetadataEvent(pre, k, md))
    BY <2>2, NewFromNew, Zenon DEF SetMetadataEvent
  <2>4. QED
    BY <1>3, <2>3, MadeHonestInv DEF NewSetMetadata
<1>4. ASSUME NEW k \in Keys, NEW rcpt \in Keys, NEW ze \in ZapIds,
             NEW msat \in Millisats, NEW rs \in ZapRelays, NEW m \in Messages,
             NewZapRequest(k, W(KeyHex[rcpt]), ze, msat, rs, <<Plain(m)>>)
      PROVE  HonestInv'
  <2>1. now \in Nat
    BY DEF HonestInv
  <2>2. WellFormedPre(
           [pubkey |-> k, created_at |-> now, kind |-> KZapRequest,
            tags |-> <<RefTag("p", W(KeyHex[rcpt]), <<>>, <<>>),
                       OtherTag(W("relays"), rs),
                       OtherTag(W("amount"), <<W(MsatShow[msat])>>)>>
                     \o (IF ze = None THEN <<>>
                         ELSE <<RefTag("e", ze[1], <<>>, <<>>)>>),
            content |-> <<Plain(m)>>])
    BY <2>1, ZapPreWellFormed, Zenon
  <2>3. FromNew(ZapRequestEvent(k, W(KeyHex[rcpt]), ze, msat, rs, <<Plain(m)>>, now))
    BY <2>2, NewFromNew, Zenon DEF ZapRequestEvent
  <2>4. QED
    BY <1>4, <2>3, MadeHonestInv DEF NewZapRequest
<1>5. ASSUME NEW k \in Keys, NEW rcpt \in Keys, NEW m \in Messages,
             NEW iv \in Ivs, NewNip04(k, rcpt, m, iv)
      PROVE  HonestInv'
  <2>1. now \in Nat
    BY DEF HonestInv
  <2>2. WellFormedPre(Nip04Pre(k, rcpt, m, iv, now))
    BY <2>1, Nip04PreWellFormed
  <2>3. QED
    BY <1>5, <2>2 DEF NewNip04, HonestInv
<1>6. ASSUME NEW w, Sent(w)
      PROVE  HonestInv'
  BY <1>6 DEF Sent, HonestInv
<1>7. CASE UNCHANGED vars
  BY <1>7 DEF vars, HonestInv
<1>8. QED
  BY <1>1, <1>2, <1>3, <1>4, <1>5, <1>6, <1>7, Zenon
     DEF Next, Publish, Tamper, PublishForeign

\* Under SigInv, an event a reader accepts under a key that is not the
\* relay's was signed by that key, over the id it carries, and that id is
\* the hash of the event the reader rebuilt from the JSON.
LEMMA SigInvAuthentic == SigInv => AcceptedIsAuthentic
<1> SUFFICES ASSUME SigInv, NEW w \in net, NEW mt \in MaxTimes,
                    Received(w, mt) = "ok", w.pubkey \notin RelayKeys
             PROVE  /\ <<w.pubkey, w.id>> \in signed
                    /\ w.id = H(Text(FromWire(w)))
  BY DEF AcceptedIsAuthentic
<1>1. Verify(FromWire(w), mt) = "ok"
  BY DEF Received
<1>2. /\ VerifySig(FromWire(w).pubkey, Text(FromWire(w)), FromWire(w).sig)
      /\ H(Text(FromWire(w))) = FromWire(w).id
  BY <1>1 DEF Verify
<1>3. w.sig = Sign(w.pubkey, w.id) /\ w.id = H(Text(FromWire(w)))
  BY <1>2, WireKeepsSig DEF VerifySig
<1>4. QED
  BY <1>3 DEF SigInv, Sign

\* Event::verify over the wire is authentic (AcceptedIsAuthentic): in every
\* reachable state, whatever the relay replaced, copied or re-signed, an
\* event accepted under an author's key carries an id that author signed,
\* and that id is the hash of the event as read back.
THEOREM VerifyAuthentic == Spec => []AcceptedIsAuthentic
<1>1. Spec => []SigInv
  BY InitSigInv, NextSigInv, PTL DEF Spec
<1>2. QED
  BY <1>1, SigInvAuthentic, PTL
\* Under HonestInv every self-signed event Event::new made verifies from
\* the wire under a maxtime not before its created_at.
LEMMA HonestInvAccepted == HonestInv => HonestEventAccepted
<1> SUFFICES ASSUME HonestInv, NEW e \in made, NEW mt \in MaxTimes,
                    SelfSigned(e), mt = None \/ e.created_at <= mt[1]
             PROVE  Received(ToWire(e), mt) = "ok"
  BY DEF HonestEventAccepted
<1>1. FromNew(e)
  BY DEF HonestInv
<1>2. QED
  BY <1>1, HonestVerifies

\* Under HonestInv every direct message Event::new made from new_nip04's
\* PreEvent decrypts for its recipient.
LEMMA HonestInvReadsDM == HonestInv => RecipientReadsDM
<1> SUFFICES ASSUME HonestInv, NEW e \in made, NEW r \in Keys,
                    NEW msg \in Messages, DMOf(e, e.pubkey, r, msg)
             PROVE  ReadDM(ToWire(e), r) = {OkMsg(msg)}
  BY DEF RecipientReadsDM
<1>1. FromNew(e)
  BY DEF HonestInv
<1>2. QED
  BY <1>1, DMDecrypts

\* Event::new and Event::verify are complete across serde_json
\* (HonestEventAccepted): when the PreEvents callers build have canonical
\* tags, in every reachable state an event made by Event::new with its
\* author's key and sent unchanged is accepted by every verify whose
\* maxtime is not before its created_at.
THEOREM HonestAccepted ==
  ASSUME PreEventsCanonical
  PROVE  Spec => []HonestEventAccepted
<1>1. Spec => []HonestInv
  BY InitHonestInv, NextHonestInv, PTL DEF Spec
<1>2. QED
  BY <1>1, HonestInvAccepted, PTL

\* Event::decrypted_contents gives the recipient the plaintext
\* (RecipientReadsDM): when the PreEvents callers build have canonical
\* tags, in every reachable state a direct message new_nip04 encrypted and
\* Event::new signed, sent unchanged, decrypts for its recipient.
THEOREM RecipientDecrypts ==
  ASSUME PreEventsCanonical
  PROVE  Spec => []RecipientReadsDM
<1>1. Spec => []HonestInv
  BY InitHonestInv, NextHonestInv, PTL DEF Spec
<1>2. QED
  BY <1>1, HonestInvReadsDM, PTL
=============================================================================
