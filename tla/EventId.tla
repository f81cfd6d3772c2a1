------------------------------ MODULE EventId ------------------------------
(***************************************************************************)
(* Event identity and signature (src/src/types/event.rs): Event::hash,     *)
(* Event::new and Event::verify, the constructors that call Event::new     *)
(* (new_set_metadata, new_zap_request), and NIP-04 direct messages         *)
(* (PreEvent::new_nip04, Event::decrypted_contents), composed with the tag *)
(* codec (module TagSerde): events cross the network as JSON, their tags   *)
(* as arrays that the receiver reads back with TagVisitor before it        *)
(* verifies.                                                               *)
(*                                                                         *)
(* Cryptography is abstracted to what the code relies on. SHA-256 is an    *)
(* injective map H from the serialized text; a Schnorr signature by key k  *)
(* of a digest d is the record Sign(k, d), and PublicKey::verify of a     *)
(* message checks a signature of its SHA-256 digest (the k256 Verifier     *)
(* hashes the message). A key is its own public key; KeyHex gives its hex  *)
(* form inside tags. NIP-04 encryption is a record of the ECDH pair, the   *)
(* iv and the plaintext; base64 is a record of the bytes it encodes.       *)
(* Content is the sequence of its "?iv="-separated pieces.                 *)
(***************************************************************************)
EXTENDS TagSerde, FiniteSets

CONSTANTS
  Keys,         \* the private keys of authors and of the relay
  RelayKeys,    \* the keys the relay holds
  KeyHex,       \* PublicKey -> its hex in a tag (a word of Hex32)
  PreEvents,    \* the PreEvents callers build themselves
  Metadatas,    \* serde_json::to_string of the Metadata values used
  Messages,     \* NIP-04 plaintexts
  Ivs,          \* the random ivs nip04_encrypt may draw
  ZapIds,       \* the zapped_event options of new_zap_request
  Millisats,    \* the amounts, and MsatShow their decimal rendering
  MsatShow,
  ZapRelays,    \* the relay lists of new_zap_request
  AltTimes, AltKinds, AltContents, AltTags,  \* what the relay writes
  ForeignEvents, \* events of other clients, tags as JSON arrays
  AltTypedTags,  \* tags a test writes into a constructed event
  MaxTime,      \* last tick of the clock
  MaxMade,      \* events created per run
  MaxNet        \* events on the network per run

None == <<>>

\* The constants have the Rust types of the code: a public key's hex is a
\* 32-byte hex id, zapped_event is an Option<Id>, the relay urls are
\* strings, the msat amount renders as one decimal word, and the tag names
\* "relays" and "amount" have no ':'.
ASSUME EventIdTyped ==
  /\ \A k \in Keys : KeyHex[k] \in Hex32
  /\ ZapIds \subseteq {z \in Seq(OneWord(Hex32)) : Len(z) <= 1}
  /\ ZapRelays \subseteq Seq(Str)
  /\ \A n \in Millisats : MsatShow[n] \in Words
  /\ {"relays", "amount"} \subseteq Words

\* EventKind numbers (u32 on the wire).
KMetadata == 0
KDirectMessage == 4
KZapRequest == 9734

VARIABLES
  now,    \* Unixtime::now()
  pres,   \* PreEvents built so far (by callers and by new_nip04)
  made,   \* events created by Event::new, with the key that signed them
  net,    \* events on the network, as JSON
  signed  \* ghost: the <<key, id>> pairs signed with each author's key

vars == <<now, pres, made, net, signed>>

-----------------------------------------------------------------------------
(* Hashing and signing.                                                    *)

\* serialize_inner_event!: [0,pubkey,created_at,kind,tags,content], each
\* field by serde_json; the tags by Serialize for Tag.
TagsJson(tags) == [i \in DOMAIN tags |-> Serialize(tags[i])]

Text(e) == <<0, e.pubkey, e.created_at, e.kind, TagsJson(e.tags), e.content>>

\* Sha256 of the serialized bytes.
H(text) == [sha256 |-> text]

\* privkey.sign_id(id): a Schnorr signature of the 32 id bytes.
Sign(k, id) == [signer |-> k, digest |-> id]

\* self.pubkey.0.verify(serialized.as_bytes(), &self.sig.0).
VerifySig(pk, text, sig) == sig = Sign(pk, H(text))

\* Event::hash.
Hash(pre) == H(Text(pre))

\* Event::new: hash, sign, assemble. The PreEvent's pubkey is kept as given.
NewEvent(pre, k) ==
  LET id == Hash(pre)
  IN  [id |-> id, pubkey |-> pre.pubkey, created_at |-> pre.created_at,
       kind |-> pre.kind, tags |-> pre.tags, content |-> pre.content,
       sig |-> Sign(k, id)]

\* Fault variant: the id comparison left out.
VerifyNoHash(e, maxtime) ==
  IF ~VerifySig(e.pubkey, Text(e), e.sig) THEN "signature"
  ELSE IF maxtime # None /\ e.created_at > maxtime[1] THEN "future"
  ELSE "ok"

\* Fault variant: an event created at maxtime counts as in the future.
VerifyTimeInclusive(e, maxtime) ==
  IF ~VerifySig(e.pubkey, Text(e), e.sig) THEN "signature"
  ELSE IF maxtime # None /\ e.created_at >= maxtime[1] THEN "future"
  ELSE IF H(Text(e)) # e.id THEN "hash"
  ELSE "ok"

\* Event::verify: the signature over the recomputed serialization, then
\* the optional time bound, then the recomputed hash against the id.
Verify(e, maxtime) ==
  IF ~VerifySig(e.pubkey, Text(e), e.sig) THEN "signature"
  ELSE IF maxtime # None /\ e.created_at > maxtime[1] THEN "future"
  ELSE IF H(Text(e)) # e.id THEN "hash"
  ELSE "ok"

-----------------------------------------------------------------------------
(* The wire. serde_json writes an Event with its tags as arrays and reads  *)
(* it back tag by tag; one tag the visitor rejects, or an array it does    *)
(* not consume to the end, fails the whole event.                          *)

ToWire(e) == [e EXCEPT !.tags = TagsJson(e.tags)]

Readable(w) ==
  \A i \in DOMAIN w.tags : LET r == Visit(w.tags[i])
                           IN  r.ok /\ r.used = Len(w.tags[i])

FromWire(w) == [w EXCEPT !.tags = [i \in DOMAIN w.tags |-> Visit(w.tags[i]).tag]]

-----------------------------------------------------------------------------
(* NIP-04. The content "b64(ciphertext)?iv=b64(iv)" is the sequence of its *)
(* two pieces; B64(bytes) is a valid base64 piece, a Plain word is not.   *)
(* The ciphertext records the ECDH pair it was made with.          *)

B64(bytes) == [b64 |-> bytes]
Plain(w) == [word |-> w]
IsB64(piece) == "b64" \in DOMAIN piece
Cipher(pair, iv, msg) == [pair |-> pair, iv |-> iv, msg |-> msg, len |-> 16]
IvBytes(n, iv) == [ivlen |-> n, iv |-> iv]
ByteLen(b) == IF "ivlen" \in DOMAIN b THEN b.ivlen ELSE b.len

\* What String::from_utf8_lossy makes of bytes decrypted with a wrong key.
Garbage == "garbage"

\* Result<String, Error>.
OkMsg(msg) == [ok |-> TRUE, val |-> msg]
Fail(why) == [ok |-> FALSE, val |-> why]

\* private_key.nip04_encrypt and the format! of PreEvent::new_nip04.
Nip04Content(k, rcpt, msg, iv) == <<B64(Cipher({k, rcpt}, iv, msg)), B64(IvBytes(16, iv))>>

\* PreEvent::new_nip04: kind EncryptedDirectMessage, a 'p' tag for the
\* recipient without relay url or petname, created now.
Nip04Pre(k, rcpt, msg, iv, t) ==
  [pubkey |-> k, created_at |-> t, kind |-> KDirectMessage,
   tags |-> <<RefTag("p", W(KeyHex[rcpt]), <<>>, <<>>)>>,
   content |-> Nip04Content(k, rcpt, msg, iv)]

\* private_key.nip04_decrypt(peer, ciphertext, iv): the plaintext when the
\* ECDH pair and the iv are those of the encryption; otherwise AES-CBC
\* either fails on the padding or yields garbage.
Nip04Decrypt(k, peer, ct, iv) ==
  IF "pair" \in DOMAIN ct /\ ct.pair = {k, peer} /\ ct.iv = iv.iv
  THEN {OkMsg(ct.msg)} ELSE {Fail("decrypt"), OkMsg(Garbage)}

\* Fault variant: the peer taken from the 'p' tag instead of the author.
DecryptedContentsPeerTag(e, k) ==
  LET parts == e.content
      peer == CHOOSE x \in Keys : W(KeyHex[x]) = e.tags[1].ref
  IN  IF e.kind # KDirectMessage THEN {Fail("wrong kind")}
      ELSE IF Len(parts) # 2 THEN {Fail("bad message")}
      ELSE IF ~IsB64(parts[1]) \/ ~IsB64(parts[2]) THEN {Fail("base64")}
      ELSE IF ByteLen(parts[2].b64) # 16 THEN {Fail("panic")}
      ELSE Nip04Decrypt(k, peer, parts[1].b64, parts[2].b64)

\* Event::decrypted_contents: kind check, split on "?iv=" into exactly two
\* parts, base64 of each, the iv into [u8; 16] (try_into().unwrap(), a
\* panic on any other length), then decryption with the author as peer.
DecryptedContents(e, k) ==
  LET parts == e.content
  IN  IF e.kind # KDirectMessage THEN {Fail("wrong kind")}
      ELSE IF Len(parts) # 2 THEN {Fail("bad message")}
      ELSE IF ~IsB64(parts[1]) \/ ~IsB64(parts[2]) THEN {Fail("base64")}
      ELSE IF ByteLen(parts[2].b64) # 16 THEN {Fail("panic")}
      ELSE Nip04Decrypt(k, e.pubkey, parts[1].b64, parts[2].b64)

-----------------------------------------------------------------------------
(* The constructors that sign.                                             *)

\* Event::new_set_metadata: kind Metadata, the metadata JSON as content.
SetMetadataEvent(pre, k, md) ==
  NewEvent([pre EXCEPT !.kind = KMetadata, !.content = md], k)

\* Event::new_zap_request: 'p' for the recipient, "relays" and "amount"
\* as Tag::Other, an 'e' tag pushed last for a zapped event.
ZapRequestEvent(k, rcpt, ze, msat, relays, content, t) ==
  NewEvent([pubkey |-> k, created_at |-> t, kind |-> KZapRequest,
            tags |-> <<RefTag("p", rcpt, <<>>, <<>>),
                       OtherTag(W("relays"), relays),
                       OtherTag(W("amount"), <<W(MsatShow[msat])>>)>>
                     \o (IF ze = None THEN <<>>
                         ELSE <<RefTag("e", ze[1], <<>>, <<>>)>>),
            content |-> content], k)

-----------------------------------------------------------------------------
(* The relay between authors and readers may replace any one field of an  *)
(* event it holds, or copy the id or signature of another one. Events of  *)
(* other clients are signed over the JSON they send.                       *)

Tampered(w) ==
  {[w EXCEPT !.created_at = t] : t \in AltTimes}
  \cup {[w EXCEPT !.kind = x] : x \in AltKinds}
  \cup {[w EXCEPT !.content = c] : c \in AltContents}
  \cup {[w EXCEPT !.tags = g] : g \in AltTags}
  \cup {[w EXCEPT !.pubkey = p] : p \in Keys}
  \cup {[w EXCEPT !.id = x.id] : x \in net}
  \cup {[w EXCEPT !.sig = x.sig] : x \in net}
  \cup {[w EXCEPT !.sig = Sign(r, w.id)] : r \in RelayKeys}

ForeignEvent(f, k) ==
  LET id == H(<<0, k, f.created_at, f.kind, f.tags, f.content>>)
  IN  [id |-> id, pubkey |-> k, created_at |-> f.created_at, kind |-> f.kind,
       tags |-> f.tags, content |-> f.content, sig |-> Sign(k, id)]

-----------------------------------------------------------------------------
Init ==
  /\ now = 0
  /\ pres = PreEvents
  /\ made = {}
  /\ net = {}
  /\ signed = {}

Tick ==
  /\ now < MaxTime
  /\ now' = now + 1
  /\ UNCHANGED <<pres, made, net, signed>>

Made(e) ==
  /\ Cardinality(made) < MaxMade
  /\ made' = made \cup {e}
  /\ signed' = signed \cup {<<e.sig.signer, e.id>>}
  /\ UNCHANGED <<now, pres, net>>

New(pre, k) == Made(NewEvent(pre, k))

NewSetMetadata(pre, k, md) == Made(SetMetadataEvent(pre, k, md))

NewZapRequest(k, rcpt, ze, msat, relays, content) ==
  Made(ZapRequestEvent(k, rcpt, ze, msat, relays, content, now))

NewNip04(k, rcpt, msg, iv) ==
  /\ Cardinality(pres \ PreEvents) < MaxMade
  /\ pres' = pres \cup {Nip04Pre(k, rcpt, msg, iv, now)}
  /\ UNCHANGED <<now, made, net, signed>>

Sent(w) ==
  /\ Cardinality(net) < MaxNet
  /\ net' = net \cup {w}
  /\ UNCHANGED <<now, pres, made>>

\* serde_json::to_string(&event), handed to the relay.
Publish(e) == Sent(ToWire(e)) /\ UNCHANGED signed

Tamper(w, w2) == Sent(w2) /\ UNCHANGED signed

PublishForeign(f, k) ==
  LET w == ForeignEvent(f, k)
  IN  Sent(w) /\ signed' = signed \cup {<<k, w.id>>}

Next ==
  \/ Tick
  \/ \E pre \in pres, k \in Keys :
       \/ New(pre, k)
       \/ \E md \in Metadatas : NewSetMetadata(pre, k, md)
  \/ \E k, rcpt \in Keys, ze \in ZapIds, msat \in Millisats, rs \in ZapRelays,
        m \in Messages :
       NewZapRequest(k, W(KeyHex[rcpt]), ze, msat, rs, <<Plain(m)>>)
  \/ \E k, rcpt \in Keys, m \in Messages, iv \in Ivs : NewNip04(k, rcpt, m, iv)
  \/ \E e \in made : Publish(e)
  \/ \E w \in net : \E w2 \in Tampered(w) : Tamper(w, w2)
  \/ \E f \in ForeignEvents, k \in Keys : PublishForeign(f, k)

Spec == Init /\ [][Next]_vars

-----------------------------------------------------------------------------
(* Readers. Both calls are pure: a reader of an event on the network gets *)
(* what they return for it.                                                *)

\* The time bounds readers pass to verify.
MaxTimes == {None} \cup {<<t>> : t \in 0..MaxTime}

\* serde_json::from_str::<Event>, then event.verify(maxtime).
Received(w, mt) == IF Readable(w) THEN Verify(FromWire(w), mt) ELSE "malformed"

\* serde_json::from_str::<Event>, then event.decrypted_contents(key).
ReadDM(w, k) ==
  IF Readable(w) THEN DecryptedContents(FromWire(w), k) ELSE {Fail("malformed")}

-----------------------------------------------------------------------------
(* The inductive invariant behind AcceptedIsAuthentic. Every event         *)
(* Event::new made carries a signature of its own id, and that pair is in  *)
(* signed; every signature on the network that is not a relay key's is a   *)
(* signature of a pair in signed, whatever the relay copied or replaced.   *)
(* The relay cannot forge: it only re-signs with its own keys.             *)
SigInv ==
  /\ \A e \in made : e.sig.digest = e.id /\ <<e.sig.signer, e.id>> \in signed
  /\ \A w \in net : w.sig.signer \notin RelayKeys =>
                     <<w.sig.signer, w.sig.digest>> \in signed

-----------------------------------------------------------------------------
(* The inductive invariant behind HonestEventAccepted and RecipientReadsDM. *)
(* Every PreEvent is a record of the five fields whose tags are canonical  *)
(* values of enum Tag, and every event Event::new made is Event::new of    *)
(* its own fields with the key that signed it.                             *)

\* The PreEvent fields of an event.
PreOf(e) == [pubkey |-> e.pubkey, created_at |-> e.created_at,
             kind |-> e.kind, tags |-> e.tags, content |-> e.content]

\* Tags an application builds and expects back (TagSerde's Canonical).
TagsCanonical(g) == g \in Seq(TagType) /\ \A i \in DOMAIN g : Canonical(g[i])

\* A PreEvent: the five fields, created at a Unixtime, with canonical tags.
WellFormedPre(p) ==
  p = PreOf(p) /\ p.created_at \in Nat /\ TagsCanonical(p.tags)

\* The PreEvents callers build themselves are well formed.
PreEventsCanonical == \A p \in PreEvents : WellFormedPre(p)

\* e is what Event::new makes of a well-formed PreEvent with e's signer.
FromNew(e) == e = NewEvent(PreOf(e), e.sig.signer) /\ WellFormedPre(PreOf(e))

HonestInv ==
  /\ now \in Nat
  /\ \A p \in pres : WellFormedPre(p)
  /\ \A e \in made : FromNew(e)

-----------------------------------------------------------------------------
(* Properties.                                                             *)

\* Whether e was signed by the holder of its own public key.
SelfSigned(e) == e.sig.signer = e.pubkey

\* Authenticity of Event::verify over the wire: an event a reader accepts
\* under an author's key carries an id that author signed, and that id is
\* the hash of the event the reader holds, whatever the relay replaced or
\* copied between events.
AcceptedIsAuthentic ==
  \A w \in net, mt \in MaxTimes :
    Received(w, mt) = "ok" /\ w.pubkey \notin RelayKeys =>
      /\ <<w.pubkey, w.id>> \in signed
      /\ w.id = H(Text(FromWire(w)))

\* Completeness of Event::new and Event::verify across serde_json: an
\* event made by Event::new with its author's key and sent unchanged is
\* accepted by every verify whose maxtime is not before its created_at.
HonestEventAccepted ==
  \A e \in made, mt \in MaxTimes :
    /\ SelfSigned(e)
    /\ ToWire(e) \in net
    /\ mt = None \/ e.created_at <= mt[1]
    => Received(ToWire(e), mt) = "ok"

\* Interoperation: an event another client signed over the JSON it sends
\* (the NIP-01 id), relayed unchanged, is accepted by Event::verify after
\* serde_json has read its tags into Tag values.
ForeignEventAccepted ==
  \A f \in ForeignEvents, k \in Keys :
    ForeignEvent(f, k) \in net => Received(ForeignEvent(f, k), None) = "ok"

\* Whether e is a direct message that new_nip04 encrypted from s to r.
DMOf(e, s, r, msg) ==
  e.kind = KDirectMessage /\ \E iv \in Ivs : e.content = Nip04Content(s, r, msg, iv)

\* Event::decrypted_contents gives the recipient of a direct message, sent
\* unchanged, the plaintext its author encrypted.
RecipientReadsDM ==
  \A e \in made, r \in Keys, msg \in Messages :
    SelfSigned(e) /\ DMOf(e, e.pubkey, r, msg) /\ ToWire(e) \in net
      => ReadDM(ToWire(e), r) = {OkMsg(msg)}

\* Both parties of a direct message can read it back with
\* Event::decrypted_contents: the recipient, and its author from the sent
\* folder.
PartiesReadDM ==
  \A e \in made, r \in Keys, msg \in Messages :
    SelfSigned(e) /\ DMOf(e, e.pubkey, r, msg) /\ ToWire(e) \in net
      => \A k \in {e.pubkey, r} : ReadDM(ToWire(e), k) = {OkMsg(msg)}

\* Event::decrypted_contents never panics, whatever content a relay hands
\* it (no component aborts on attacker-controlled input). The panic of
\* try_into().unwrap() is the result Fail("panic").
DecryptNeverPanics == \A w \in net, k \in Keys : Fail("panic") \notin ReadDM(w, k)

\* Every event Event::new returns verifies.
NewVerifies == \A e \in made : Verify(e, None) = "ok"

\* One field of a constructed Event, changed in memory.
Mutations(e) ==
  {[e EXCEPT !.created_at = t] : t \in AltTimes}
  \cup {[e EXCEPT !.kind = x] : x \in AltKinds}
  \cup {[e EXCEPT !.content = c] : c \in AltContents}
  \cup {[e EXCEPT !.pubkey = p] : p \in Keys}
  \cup {[e EXCEPT !.id = x.id] : x \in made}
  \cup {[e EXCEPT !.tags[i] = t] : i \in DOMAIN e.tags, t \in AltTypedTags}

\* Changing any single field of an event Event::new made makes
\* Event::verify fail.
MutationDetected ==
  \A e \in made : \A f \in Mutations(e) \ {e} : Verify(f, None) # "ok"
=============================================================================
