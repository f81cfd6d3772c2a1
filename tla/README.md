# TLA+ verification of nostr-types

This directory holds TLA+ models of the event core of this repository. The
core is `src/src/types/event.rs` and `src/src/types/tag.rs`. The directory
also holds the TLC configurations that check the models on small instances,
and TLAPS proofs for every instance: the miner's safety properties, that
the threaded miner implements a one-step abstract contract, that every
canonical tag survives the serde round trip, that what `Event::verify`
accepts over a tampering relay is authentic, and that what an honest author
signs is accepted, and its direct messages decrypt, on the reader's side.

## 1. The system and its parts

| Part | Code | State and operations | Interacts with |
|---|---|---|---|
| Proof-of-work miner | `Event::new_with_pow` (event.rs 172-276) | Caller thread: strip nonce tags, push one, spawn one worker per core, join all, rewrite the nonce, hash and sign. Workers loop: poll `quitting`, hash with `attempt`, then either store `nonce` and raise `quitting`, or raise `best_work`. Either way they report on the optional `Sender<u8>`. | Three shared `Relaxed` atomics; an mpsc channel whose receiver the caller owns |
| Proof-of-work count | `get_leading_zero_bits` (1032-1043), `Event::pow` (954-970) | Pure | Read by the miner and by `pow()` |
| Tag codec | `Serialize for Tag` (tag.rs 158-308), `TagVisitor::visit_seq` (328-569) | Pure. The decoder reads elements one by one and may return early with `Tag::Other`, or with an error through `?` | serde_json (external) |
| Event identity | `Event::hash`, `new`, `verify` (event.rs 132-316) | Pure; re-serializes the typed tags to recompute the id | Tag codec, SHA-256, Schnorr (external) |
| Tag semantics | `people` … `urls` (410-952) | Pure queries over the tag sequence | Tag variants |
| Delegation | `Event::delegation` (974-1028) | Pure | Schnorr verify (external) |
| Zaps | `Event::zaps` (788-866) | Pure | Invoice decoder (external) |
| NIP-04 | `PreEvent::new_nip04`, `decrypted_contents` (89-115, 390-406) | Calls the encryption primitive | External |
| Constructors | `new_set_metadata`, `new_zap_request` (333-387) | Build a PreEvent and call `Event::new` | Event identity |

Events cross a relay as JSON. The receiver reads the tags back through the
tag codec and then calls `verify`, which re-serializes the *typed* tags to
recompute the id. The codec and the identity therefore interact, and module
EventId composes them.

Only the miner is concurrent. It is where the interleavings are:
- a `best_work` load and store that is not atomic;
- several workers winning before one of them sees `quitting`;
- a worker panicking on `send().unwrap()` once the receiver is dropped, with
  the join discarding the panic;
- `attempt` wrapping at `u64::MAX`.

The codec is where the edge cases of positional decoding are:
- the `""` placeholder;
- implicit empty values;
- `split(':')` on the packed address;
- `?` on typed elements.

Note: event.rs builds `Tag::Nonce { nonce, target, trailing }`, but tag.rs
declares no `trailing` field. The model ignores the field, which new_with_pow
always leaves empty.

## 2. Modules

- **Pow.tla** holds the proof-of-work arithmetic.
  - `LeadingZeroBits` is the byte-wise count of `get_leading_zero_bits`. It
    includes the u8 accumulator, reduced mod 256.
  - `DeclaredTarget` and `Pow` model `Event::pow`. The first nonce tag wins,
    and its target goes through `parse::<u8>().unwrap_or(0)`.
  - Strings are abstracted to what the code does with them. A nonce or target
    string is a decimal rendering `DecStr(n)`, or junk that the parser
    rejects.
  - `LeadingZeroBitsRef` is a reference definition: the number of leading
    zero bits of the digest read as one big-endian number.
- **Miner.tla** models `new_with_pow`.
  - **Constants:** `Cores`, `MaxU` (u64::MAX scaled down), `ZeroBits`,
    `Digests` (what SHA-256 can return), `PreTags` (the caller's tags),
    `HasSender` and `ReceiverMayDrop`.
  - **State:** the caller's phase `mpc`, plus `spawned`, `joined`, `tags` and
    `result`. Each worker has `pc`, `attempt` and `lz`. The atomics are
    `quitting`, `nonce` and `bestWork`. The channel is `receiverAlive` and
    `reported`.
  - **Hashing** is `hashOf`, a function from attempt to digest, chosen in
    `Init`. A worker's copy of the event differs from the final event only in
    the nonce value.
  - **Caller actions:** `Prepare` (lines 178-189), `Spawn` (199-209), `Join`
    (251-253, with a panicked worker's `Err` dropped) and `Finalize`
    (255-261).
  - **Worker actions:** one atomic access to shared state each. These are
    `Check` (216), `Hash` (220-230: hash, and the nonce store on a hit),
    `SetQuit` (231), `SendWin` (233), `LoadBest` (236), `StoreBest` (237) and
    `SendBest` (239). `attempt += 1` (243) is `Succ`, which wraps as in a
    release build.
  - `Send` is a `send().unwrap()`. If the receiver is gone, the worker ends
    in `panicked`.
  - **Environment:** `DropReceiver` is the caller's code dropping the
    receiver before the call returns.
- **MCMiner.tla** fixes the instance.
  - 2 cores and attempts 0..3. Worker 1 starts at 1 (`1 * (3 / 2) = 1`,
    as in the code's integer division).
  - 2-byte digests with 0, 1, 2, 8 and 15 leading zero bits, and a target
    of 8.
  - Three caller tag lists: none, one with a stale nonce tag claiming 2
    bits, and one whose nonce tag has a junk nonce and no target.
  - Its `ASSUME` checks the byte-wise count against the reference on every
    byte, and on all 2- and 3-byte digests over edge bytes.
  - `pre` is a history variable: the caller's tags as passed in. It is
    never read by an action and exists only for the refinement mapping.
- **PowContract.tla** is the abstract specification of `new_with_pow`: in
  one step the call returns the event with the caller's tags stripped of
  nonce tags, one nonce tag, and a nonce that meets the target (`MineHit`),
  or, when the receiver may be dropped, the initial nonce 0
  (`MineAbandoned`). `Spec` has weak fairness of `MineHit`: the call returns
  when a solution exists. Miner instances it with the identity mapping on
  `hashOf`, `pre` and `result` (`Contract == INSTANCE PowContract`), and
  `PowContractSpec == Contract!Spec` is checked as a property.
- **MinerProofs.tla**, **TagSerdeProofs.tla**, **TagCodecProofs.tla** and
  **EventIdProofs.tla** hold the TLAPS proofs (section 5).
- **TagSerde.tla** models the tag codec's functions: `enum Tag`, `Serialize`
  and `visit_seq`, over the word constants. **TagCodec.tla** EXTENDS it with
  the codec's state machine. EventId EXTENDS TagSerde too, so the proofs
  about the codec's functions serve both.
  - A string is the sequence of its `':'`-separated segments. Thus
    `format!("{}:{}:{}")` is concatenation and `split(':')` is the identity
    on segments. Every string conversion is modelled by what it does.
  - Typed fields are parsed by what their deserializers accept: `Hex32`,
    `Hex64` and `CondWords`. `Unixtime` is a JSON number.
  - `Serialize` writes each variant, with the `""` placeholder
    (`EncodeRef`).
  - Each branch of `visit_seq` is an operator: `DecodeAddress`,
    `DecodeDelegation`, `DecodeRef`, …, `DecodeOther`.
    - `Need` is the required-element pattern: a missing element returns
      `Tag::Other` with the strings seen so far, and a malformed one
      propagates `Err`.
    - `OptOk` and `OptVal` read an optional element.
    - `visit_seq` returns early, so each branch's checks are an `IF`/`ELSE IF`
      chain in the code's order (and likewise `verify` and
      `decrypted_contents` in EventId), never a `CASE` with overlapping arms.
  - `TagType` is the type of `enum Tag` (tag.rs 13-122), field by field.
    Three assumptions, evaluated by MCTagCodec and MCEventId: `U32ShowParses`
    (a `u32` displayed then parsed gives itself back) and `EmptySegment`
    (`""` is a string), in TagSerde; `TagUniverseTyped` (the tags the model
    writes are `Tag` values), in TagCodec.
  - The state machine: an application tag is `Encode`d, then `Decode`d. An
    array received from elsewhere is only `Decode`d.
- **MCTagCodec.tla** fixes the codec instance.
  - **Words:** a hex id `h`, a signature `s`, a condition string `c`, plain
    words `""` and `x`, and the numerals `7` and `007` of kind 7.
  - **Tags:** 74 tags covering every variant, each optional field present and
    absent, Address identifiers with and without `':'`, and `Other` under
    unknown and claimed names.
  - **Received arrays:** 12,374 arrays, each a tag name followed by up to
    three elements from nine. The elements include malformed ids, numbers,
    and packed addresses with padded kinds and extra `':'`.
- **TagSemantics.tla** models the read-only queries of `impl Event`:
  `people`, `referenced_people`, `replies_to`, `replies_to_root`,
  `referred_events`, `mentions`, `reacts_to`, `deletes`, `zaps`, `client`,
  `subject`, `content_warning`, `parameter`, `hashtags`, `urls`, `pow` and
  `delegation`.
  - Each query is an operator translated from its loop. An action `Ask…`
    evaluates one query on the current event.
  - Collaborators outside the repository are constants: EventKind's
    predicates, URL validation, the bolt11 parser (`Bolt11`), and the
    delegation signature (`DelegationSig`).
  - `zaps` is a fold (`ZapScan`) over the tags, with the early `return Err`
    of each bolt11 check kept.
  - `referenced_people` matches `#[n]` against a tag's position among all
    tags, counted from 0. No property is stated about it: the rule is the
    filter the code applies, so a property would only restate the
    definition.
- **MCTagSemantics.tla** builds about 21,000 events, each family aimed at
  one group of queries: up to three Event tags with every marker, people and
  placeholders, zap receipts with good and faulty invoices, delegations at
  the boundary times, and ids with 0, 7, 16 and 256 leading zero bits.
- **EventId.tla** models `Event::hash`, `new`, `verify`, the constructors,
  and NIP-04, composed with the codec (it EXTENDS TagSerde).
  - `EventIdTyped` states the Rust types of the constants: a public key's
    hex is a 32-byte hex word, a zapped event is an optional id, relays are
    strings, and the names `"relays"` and `"amount"` and the displayed
    millisats are words without `':'`.
  - `PreEventsCanonical` says that the PreEvents callers build have five
    fields, a `Unixtime` and canonical tags (TagSerde's `Canonical`: no
    `Tag::Other` under a known name, no `':'` in an address identifier).
    It is a hypothesis of the completeness theorems, not an assumption of
    the module: MCTagAddress and MCEventIdForeign show that tags outside it
    do not round-trip. MCEventId checks it (`MCPreEventsCanonical`).
  - **Cryptography:** SHA-256 is an injective map `H` of the serialized text
    `Text(e)`. A signature is the record `Sign(key, digest)`.
  - **Actions:** authors make events (`New`, `NewSetMetadata`,
    `NewZapRequest`, `NewNip04`); events are published as JSON arrays
    (`Publish`). A relay may tamper with them (`Tamper`): change one field,
    copy another event's id or signature, or re-sign with a relay key.
    Foreign clients publish events signed over their raw arrays
    (`PublishForeign`). The clock advances (`Tick`).
  - **Readers** are pure operators that every invariant quantifies over all
    events on the network. `Received` deserializes and runs `verify` under
    each `maxtime`. `ReadDM` runs `decrypted_contents` for a key.
  - `verify` keeps the code's order of checks: signature, then the future
    time, then the hash.
- **MCEventId.tla** fixes two keys (an author and a relay key), one
  PreEvent whose p tag has a petname and no relay (the placeholder case),
  and one with `created_at` 1. It also fixes one message, one iv, and
  contents with a 15-byte iv.

## 3. Runs

| Run (cfg) | Expect | Checks | Shows |
|---|---|---|---|
| MCMiner | pass | TypeOK, ResultMeetsTarget, PowClaimHonoured, Termination | With a live receiver, the event returned meets its target and `pow()` equals the request. The call returns whenever a solution exists (338,856 states). |
| MCMinerNoSender | pass | ResultMeetsTarget, PowClaimHonoured, Termination | The same with no sender; this run fires the `~HasSender` branches (226,545 states). |
| MCMinerContract | pass | MinerInv, PowContractSpec, NonceSlotWrites | The proof's inductive invariant holds, including panicking workers; the winning-nonce slot is only written with a hit and never after the last join; and the threaded miner implements the one-step contract PowContract, including its fairness: every miner behaviour, with `hashOf`, `pre` and `result` mapped to themselves, is a contract behaviour (98,742 states). |
| MCMinerDrop | violation | ResultMeetsTarget | Finding: if the receiver is dropped, every worker panics and the event is signed with nonce 0. |
| MCMinerBest | violation | BestWorkMonotone | Finding: `best_work` can decrease under the load-then-store race. |
| MCTagCodec | pass | RoundTripUpToPlaceholder, FallbackWireStable | Canonical tags round-trip up to the `""` placeholder. Every fallback to `Other` re-serializes to exactly what was read (24,826 states). |
| MCTagAddress | violation | AddressRoundTrip | Finding: an identifier with `':'` breaks the Address round trip. |
| MCTagSemantics | pass | ThreadRoles, ZapDataFromLastInvoice, DelegationSound | Each Event tag has one thread role; an accepted zap carries one invoice's data; a granted delegation was signed for this author, within its bounds. |
| MCTagPow | violation | PowIsMinOfBitsAndTarget | Finding: the all-zero id overflows the u8 count (event.rs 1036). |
| MCEventId | pass | AcceptedIsAuthentic, HonestEventAccepted, RecipientReadsDM | Through a tampering relay and the codec: what `verify` accepts was signed by its author and hashes to its id; honest events are accepted; a DM decrypts for its recipient (136,378 states). |
| MCEventIdForeign | violation | ForeignEventAccepted | Finding: a foreign event carrying `["d"]` fails `verify` after deserialization. |
| MCEventIdPanic | violation | DecryptNeverPanics | Finding: a 15-byte iv makes `decrypted_contents` panic. |

These twelve are the runs of PROJECT.json. Further configurations each
check one property that states what the spec or a comment says, and TLC
finds it violated by the code. They are not in the run list, and their
findings are recorded as hazard notes in PROJECT.json. Run them with
`tlc -config <cfg> <MC module>`:

| Cfg (MC module) | Checks | Shows |
|---|---|---|
| MCMinerTie.cfg (MCMiner) | AtMostOneWinner | Finding: two workers can both store a winning nonce, contrary to spec §5. This is harmless, as MCMiner shows. |
| MCTagRoundTrip.cfg (MCTagCodec) | RoundTrip | Finding: `Other{"d",["x"]}` reads back as `Identifier("x")`. |
| MCTagNeverFails.cfg (MCTagCodec) | NeverFails | Finding: `["e","<not hex>"]` is an error, not `Other` (spec §4.2, §7.3). |
| MCTagWire.cfg (MCTagCodec) | WireStable | Finding: `["d"]` is rewritten as `["d",""]`, so a decoded event fails `verify`. |
| MCTagReplies.cfg (MCTagSemantics) | RepliesAsSpecified | Finding: `replies_to(_root)` returns None when the last (first) Event tag is marked, instead of looking further. |
| MCTagRepost.cfg (MCTagSemantics) | RepostNotInThread | Finding: a repost's Event tag is reported as the thread root. |
| MCTagZapNoEvent.cfg (MCTagSemantics) | ZapNothingWithoutEvent | Finding: a zap of a person with a faulty invoice is an error, not "no zap". |
| MCTagDelegBounds.cfg (MCTagSemantics) | DelegationBoundsStrict | Finding: `created_at>N` admits an event at exactly N. |
| MCEventIdDM.cfg (MCEventId) | PartiesReadDM | Finding: the author of a DM cannot decrypt it. |
| MCEventIdNew.cfg (MCEventId) | NewVerifies | Finding: `Event::new` with a foreign pubkey returns an event that does not verify. |
| MCEventIdMutation.cfg (MCEventId) | MutationDetected | Finding: a p tag's relay None and `""` serialize alike, so that change leaves the event verifying. With `AltTypedTags = {}` the run passes, which isolates the placeholder as the cause. |

Every property of a passing run has a mutant in PROJECT.json: a plausible
bug in a mapped definition that makes TLC report the property violated.

- `Succ → SuccNoWrap`: no u64 wrap; breaks TypeOK.
- `Join → JoinNoWait`: join without waiting; breaks ResultMeetsTarget and
  MinerInv.
- `Prepare → PrepareNoStrip`: old nonce tags kept; breaks PowClaimHonoured
  and PowContractSpec.
- `Hash → HashStrict`: `>` instead of `>=`. When the only digests that meet
  the target have exactly 8 zero bits, the search never ends. Breaks
  Termination.
- `EncodeRef → EncodeRefNoPlaceholder`: breaks RoundTripUpToPlaceholder.
- `DecodeAddress → DecodeAddressNoUrl`: breaks FallbackWireStable.
- `Mentions → MentionsWithLast`, `ZapBolt11 → ZapBolt11NoReturn`,
  `VerifyDelegation → VerifyDelegationAnyDelegatee`: break the three
  TagSemantics properties.
- `Verify → VerifyNoHash` (no hash comparison): breaks AcceptedIsAuthentic.
- `Verify → VerifyTimeInclusive` (`>=` for the future check): breaks
  HonestEventAccepted.
- `DecryptedContents → DecryptedContentsPeerTag` (peer from the p tag):
  breaks RecipientReadsDM.

**Why the bounds are enough.**
- Two workers produce every interleaving of two threads on the three
  atomics: a tie, a lost best-work update, and a quit seen late.
- Four attempts per run, with `hashOf` ranging over all 5^4 functions, give
  runs with no solution, with solutions in either worker's range, and with
  the wrap (worker 1's range is 1..3, then 0).
- Five digest values give two distinct sub-target values, which the
  best-work race needs.
- The codec universe has every variant and every optional-field combination.
  Every codec bug found needs at most four elements.
- EventId has one honest author, one relay key, one event made per run
  (`MaxMade = 1`) and three on the network (`MaxNet = 3`). That is enough for
  an honest event, a tampered copy, and a copy of its id or signature onto
  another event. The PreEvents carry the placeholder case and a `created_at`
  above the checking time.
- MCMinerContract uses three digests, one at each side of the target, so
  runs with and without a solution both occur.

**Fairness.** Termination assumes weak fairness of the caller and of each
worker. Threads are scheduled by the OS, and the lowered priority of the
workers (event.rs 212) delays them but does not starve them. No other
liveness is claimed. PowContract assumes weak fairness of `MineHit` only,
and MCMinerContract checks that the miner's own fairness implies it.
`MineAbandoned` has no fairness: a dropped receiver is the caller's
choice.

Deadlock is not checked where the code returns. In the miner runs, the
call's final state has no successor. In the codec runs, decoding ends once
the array is read. In the EventId runs, the readers are pure, so a run ends
when its bounds are used up. The TagSemantics runs check deadlock: a query
can always be asked again.

## 4. Findings

Six are findings of PROJECT.json's violation runs. The eleven configurations
listed after the run table reproduce the others. Those that most affect
users are:
- **Signing with nonce 0 (MCMinerDrop).** A caller that drops the progress
  receiver gets an event signed with nonce 0 that does not meet its target.
- **Failed verification after decoding (MCTagWire).** Received events
  carrying `["d"]`, `["parameter"]` or a zero-padded address kind fail
  `verify` once decoded, because `verify` hashes the re-serialized typed tags.
  MCEventIdForeign shows this end to end, with a foreign client's event.
- **Panic on a relay-controlled iv (MCEventIdPanic).** `decrypted_contents`
  unwraps the conversion of the decoded iv to 16 bytes.
- **Unreadable own DMs (MCEventIdDM).** `decrypted_contents` always uses the
  event's pubkey as the ECDH peer, so the author cannot read what they sent.
- **Undetected tag mutation (MCEventIdMutation).** The `""` relay
  placeholder makes two distinct typed tags hash alike.

## 5. What is proved (TLAPS)

### The miner (MinerProofs.tla)

The proofs hold for every `Cores ≥ 1`, every `MaxU ≥ 1`, every target, digest
set and tag set, and every value of the two channel constants. They assume
only `MinerAssumption`, which is declared in Miner.tla and evaluated by TLC
in every miner run.

- `MinerInvariant`: `Spec => []MinerInv`. MinerInv is inductive. Its
  conjuncts are:
  - `TypeOK`;
  - `PhaseInv`: the caller's phase, related to `spawned` and `joined`;
  - `NonceInv`: once `quitting` is raised, or any worker is a winner, the
    nonce slot holds a hit;
  - `QuitInv`: a worker only exits through the quit check after quit was
    raised;
  - `PanicInv`: a worker only panics after the receiver is gone, and that
    only happens when a sender exists and the receiver may drop;
  - `JoinInv`: every joined worker has finished;
  - `ResultInv`: the result's id is the hash of the final nonce.

  `ResultMeetsTarget` alone is not inductive. It says nothing before the
  caller is done, so the step into `done` needs the facts about the nonce
  slot and the joined workers that these conjuncts carry.
- `TypeCorrect`: `Spec => []TypeOK`. This includes the claim that the
  wrapping increment keeps `attempt` in `0..MaxU`.
- `MinedEventMeetsTarget`: if no worker can panic on the channel, then
  `Spec => []ResultMeetsTarget`. Worker 0 is joined first. By `JoinInv` it
  has finished, and by `PanicInv` it did not panic. So it won, or it quit
  after quit was raised. Either way `NonceInv` gives a hit, and `ResultInv`
  carries the hit to the returned id.

- `MinerRefinesContract`: `Spec => Contract!Init /\ [][Contract!Next]_Contract!vars`.
  The miner implements the safety part of PowContract under the identity
  mapping of `hashOf`, `pre` and `result`. Every miner step except
  `Finalize` leaves those three unchanged, which is a stutter of the
  contract. `Finalize` is a contract step, by the inductive invariant
  `RefInv`. RefInv is `MinerInv` plus three conjuncts:
  - `NonceZeroOrHit`: the nonce slot is 0 or a hit;
  - `TagsInv`: the caller's tags are `pre` before `Prepare`, and
    `Prepared(pre)` after it;
  - `PendingInv`: the result is `NoEvent` until the call is done.

  If the final nonce is a hit, `Finalize` is `MineHit`. Otherwise the nonce
  is 0, and worker 0 (joined, finished, neither won nor quit) panicked, so
  by `PanicInv` a sender exists and the receiver may drop. That makes
  `Finalize` a `MineAbandoned` step. `StripNonces` is written with a LAMBDA,
  so the contract's instance of it and the miner's expand to the same term.

The proof has two lemmas. `InitMinerInv` covers the initial states.
`NextMinerInv` covers the steps: one case per caller action and one per
worker action (in `WorkerMinerInv`), with one step per conjunct that the
action can disturb.

The refinement rests on `InitRefInv` and `NextRefInv` (same layout), plus
`FinalizeRefines` and `NextRefines`.

- `NonceSlotWritten`: `Spec => NonceSlotWrites`, an action property. Every
  step that changes the winning-nonce slot writes an attempt that hits, and
  happens before the caller reaches `final`. Only `Hash` writes the slot
  (`WorkerNonceWrite`). The worker that writes is at `hash`, so it has not
  finished. By `JoinInv` it has not been joined, and by `PhaseInv` the
  caller is not yet past its joins. This is why `nonce.load()` after the
  joins (event.rs 257) reads a settled value even with `Relaxed` stores.
  Without the wait in `join` (the mutant `JoinNoWait`) a late winner
  overwrites the slot after `final`.

### The tag codec (TagSerdeProofs.tla, TagCodecProofs.tla)

TagSerdeProofs holds the lemmas about the codec's functions, and
TagCodecProofs the theorem about its state machine.

- `CodecRoundTrip`: `Spec => []RoundTripUpToPlaceholder`, for every word
  set, every `u32` display/parse pair and every tag universe, under
  TagCodec's three assumptions.
  - The inductive invariant is `CodecInv`: the tag is a universe tag (or
    none), an encoded wire is `Serialize(tag)`, and a decoded result is
    `Visit(wire)`. The property alone is not inductive: it says nothing in
    the `wire` phase, so the `Decode` step needs the wire's shape.
  - The core lemma is `SerializeVisit`: for every `t \in TagType` with
    `Canonical(t)`, `Visit(Serialize(t)) = Ok(Placeheld(t), Len(Serialize(t)))`.
    `VisitDispatch` picks the branch from the tag name, and one lemma per
    variant (`AddressRoundTripLemma`, `RefRoundTrip`, `OtherRoundTrip`, …)
    follows that branch's `Need`/`OptOk` reads element by element.
  - The sequence lemmas (`ConcatOne`, `OptAfter`, `SeqMono`, …) give
    lengths and elements of the concatenations `Serialize` builds. The
    provers cannot compare such tuples directly.
  - No induction is needed. `Tag::Other` is written and read by functions
    over `1..Len(data)`, so its round trip is elementwise.
  - `SerializePlaceheld`: the placeholder does not show on the wire,
    `Serialize(Placeheld(t)) = Serialize(t)`. So a tag read back serializes
    as the tag sent, which is what makes the hash of a decoded event
    the hash of the original.

### Event identity (EventIdProofs.tla)

- `VerifyAuthentic`: `Spec => []AcceptedIsAuthentic`, for every set of
  keys, relay keys, PreEvents, foreign events and tampering choices.
  - The inductive invariant is `SigInv`. Every event `Event::new` made
    carries a signature of its own id, and that pair is in `signed`. Every
    signature on the network that is not a relay key's signs a pair in
    `signed`.
  - `NextSigInv` has one case per action. The relay's `Tamper` copies or
    replaces ids and signatures, but re-signs only with relay keys.
  - `SigInvAuthentic`: if `verify` accepts `w` under a non-relay key, the
    signature check makes `w.sig` that key's signature of `w.id`. By
    `SigInv` the pair is in `signed`, and the hash check gives
    `w.id = H(Text(FromWire(w)))`.
- `HonestAccepted`: under the hypothesis `PreEventsCanonical`,
  `Spec => []HonestEventAccepted`. `RecipientDecrypts`: under the same
  hypothesis, `Spec => []RecipientReadsDM`.
  - The inductive invariant is `HonestInv`. `now` is a natural number.
    Every PreEvent in `pres` is well formed (`WellFormedPre`: five fields,
    a `Unixtime`, canonical tags). Every event in `made` is `Event::new` of
    its own PreEvent fields with its signer's key (`FromNew`).
  - The properties alone are not inductive. They speak only of `made`,
    while an event is made from a member of `pres`, and `NewNip04` adds to
    `pres`. `NextHonestInv` has one case per action. `MetadataPre`,
    `ZapPreWellFormed` and `Nip04PreWellFormed` show that
    `new_set_metadata`, `new_zap_request` and `new_nip04` build well-formed
    PreEvents. Their tags are `p` and `e` references without relay or
    petname, and `Tag::Other` under `"relays"` and `"amount"`, which are
    not known names.
  - `TagsRoundTrip` applies `SerializeVisit` to every tag of a canonical
    list. `NewEventWire` lifts it to the event: `FromWire(ToWire(e))` has
    `e`'s fields and `e`'s hashed text.
  - From there, `HonestVerifies` follows `verify`'s checks: the
    signature, the future-time check (`created_at` is not after `maxtime`)
    and the hash. `DMDecrypts` follows `decrypted_contents`' checks: the
    kind, the two base64 parts and the 16-byte iv, then the ECDH pair.

**Left to TLC.** Some results are out of the prover's reach:
- Termination, and the fairness part of PowContractSpec: liveness under
  fairness (run MCMinerContract).
- The correctness of `LeadingZeroBits` against its reference, which is
  induction over data. It is checked by MCMiner's ASSUME.
- `PowClaimHonoured`. `Pow` reads the first nonce tag through `SelectSeq`,
  which the provers only handle through induction over the sequence.
- `FallbackWireStable`. It quantifies over every received array, and every
  fallback path of `visit_seq` would need its own lemma over an untyped
  `WireUniverse`. It is not yet attempted.
- The TagSemantics properties. TagSemantics EXTENDS SequencesExt, which
  reaches the RECURSIVE operators of Folds, and that takes away the SMT
  backend.

## 6. Not modelled, and the plan

- **Not modelled:**
  - serde_json's formatting of the serialized text. Its only use is as the
    input of the hash, so `Text(e)` keeps its fields and no layout.
  - signing, SHA-256 and NIP-04 encryption, which are external primitives,
    abstracted as in EventId;
  - `Event::mock` (random test data) and the `ots` field, which no code
    here reads;
  - `Tag::tagname`, which no property reads.
- **Borrowed tag names.** serde_json refuses a borrowed `&str` for a tag name
  that contains JSON escapes, and the string abstraction does not see
  escapes.
- **Trailing elements.** Elements after those the visitor reads are
  rejected by serde_json, not by this code. The codec properties therefore
  require `used = Len(wire)` where it matters.
- **Next steps:**
  - an abstract "decode is a left inverse of encode up to the placeholder"
    specification, refined by TagCodec;
  - more cores and attempts in MCMinerContract, with symmetry over digests.
