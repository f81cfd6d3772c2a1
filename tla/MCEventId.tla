----------------------------- MODULE MCEventId -----------------------------
(***************************************************************************)
(* Model values for EventId. Authors a and b and the relay's key m, each   *)
(* with its hex; two PreEvents, one with a 'p' tag whose petname sits     *)
(* behind the "" placeholder; one plaintext "hi" and one iv. The relay can *)
(* move created_at, switch the kind, write NIP-04 content with a short iv *)
(* or a missing part, and write tags the visitor rejects or reads back    *)
(* differently.                                                            *)
(***************************************************************************)
EXTENDS EventId, TLC

CONSTANTS a, b, m

MCWords == {"", "x", "y", "h", "ha", "hb", "hm", "s", "c", "21", "wss",
            "relays", "amount"} \cup KnownNames

MCKeyHex == (a :> "ha") @@ (b :> "hb") @@ (m :> "hm")

MCU32Parse == [w \in {"7"} |-> 7]
MCU32Show == [k \in {7} |-> "7"]
MCMsatShow == [n \in {21} |-> "21"]

StrW(w) == StrElem(W(w))

MCPreEvents ==
  {[pubkey |-> a, created_at |-> 0, kind |-> 1, content |-> <<Plain("x")>>,
    tags |-> <<RefTag("p", W("hm"), <<>>, <<W("x")>>)>>],
   [pubkey |-> m, created_at |-> 1, kind |-> 1, content |-> <<Plain("y")>>,
    tags |-> <<>>]}

\* Both PreEvents are well formed (the hypothesis of the honest-event
\* theorems).
ASSUME MCPreEventsCanonical == PreEventsCanonical

MCMetadatas == {<<Plain("md")>>}

MCZapIds == {<<W("h")>>}
MCZapRelays == {<<W("wss")>>}

MCAltContents ==
  {<<Plain("y")>>, <<Plain("y"), Plain("y")>>,
   <<B64(Cipher({a, m}, 1, "hi")), Plain("y")>>,
   <<B64(Cipher({a, m}, 1, "hi")), B64(IvBytes(15, 1))>>}

\* A tag list the visitor rejects (a number as the name), and one it reads
\* as Tag::Identifier(""), which serializes as ["d",""].
MCAltTags == {<<>>, <<<<NumElem(5)>>>>, <<<<StrW("d")>>>>}

\* The same 'p' tag as in the first PreEvent, with the relay url "".
MCAltTypedTags == {RefTag("p", W("hm"), <<EmptyStr>>, <<W("x")>>)}

Foreign(tags) == [id |-> None, pubkey |-> None, sig |-> None,
                  created_at |-> 0, kind |-> 1, content |-> <<Plain("x")>>,
                  tags |-> tags]

\* Another client's events: a hashtag, and an identifier without value.
MCForeignEvents == {Foreign(<<<<StrW("t"), StrW("x")>>>>)}
MCForeignUnstable == MCForeignEvents \cup {Foreign(<<<<StrW("d")>>>>)}
=============================================================================
