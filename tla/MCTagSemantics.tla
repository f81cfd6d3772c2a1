--------------------------- MODULE MCTagSemantics ---------------------------
(***************************************************************************)
(* Model values for TagSemantics: families of events, each built to reach  *)
(* the cases of one group of queries.                                      *)
(***************************************************************************)
EXTENDS TagSemantics

MCFeedKinds == {"TextNote", "Repost", "Reaction"}
MCParamKinds == {"LongForm"}
MCValidUrls == {"wss"}

\* Invoices: inv1 and inv2 are good, inv3 has no amount, inv4 a bad
\* signature, inv5 a payee key that does not convert; "junk" does not parse.
Inv(sig, pk, payee, amt) == [sigok |-> sig, pkok |-> pk, payee |-> payee,
                             amount |-> amt]
MCBolt11 == ("inv1" :> Inv(TRUE, TRUE, "k1", <<5>>)) @@
            ("inv2" :> Inv(TRUE, TRUE, "k2", <<7>>)) @@
            ("inv3" :> Inv(TRUE, TRUE, "k2", <<>>)) @@
            ("inv4" :> Inv(FALSE, TRUE, "k1", <<5>>)) @@
            ("inv5" :> Inv(TRUE, FALSE, "k1", <<5>>))

Zero32 == [i \in 1..32 |-> 0]
NoPow == [i \in 1..32 |-> 255]

Ev(kind, tags, content) == [kind |-> kind, tags |-> tags, content |-> content,
                            id |-> NoPow, pubkey |-> "k2", created_at |-> 2]

ETag(x, r, m) == [v |-> "e", ref |-> x, relay |-> r, marker |-> m]
PTag(x, r, m) == [v |-> "p", ref |-> x, relay |-> r, marker |-> m]
Other(nm, data) == [v |-> "other", tag |-> nm, data |-> data]
Str(nm, x) == [v |-> nm, s |-> x]

\* Threads: up to three Event tags with every marker, three distinct ids.
Markers == {<<>>, <<"reply">>, <<"root">>, <<"mention">>, <<"x">>}
ThreadTags == {ETag(x, <<>>, m) : x \in {"a", "b", "c"}, m \in Markers}
              \cup {ETag("a", <<"wss">>, <<>>), ETag("a", <<"ftp">>, <<>>)}
Threads == {Ev(k, ts, {}) : k \in {"TextNote", "Repost", "Metadata"},
                            ts \in BoundedSeq(ThreadTags, 3)}

\* People, placeholders and the single-valued projections.
PeopleTags == {PTag("k1", <<>>, <<>>), PTag("k2", <<"wss">>, <<"bob">>),
               ETag("a", <<>>, <<>>), Other("client", <<>>),
               Other("client", <<"app">>), Str("subject", "s"),
               Str("content-warning", "w"), Str("parameter", "q"),
               Str("t", "h"), [v |-> "r", url |-> "wss", marker |-> <<>>],
               [v |-> "r", url |-> "ftp", marker |-> <<>>]}
Peoples == {Ev(k, ts, c) : k \in {"TextNote", "LongForm", "Reaction",
                                  "EventDeletion"},
                           ts \in BoundedSeq(PeopleTags, 2),
                           c \in SUBSET {0, 1}}

\* Zap receipts.
ZapTags == {ETag("a", <<>>, <<>>), ETag("b", <<>>, <<>>),
            Other("bolt11", <<>>), Other("bolt11", <<"junk">>)}
           \cup {Other("bolt11", <<i>>) : i \in DOMAIN MCBolt11}
ZapEvents == {Ev(k, ts, {}) : k \in {"Zap", "TextNote"},
                              ts \in BoundedSeq(ZapTags, 3)}

\* Delegations from k1, to the event's author k2 or to k3.
Conds == {[kind |-> <<>>, after |-> <<2>>, before |-> <<3>>],
          [kind |-> <<"Reaction">>, after |-> <<>>, before |-> <<>>]}
DTags == UNION {{[v |-> "delegation", pubkey |-> pk, conds |-> c, sig |-> s] :
                   s \in {DelegationSig("k1", "k2", c),
                          DelegationSig("k1", "k3", c), BadHex}} :
                  pk \in {"k1", BadHex}, c \in Conds}
Delegations == {[kind |-> k, tags |-> ts, content |-> {}, id |-> NoPow,
                 pubkey |-> "k2", created_at |-> t] :
                  k \in {"TextNote", "Reaction"}, ts \in BoundedSeq(DTags, 2),
                  t \in 1..4}

\* Proof of work: ids with 0, 7, 16 and 256 leading zero bits.
Ids == {NoPow, Zero32, [i \in 1..32 |-> IF i = 1 THEN 1 ELSE 9],
        [i \in 1..32 |-> IF i <= 2 THEN 0 ELSE 128]}
NonceTags == {P!NonceTag(P!DecStr(3), t) :
                t \in {<<>>, <<P!JunkStr>>} \cup {<<P!DecStr(n)>> : n \in {5, 16, 255, 300}}}
Pows == {[kind |-> "TextNote", tags |-> ts, content |-> {}, id |-> d,
          pubkey |-> "k2", created_at |-> 2] :
           d \in Ids, ts \in BoundedSeq(NonceTags, 2)}

MCEvents == Threads \cup Peoples \cup ZapEvents \cup Delegations \cup Pows
=============================================================================
