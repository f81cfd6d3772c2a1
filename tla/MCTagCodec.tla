----------------------------- MODULE MCTagCodec -----------------------------
(***************************************************************************)
(* Model values for TagCodec: a hex id "h", a hex signature "s", a         *)
(* condition string "c", two plain words "" and "x", and the numerals "7"  *)
(* and "007" of event kind 7. The tags cover every variant with each       *)
(* optional field present and absent; the received arrays are every tag   *)
(* name followed by up to three elements.                                  *)
(***************************************************************************)
EXTENDS TagCodec

MCWords == {"", "x", "h", "s", "c", "7", "007", "zz"} \cup KnownNames

MCU32Parse == [w \in {"7", "007"} |-> 7]

MCU32Show == [k \in {7} |-> "7"]

Texts == {W(""), W("x")}

OptOf(S) == {<<>>} \cup {<<x>> : x \in S}

UpTo2(S) == {<<>>} \cup {<<a>> : a \in S} \cup {<<a, b>> : a, b \in S}

\* Address identifiers: a plain word, and one with a ':' in it.
DStrs == {W("x"), <<"x", "x">>}

MCTagUniverse ==
  {AddressTag(7, W("h"), d, r) : d \in DStrs, r \in OptOf(Texts)}
  \cup {RefTag(nm, W("h"), r, m) : nm \in {"e", "p"},
                                   r \in OptOf(Texts), m \in OptOf(Texts)}
  \cup {StringTag(nm, s) : nm \in StringTagNames, s \in Texts}
  \cup {DelegationTag(W("h"), W("c"), W("s")), ExpirationTag(5), EmptyTag}
  \cup {ReferenceTag(u, m) : u \in Texts, m \in OptOf(Texts)}
  \cup {NonceTagOf(n, t) : n \in Texts, t \in OptOf(Texts)}
  \cup {OtherTag(nm, d) : nm \in {W("zz"), W("d"), W("e")}, d \in UpTo2(Texts)}

\* Elements after the name: words of each kind, packed addresses with a
\* canonical and a zero-padded kind and with a ':' in d, and a number.
Elems ==
  {StrElem(W(w)) : w \in {"", "x", "h", "s", "c"}}
  \cup {StrElem(<<"7", "h", "x">>), StrElem(<<"007", "h", "x">>),
        StrElem(<<"7", "h", "x", "x">>), NumElem(5)}

MCWireUniverse ==
  {<<>>, <<NumElem(5)>>}
  \cup {<<StrElem(W(nm))>> \o t :
          nm \in KnownNames \cup {"zz"},
          t \in UpTo2(Elems) \cup {<<a, b, c>> : a, b, c \in Elems}}
====
