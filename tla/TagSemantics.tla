---------------------------- MODULE TagSemantics ----------------------------
(***************************************************************************)
(* The read-only queries of an Event over its tags (src/src/types/event.rs,*)
(* impl Event): people, referenced_people, replies_to, replies_to_root,     *)
(* referred_events, mentions, reacts_to, deletes, zaps, client, subject,   *)
(* content_warning, parameter, hashtags, urls, pow and delegation.         *)
(*                                                                         *)
(* An event is a record with the fields the queries read. Tags are records *)
(* named by their variant, with the fields of tag.rs (the same shapes as   *)
(* module TagCodec). Options are <<>> (None) and <<x>> (Some(x)). Content  *)
(* is abstracted to the set of the #[n] placeholders it contains; reacts_to *)
(* and deletes hand it back unchanged. The collaborators that are not in   *)
(* this repository (EventKind's predicates, RelayUrl::try_from_unchecked_url,*)
(* the bolt11 invoice parser, hex decoding, the delegation signature) are   *)
(* constants or abstract values.                                           *)
(***************************************************************************)
EXTENDS Naturals, Sequences, SequencesExt, FiniteSets

CONSTANTS
  FeedKinds,     \* the kinds EventKind::is_feed_displayable accepts
  ParamKinds,    \* the kinds EventKind::is_parameterized_replaceable accepts
  ValidUrls,     \* the urls RelayUrl::try_from_unchecked_url accepts
  Bolt11,        \* Invoice::from_str: the strings that parse, and their invoice
  Events,        \* the events the runs query
  BadHex         \* a string hex decoding of a signature or public key rejects

P == INSTANCE Pow

None == <<>>
Some(x) == <<x>>

\* The delegator's Schnorr signature of the delegation token, which binds
\* the conditions to the delegatee's public key.
DelegationSig(by, delegatee, conds) == [by |-> by, for |-> delegatee,
                                        conds |-> conds]

VARIABLES
  ev,      \* the event being queried
  query,   \* the query last asked
  answer   \* what it returned

vars == <<ev, query, answer>>

-----------------------------------------------------------------------------
(* Tag tests and projections shared by the queries.                        *)

IsE(t) == t.v = "e"
IsP(t) == t.v = "p"
Marked(t, m) == IsE(t) /\ t.marker = Some(m)

\* recommended_relay_url.as_ref().and_then(|rru|
\* RelayUrl::try_from_unchecked_url(rru).ok())
RelayOf(t) == IF t.relay # None /\ t.relay[1] \in ValidUrls THEN t.relay
              ELSE None

\* The Event tags of the event, in order.
ETags(e) == SelectSeq(e.tags, IsE)

\* (id, relay) of the tag at index i, as replies_to and mentions return it.
IdRelay(t) == <<t.ref, RelayOf(t)>>

\* iter().find(..): the first of the tags that pass the test (sel is
\* SelectSeq of the tags with it), or None.
FirstOf(sel) == IF sel = <<>> THEN None ELSE Some(Head(sel))

\* iter().rev().find(..): the last of them, or None.
LastOf(sel) == IF sel = <<>> THEN None ELSE Some(sel[Len(sel)])

-----------------------------------------------------------------------------
(* The queries.                                                            *)

\* people: every Pubkey tag as (pubkey, relay, petname).
People(e) ==
  LET ps == SelectSeq(e.tags, IsP)
  IN  [i \in 1..Len(ps) |-> <<ps[i].ref, RelayOf(ps[i]), ps[i].marker>>]

\* referenced_people: the Pubkey tags whose position n in the tag list
\* (counted from 0 by enumerate) appears in the content as #[n].
ReferencedPeople(e) ==
  LET idx == SelectSeq([i \in 1..Len(e.tags) |-> i],
                       LAMBDA i : IsP(e.tags[i]) /\ (i - 1) \in e.content)
  IN  [j \in 1..Len(idx) |-> LET t == e.tags[idx[j]]
                             IN  <<t.ref, RelayOf(t), t.marker>>]

\* replies_to: a tag marked "reply", else one marked "root", else the last
\* Event tag if it is unmarked.
RepliesTo(e) ==
  LET reply == FirstOf(SelectSeq(e.tags, LAMBDA t : Marked(t, "reply")))
      root  == FirstOf(SelectSeq(e.tags, LAMBDA t : Marked(t, "root")))
      last  == LastOf(SelectSeq(e.tags, IsE))
  IN  CASE e.kind \notin FeedKinds \/ e.kind = "Repost" \/ ETags(e) = <<>>
             -> None
        [] reply # None -> Some(IdRelay(reply[1]))
        [] root # None -> Some(IdRelay(root[1]))
        [] last[1].marker = None -> Some(IdRelay(last[1]))
        [] OTHER -> None

\* replies_to_root: a tag marked "root", else the first Event tag if it is
\* unmarked.
RepliesToRoot(e) ==
  LET root  == FirstOf(SelectSeq(e.tags, LAMBDA t : Marked(t, "root")))
      first == FirstOf(SelectSeq(e.tags, IsE))
  IN  CASE e.kind \notin FeedKinds -> None
        [] root # None -> Some(IdRelay(root[1]))
        [] first # None /\ first[1].marker = None -> Some(IdRelay(first[1]))
        [] OTHER -> None

\* referred_events: every Event tag with its marker.
ReferredEvents(e) ==
  LET es == ETags(e)
  IN  [i \in 1..Len(es) |-> <<es[i].ref, RelayOf(es[i]), es[i].marker>>]

\* Fault variant: the positional slice runs to the last Event tag.
MentionsWithLast(e) ==
  LET es == ETags(e)
      marked == SelectSeq(es, LAMBDA t : t.marker = Some("mention"))
      inner  == IF Len(es) > 2
                THEN SelectSeq(SubSeq(es, 2, Len(es)), LAMBDA t : t.marker = None)
                ELSE <<>>
      pairs(s) == [i \in 1..Len(s) |-> IdRelay(s[i])]
  IN  CASE e.kind \notin FeedKinds -> <<>>
        [] e.kind = "Repost" -> pairs(es)
        [] OTHER -> pairs(marked) \o pairs(inner)

\* mentions: for a repost every Event tag; otherwise the tags marked
\* "mention", then the unmarked ones strictly between the first and the
\* last Event tag when there are more than two.
Mentions(e) ==
  LET es == ETags(e)
      marked == SelectSeq(es, LAMBDA t : t.marker = Some("mention"))
      inner  == IF Len(es) > 2
                THEN SelectSeq(SubSeq(es, 2, Len(es) - 1),
                               LAMBDA t : t.marker = None)
                ELSE <<>>
      pairs(s) == [i \in 1..Len(s) |-> IdRelay(s[i])]
  IN  CASE e.kind \notin FeedKinds -> <<>>
        [] e.kind = "Repost" -> pairs(es)
        [] OTHER -> pairs(marked) \o pairs(inner)

\* reacts_to: for a reaction, the last Event tag and the content.
ReactsTo(e) ==
  LET last == LastOf(SelectSeq(e.tags, IsE))
  IN  IF e.kind # "Reaction" \/ last = None THEN None
      ELSE Some(<<last[1].ref, e.content, RelayOf(last[1])>>)

\* deletes: for a deletion, the ids of all Event tags and the content;
\* nothing when there are none.
Deletes(e) ==
  LET es == ETags(e)
  IN  IF e.kind # "EventDeletion" \/ es = <<>> THEN None
      ELSE Some(<<[i \in 1..Len(es) |-> es[i].ref], e.content>>)

\* client: the first data string of the first "client" tag that has one.
Client(e) ==
  LET c == FirstOf(SelectSeq(e.tags, LAMBDA t : /\ t.v = "other"
                                                /\ t.tag = "client"
                                                /\ t.data # <<>>))
  IN  IF c = None THEN None ELSE Some(c[1].data[1])

\* subject and content_warning: the string of the first such tag.
FirstString(e, nm) ==
  LET t == FirstOf(SelectSeq(e.tags, LAMBDA x : x.v = nm))
  IN  IF t = None THEN None ELSE Some(t[1].s)

\* parameter: for a parameterized replaceable kind, the first Parameter
\* tag's value, or the implicit "".
Parameter(e) ==
  LET t == FirstOf(SelectSeq(e.tags, LAMBDA x : x.v = "parameter"))
  IN  CASE e.kind \notin ParamKinds -> None
        [] t # None -> Some(t[1].s)
        [] OTHER -> Some("")

\* hashtags and urls: feed kinds only; urls keeps the ones that parse.
Hashtags(e) ==
  LET ts == SelectSeq(e.tags, LAMBDA t : t.v = "t")
  IN  IF e.kind \notin FeedKinds THEN <<>>
      ELSE [i \in 1..Len(ts) |-> ts[i].s]

Urls(e) ==
  LET rs == SelectSeq(e.tags, LAMBDA t : t.v = "r" /\ t.url \in ValidUrls)
  IN  IF e.kind \notin FeedKinds THEN <<>>
      ELSE [i \in 1..Len(rs) |-> rs[i].url]

\* pow: the leading zero bits of the id, capped by the first nonce tag's
\* target (module Pow).
PowOf(e) == P!Pow(e.tags, e.id)

-----------------------------------------------------------------------------
(* zaps. The loop over the tags keeps the last Event tag's id and, for     *)
(* every "bolt11" tag, the payee key and amount of its invoice; the first  *)
(* problem with a bolt11 tag returns its error at once.                    *)

ZapStart == [err |-> "", id |-> None, amount |-> None, pubkey |-> None]

\* Fault variant: an invoice without an amount is skipped instead of
\* ending the scan, after its payee key was stored.
ZapBolt11NoReturn(s, t) ==
  LET inv == Bolt11[t.data[1]]
  IN  CASE t.data = <<>>                  -> [s EXCEPT !.err = "missing bolt11"]
        [] t.data[1] \notin DOMAIN Bolt11 -> [s EXCEPT !.err = "parse"]
        [] ~inv.sigok                     -> [s EXCEPT !.err = "signature"]
        [] ~inv.pkok                      -> [s EXCEPT !.err = "payee key"]
        [] inv.amount = None              -> [s EXCEPT !.pubkey = Some(inv.payee)]
        [] OTHER -> [s EXCEPT !.pubkey = Some(inv.payee),
                              !.amount = inv.amount]

\* One bolt11 tag: its first data string must parse as an invoice whose
\* signature checks and whose payee key converts; the key is stored before
\* the amount is looked at.
ZapBolt11(s, t) ==
  LET inv == Bolt11[t.data[1]]
  IN  CASE t.data = <<>>                  -> [s EXCEPT !.err = "missing bolt11"]
        [] t.data[1] \notin DOMAIN Bolt11 -> [s EXCEPT !.err = "parse"]
        [] ~inv.sigok                     -> [s EXCEPT !.err = "signature"]
        [] ~inv.pkok                      -> [s EXCEPT !.err = "payee key"]
        [] inv.amount = None              -> [s EXCEPT !.err = "no amount",
                                                       !.pubkey = Some(inv.payee)]
        [] OTHER -> [s EXCEPT !.pubkey = Some(inv.payee),
                              !.amount = inv.amount]

ZapStep(s, t) ==
  CASE s.err # ""                          -> s
    [] t.v = "other" /\ t.tag = "bolt11"   -> ZapBolt11(s, t)
    [] IsE(t)                              -> [s EXCEPT !.id = Some(t.ref)]
    [] OTHER                               -> s

ZapScan(e) ==
  LET f[i \in 0..Len(e.tags)] ==
        IF i = 0 THEN ZapStart ELSE ZapStep(f[i - 1], e.tags[i])
  IN  f[Len(e.tags)]

ZapOk(z) == [ok |-> TRUE, val |-> z]
ZapErr(why) == [ok |-> FALSE, val |-> why]

Zaps(e) ==
  LET s == ZapScan(e)
  IN  CASE e.kind # "Zap"     -> ZapOk(None)
        [] s.err # ""         -> ZapErr(s.err)
        [] s.id = None        -> ZapOk(None)
        [] s.amount = None    -> ZapErr("missing amount")
        [] s.pubkey = None    -> ZapErr("missing payee")
        [] OTHER -> ZapOk(Some([id |-> s.id[1], amount |-> s.amount[1],
                                pubkey |-> s.pubkey[1]]))

-----------------------------------------------------------------------------
(* delegation: only the first Delegation tag is looked at.                 *)

NotDelegated == [r |-> "not"]
Invalid(why) == [r |-> "invalid", why |-> why]
DelegatedBy(pk) == [r |-> "by", pubkey |-> pk]

\* The conditions' bounds against the event, in the order the code checks
\* them: kind, created_after, created_before.
CheckConditions(e, c, pk) ==
  CASE c.kind # None /\ e.kind # c.kind[1]                 -> Invalid("kind")
    [] c.after # None /\ e.created_at < c.after[1]         -> Invalid("before start")
    [] c.before # None /\ e.created_at > c.before[1]       -> Invalid("after end")
    [] OTHER                                               -> DelegatedBy(pk)

\* Fault variant: the token checked without the delegatee's key.
VerifyDelegationAnyDelegatee(e, t) ==
  t.sig.by = t.pubkey /\ t.sig.conds = t.conds

\* conditions.verify_signature(&delegator_pubkey, &self.pubkey, signature).
VerifyDelegation(e, t) ==
  t.sig = DelegationSig(t.pubkey, e.pubkey, t.conds)

Delegation(e) ==
  LET d == FirstOf(SelectSeq(e.tags, LAMBDA t : t.v = "delegation"))
  IN  CASE d = None                      -> NotDelegated
        [] d[1].sig = BadHex             -> Invalid("signature hex")
        [] d[1].pubkey = BadHex          -> Invalid("pubkey hex")
        [] ~VerifyDelegation(e, d[1])   -> Invalid("signature")
        [] OTHER -> CheckConditions(e, d[1].conds, d[1].pubkey)
-----------------------------------------------------------------------------
(* The queries as steps of a reader of the event. Each records the query   *)
(* and its answer; the event itself is never changed.                      *)

Init ==
  /\ ev \in Events
  /\ query = "none"
  /\ answer = None

Ask(q, val) == query' = q /\ answer' = val /\ UNCHANGED ev

AskPeople           == Ask("people", People(ev))
AskReferencedPeople == Ask("referenced_people", ReferencedPeople(ev))
AskRepliesTo        == Ask("replies_to", RepliesTo(ev))
AskRepliesToRoot    == Ask("replies_to_root", RepliesToRoot(ev))
AskReferredEvents   == Ask("referred_events", ReferredEvents(ev))
AskMentions         == Ask("mentions", Mentions(ev))
AskReactsTo         == Ask("reacts_to", ReactsTo(ev))
AskDeletes          == Ask("deletes", Deletes(ev))
AskZaps             == Ask("zaps", Zaps(ev))
AskClient           == Ask("client", Client(ev))
AskSubject          == Ask("subject", FirstString(ev, "subject"))
AskContentWarning   == Ask("content_warning", FirstString(ev, "content-warning"))
AskParameter        == Ask("parameter", Parameter(ev))
AskHashtags         == Ask("hashtags", Hashtags(ev))
AskUrls             == Ask("urls", Urls(ev))
AskPow              == Ask("pow", PowOf(ev))
AskDelegation       == Ask("delegation", Delegation(ev))

Next ==
  \/ AskPeople \/ AskReferencedPeople \/ AskRepliesTo \/ AskRepliesToRoot
  \/ AskReferredEvents \/ AskMentions \/ AskReactsTo \/ AskDeletes
  \/ AskZaps \/ AskClient \/ AskSubject \/ AskContentWarning
  \/ AskParameter \/ AskHashtags \/ AskUrls \/ AskPow \/ AskDelegation

Spec == Init /\ [][Next]_vars

QueryNames == {"people", "referenced_people", "replies_to", "replies_to_root",
               "referred_events", "mentions", "reacts_to", "deletes", "zaps",
               "client", "subject", "content_warning", "parameter",
               "hashtags", "urls", "pow", "delegation"}
-----------------------------------------------------------------------------
(* Properties.                                                             *)

\* The reply-threading queries (replies_to, replies_to_root, mentions) give
\* each Event tag of a note one role: an explicit "reply" or "root" marker
\* decides replies_to and replies_to_root whatever the order of the tags,
\* and neither the reply nor the root is also reported as a mention.
DistinctRefs(e) ==
  LET es == ETags(e) IN \A i, j \in 1..Len(es) : i # j => es[i].ref # es[j].ref

ThreadRoles ==
  LET reply == FirstOf(SelectSeq(ev.tags, LAMBDA t : Marked(t, "reply")))
      root  == FirstOf(SelectSeq(ev.tags, LAMBDA t : Marked(t, "root")))
  IN  ev.kind \in FeedKinds \ {"Repost"} =>
        /\ reply # None => RepliesTo(ev) = Some(IdRelay(reply[1]))
        /\ root # None => RepliesToRoot(ev) = Some(IdRelay(root[1]))
        /\ DistinctRefs(ev) =>
             \A x \in {RepliesTo(ev), RepliesToRoot(ev)} \ {None} :
               x[1] \notin Range(Mentions(ev))

\* The rules of replies_to and replies_to_root as the thread convention
\* states them: after the markers, the last (for the reply) or the first
\* (for the root) of the *unmarked* Event tags, skipping tags with other
\* markers.
SpecRepliesTo(e) ==
  LET reply == FirstOf(SelectSeq(e.tags, LAMBDA t : Marked(t, "reply")))
      root  == FirstOf(SelectSeq(e.tags, LAMBDA t : Marked(t, "root")))
      last  == LastOf(SelectSeq(e.tags, LAMBDA t : IsE(t) /\ t.marker = None))
  IN  CASE e.kind \notin FeedKinds \/ e.kind = "Repost" -> None
        [] reply # None -> Some(IdRelay(reply[1]))
        [] root # None -> Some(IdRelay(root[1]))
        [] last # None -> Some(IdRelay(last[1]))
        [] OTHER -> None

SpecRepliesToRoot(e) ==
  LET root  == FirstOf(SelectSeq(e.tags, LAMBDA t : Marked(t, "root")))
      first == FirstOf(SelectSeq(e.tags, LAMBDA t : IsE(t) /\ t.marker = None))
  IN  CASE e.kind \notin FeedKinds -> None
        [] root # None -> Some(IdRelay(root[1]))
        [] first # None -> Some(IdRelay(first[1]))
        [] OTHER -> None

\* replies_to and replies_to_root follow the stated thread convention.
RepliesAsSpecified ==
  /\ RepliesTo(ev) = SpecRepliesTo(ev)
  /\ RepliesToRoot(ev) = SpecRepliesToRoot(ev)

\* The Event tags of a repost are mentions, never replies (the comment in
\* replies_to): neither replies_to nor replies_to_root reports one.
RepostNotInThread ==
  ev.kind = "Repost" => RepliesTo(ev) = None /\ RepliesToRoot(ev) = None

\* A zap that zaps() accepts is the data of one invoice: the last bolt11
\* tag's payee and amount, with the last Event tag's id, and no bolt11 tag
\* of the event was faulty.
IsBolt11(t) == t.v = "other" /\ t.tag = "bolt11"

GoodInvoiceTag(t) ==
  /\ t.data # <<>>
  /\ t.data[1] \in DOMAIN Bolt11
  /\ LET inv == Bolt11[t.data[1]]
     IN  inv.sigok /\ inv.pkok /\ inv.amount # None

ZapDataFromLastInvoice ==
  \A z \in {Zaps(ev)} :
    z.ok /\ z.val # None =>
      LET b == LastOf(SelectSeq(ev.tags, IsBolt11))
          l == LastOf(SelectSeq(ev.tags, IsE))
      IN  /\ b # None /\ l # None
          /\ \A i \in 1..Len(ev.tags) : IsBolt11(ev.tags[i]) => GoodInvoiceTag(ev.tags[i])
          /\ z.val[1].id = l[1].ref
          /\ z.val[1].amount = Bolt11[b[1].data[1]].amount[1]
          /\ z.val[1].pubkey = Bolt11[b[1].data[1]].payee

\* A zap receipt that names no event is a zap of a person: zaps() returns
\* nothing for it, never an error.
ZapNothingWithoutEvent ==
  ev.kind = "Zap" /\ ETags(ev) = <<>> => Zaps(ev) = ZapOk(None)

\* delegation() reports DelegatedBy(d) only when d signed the conditions
\* for this event's own public key and the event's kind and created_at
\* are within the conditions (the code's bounds are inclusive).
DelegationSound ==
  \A d \in {Delegation(ev)} :
    d.r = "by" =>
      LET t == FirstOf(SelectSeq(ev.tags, LAMBDA x : x.v = "delegation"))[1]
          c == t.conds
      IN  /\ t.pubkey = d.pubkey
          /\ t.sig = DelegationSig(d.pubkey, ev.pubkey, c)
          /\ c.kind # None => ev.kind = c.kind[1]
          /\ c.after # None => ev.created_at >= c.after[1]
          /\ c.before # None => ev.created_at <= c.before[1]

\* The condition string's grammar is created_at>N and created_at<N: a
\* delegated event lies strictly inside the bounds.
DelegationBoundsStrict ==
  \A d \in {Delegation(ev)} :
    d.r = "by" =>
      LET c == FirstOf(SelectSeq(ev.tags, LAMBDA x : x.v = "delegation"))[1].conds
      IN  /\ c.after # None => ev.created_at > c.after[1]
          /\ c.before # None => ev.created_at < c.before[1]

\* pow() is the minimum of the id's leading zero bits and the target the
\* first nonce tag declares.
PowIsMinOfBitsAndTarget ==
  PowOf(ev) = P!MinOf(P!LeadingZeroBitsOfBits(ev.id), P!DeclaredTarget(ev.tags))
=============================================================================
