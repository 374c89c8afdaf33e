------------------------------- MODULE Suites -------------------------------
(***************************************************************************)
(* Negotiating a transform suite (internal/session/suite.go), for the      *)
(* Child SA and for the IKE SA: the proposals the client offers, how it    *)
(* reads the proposal a gateway selected, and how it picks from the        *)
(* proposals a gateway offers in a rekey.                                  *)
(*                                                                         *)
(* The gateway is external and well-formed only as far as the parser sees  *)
(* to it: a proposal holds any list of transforms of each type.  Transform *)
(* IDs are names.  On the wire a transform has a list of attributes; to    *)
(* the client it has bits, the set of its Key Length, empty if absent.     *)
(* What the key schedule needs is that both ends read one suite, with one  *)
(* key length, out of the proposal that was selected.                      *)
(***************************************************************************)
EXTENDS Naturals, Sequences, SequencesExt

CONSTANTS
    Layer,     \* "ESP" or "IKE"
    Configs,   \* the configured lists of suite ids
    Groups,    \* the lists of DH groups the client offers
    Answers,   \* the proposals a gateway may select
    Offers,    \* the lists of proposals a gateway may offer
    KEGroups   \* the group of the KE payload beside its offer, 0: none

ASSUME LayerAssumption == Layer \in {"ESP", "IKE"}

VARIABLES
    enabled,   \* enabledSuites of the configuration
    offer,     \* the proposals on the wire
    group,     \* requireGroup
    answer,    \* the proposal that came back
    suite,     \* the suite the client takes
    st         \* where the negotiation stands

vars == <<enabled, offer, group, answer, suite, st>>

-----------------------------------------------------------------------------
(* The suites.                                                             *)

Transform(id, bits) == [id |-> id, bits |-> bits]

\* espSuites and ikeSuites, which have the same rows; integ "" is AEAD.
Table == <<[id |-> "gcm",    encr |-> Transform("AES_GCM_16", {256}), integ |-> ""],
           [id |-> "chacha", encr |-> Transform("CHACHA20_POLY1305", {}), integ |-> ""],
           [id |-> "cbc",    encr |-> Transform("AES_CBC", {256}), integ |-> "HMAC_SHA2_256_128"]>>
NoSuite == [id |-> "none", encr |-> Transform("", {}), integ |-> ""]

aead(s) == s.integ = ""

suiteByID(id) == SelectSeq(Table, LAMBDA s : s.id = id)

\* validateCipherSuites: no id twice, and none that the layer does not implement.
validateCipherSuites(ids) ==
    /\ IsInjective(ids)
    /\ \A k \in DOMAIN ids : suiteByID(ids[k]) # <<>>

\* enabledSuites: the caller's order, or the whole table; unknown ids are skipped.
enabledSuites(ids) ==
    IF ids = <<>> THEN Table ELSE FlattenSeq([k \in DOMAIN ids |-> suiteByID(ids[k])])

\* extra is the PRF of an IKE proposal and the ESN of an ESP proposal; sized
\* says that its SPI is as long as the protocol wants.
Required == IF Layer = "IKE" THEN "PRF_HMAC_SHA2_256" ELSE "ESN_NONE"
Proposal(n, encr, integ, dh, extra, protocol, sized) ==
    [number |-> n, encr |-> encr, integ |-> integ, dh |-> dh, extra |-> extra,
     protocol |-> protocol, sized |-> sized]
NoProposal == Proposal(0, <<>>, <<>>, <<>>, <<>>, Layer, FALSE)

buildProposalForSuite(n, s, groups) ==
    Proposal(n, <<s.encr>>, IF aead(s) THEN <<>> ELSE <<s.integ>>, groups,
             <<Required>>, Layer, TRUE)

buildProposals(suites, groups) ==
    [k \in DOMAIN suites |-> buildProposalForSuite(k, suites[k], groups)]

-----------------------------------------------------------------------------
(* The SA payload.  An attribute is type and value (tv), or has a length    *)
(* beside its value; the Key Length is one of the first kind.               *)

Attribute(tv, type, value) == [tv |-> tv, type |-> type, value |-> value]
KeyLength(a) == a.tv /\ a.type = "KEY_LENGTH"

marshalTransform(t) ==
    [id |-> t.id, attrs |-> SetToSeq({Attribute(TRUE, "KEY_LENGTH", n) : n \in t.bits})]

\* parseTransforms walks the attributes, wherever the Key Length is among them.
parseTransform(w) ==
    Transform(w.id, FoldLeft(LAMBDA bits, a : IF KeyLength(a) THEN {a.value} ELSE bits, {}, w.attrs))

\* marshalBody and unmarshalBody; transforms of the other types have no attributes.
marshalBody(props) ==
    [j \in DOMAIN props |->
        [props[j] EXCEPT !.encr = [k \in DOMAIN @ |-> marshalTransform(@[k])]]]
unmarshalBody(wire) ==
    [j \in DOMAIN wire |->
        [wire[j] EXCEPT !.encr = [k \in DOMAIN @ |-> parseTransform(@[k])]]]

-----------------------------------------------------------------------------
(* Matching.                                                               *)

hasTransform(list, t) == \E k \in DOMAIN list : list[k] = t

\* Fault: the Key Length attribute is not compared.
suiteMatches_AnyKeyLength(s, p) ==
    /\ p.protocol = Layer
    /\ \E k \in DOMAIN p.encr : p.encr[k].id = s.encr.id
    /\ hasTransform(p.extra, Required)
    /\ IF aead(s) THEN p.integ = <<>> \/ hasTransform(p.integ, "AUTH_NONE")
                  ELSE hasTransform(p.integ, s.integ)

\* The suite is among the alternatives of the proposal.
suiteMatches(s, p) ==
    /\ p.protocol = Layer
    /\ hasTransform(p.encr, s.encr)
    /\ hasTransform(p.extra, Required)
    /\ IF aead(s) THEN p.integ = <<>> \/ hasTransform(p.integ, "AUTH_NONE")
                  ELSE hasTransform(p.integ, s.integ)

\* Fault: a selection is matched like an offer.
isSelectionFor_Presence(s, p) == suiteMatches(s, p)

\* The proposal is narrowed to the suite: one transform of each type.
isSelectionFor(s, p) ==
    /\ suiteMatches(s, p)
    /\ Len(p.encr) = 1 /\ Len(p.dh) <= 1 /\ Len(p.extra) = 1
    /\ IF aead(s) THEN p.integ = <<>> \/ p.integ = <<"AUTH_NONE">> ELSE Len(p.integ) = 1

\* selectedSuite: the first enabled suite it is a selection of.
selectedSuite(p, suites) ==
    LET k == SelectInSeq(suites, LAMBDA s : isSelectionFor(s, p))
    IN IF k = 0 THEN NoSuite ELSE suites[k]

\* The proposals of an offer that carry the suite, and the group if one is needed.
Fitting(props, s, g) ==
    {j \in DOMAIN props :
        /\ suiteMatches(s, props[j]) /\ props[j].sized
        /\ g # 0 => hasTransform(props[j].dh, g)}

\* Fault: the first proposal decides, not the most preferred suite.
selectProposal_PeerOrder(props, suites, g) ==
    LET j == SelectInSeq(props, LAMBDA p : \E k \in DOMAIN suites :
                            p.number \in Fitting(props, suites[k], g))
        k == SelectInSeq(suites, LAMBDA s : j \in Fitting(props, s, g))
    IN IF j = 0 THEN [n |-> 0, s |-> NoSuite] ELSE [n |-> props[j].number, s |-> suites[k]]

\* selectProposal: our most preferred suite, and the first proposal that fits.
selectProposal(props, suites, g) ==
    LET k == SelectInSeq(suites, LAMBDA s : Fitting(props, s, g) # {})
        j == CHOOSE j \in Fitting(props, suites[k], g) :
                \A i \in Fitting(props, suites[k], g) : j <= i
    IN IF k = 0 THEN [n |-> 0, s |-> NoSuite] ELSE [n |-> props[j].number, s |-> suites[k]]

-----------------------------------------------------------------------------
(* A negotiation: the client asks, or the gateway does.                    *)
Init ==
    /\ \E ids \in Configs : validateCipherSuites(ids) /\ enabled = enabledSuites(ids)
    /\ offer = <<>> /\ group = 0
    /\ answer = NoProposal /\ suite = NoSuite
    /\ st = "start"

\* initiateChildRekey, initiateIKERekey, IKE_SA_INIT and IKE_AUTH offer every
\* enabled suite.
ClientOffers ==
    /\ st = "start"
    /\ \E gs \in Groups : offer' = marshalBody(buildProposals(enabled, gs))
    /\ st' = "offered"
    /\ UNCHANGED <<enabled, group, answer, suite>>

GatewaySelects ==
    /\ st = "offered"
    /\ \E p \in Answers : answer' = p
    /\ st' = "selected"
    /\ UNCHANGED <<enabled, offer, group, suite>>

\* childRekeyResponse and completeIKERekey.
ClientDecodes ==
    /\ st = "selected"
    /\ LET s == selectedSuite(unmarshalBody(<<answer>>)[1], enabled)
       IN IF s = NoSuite \/ ~answer.sized
          THEN st' = "refused" /\ UNCHANGED suite
          ELSE st' = "accepted" /\ suite' = s
    /\ UNCHANGED <<enabled, offer, group, answer>>

GatewayOffers ==
    /\ st = "start"
    /\ \E o \in Offers, g \in KEGroups : offer' = o /\ group' = g
    /\ st' = "asked"
    /\ UNCHANGED <<enabled, answer, suite>>

\* handleChildRekeyRequest and handleIKERekeyRequest: the answer is the selected
\* proposal narrowed to the selected suite.
ClientSelects ==
    /\ st = "asked"
    /\ LET c == selectProposal(unmarshalBody(offer), enabled, group)
       IN IF c.s = NoSuite
          THEN st' = "declined" /\ UNCHANGED <<answer, suite>>
          ELSE /\ st' = "answered" /\ suite' = c.s
               /\ answer' = marshalBody(<<buildProposalForSuite(c.n, c.s,
                                          IF group = 0 THEN <<>> ELSE <<group>>)>>)[1]
    /\ UNCHANGED <<enabled, offer, group>>

Next == ClientOffers \/ GatewaySelects \/ ClientDecodes \/ GatewayOffers \/ ClientSelects

Spec == Init /\ [][Next]_vars

-----------------------------------------------------------------------------
(* Properties.                                                             *)

\* RFC 7296, 2.7 and 3.3: p takes one of q's alternatives for each type of
\* transform.  No INTEG and INTEG NONE are the same.  The DH group is checked
\* against the KE payloads elsewhere.
OneOf(list, alternatives) == Len(list) = 1 /\ list[1] \in ToSet(alternatives)
Meaning(w) == <<w.id, {a.value : a \in {b \in ToSet(w.attrs) : b.tv /\ b.type = "KEY_LENGTH"}}>>
Meanings(list) == [k \in DOMAIN list |-> Meaning(list[k])]
Narrows(p, q) ==
    /\ p.protocol = q.protocol
    /\ OneOf(Meanings(p.encr), Meanings(q.encr)) /\ OneOf(p.extra, q.extra)
    /\ \/ OneOf(p.integ, q.integ)
       \/ p.integ \in {<<>>, <<"AUTH_NONE">>}
          /\ (q.integ = <<>> \/ hasTransform(q.integ, "AUTH_NONE"))
    /\ Len(p.dh) <= 1

\* The client takes a selection exactly when it narrows a proposal the client
\* offered, and takes it for the suite of that proposal: an echo of several
\* alternatives, an extra transform or another key length never leaves the two
\* ends with different keys, and no proper selection is turned down
\* (selectedSuite, isSelectionFor).
SelectionExact ==
    st \in {"accepted", "refused"} =>
        \A k \in DOMAIN offer :
            answer.sized /\ Narrows(answer, offer[k]) <=> st = "accepted" /\ suite = enabled[k]

\* What the client answers to an offer narrows the very proposal it names, group
\* included (handleChildRekeyRequest, "narrowed to the SELECTED suite").
AnswerNarrowsOffer ==
    st = "answered" =>
        /\ Narrows(answer, offer[answer.number])
        /\ group # 0 => answer.dh = <<group>> /\ hasTransform(offer[answer.number].dh, group)

\* The client picks the best: it declines only an offer in which no enabled suite
\* can be narrowed, and never passes over a suite it prefers to the one it picks,
\* in whatever proposal and among whatever alternatives it is offered.
Possible(s) ==
    \E j \in DOMAIN offer :
        /\ offer[j].sized
        /\ Narrows(marshalBody(<<buildProposalForSuite(j, s, <<>>)>>)[1], offer[j])
        /\ group # 0 => hasTransform(offer[j].dh, group)
BestAnswer ==
    /\ st = "declined" => \A k \in DOMAIN enabled : ~Possible(enabled[k])
    /\ st = "answered" => \A k \in DOMAIN enabled :
                             Possible(enabled[k]) => k >= IndexFirstSubSeq(<<suite>>, enabled)
=============================================================================
