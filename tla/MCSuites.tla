------------------------------ MODULE MCSuites ------------------------------
(* Suites for TLC: what a gateway may put in its proposals.                *)
EXTENDS Suites, FiniteSets

CONSTANT Alternatives   \* bound: proposals of a gateway's offer

Wire(id, attrs) == [id |-> id, attrs |-> attrs]
Bits(n) == Attribute(TRUE, "KEY_LENGTH", n)

GCM == Wire("AES_GCM_16", <<Bits(256)>>)
GCMLater == Wire("AES_GCM_16", <<Attribute(FALSE, "other", 1), Bits(256)>>)
GCM128 == Wire("AES_GCM_16", <<Bits(128), Attribute(TRUE, "other", 256)>>)
CHACHA == Wire("CHACHA20_POLY1305", <<>>)
CHACHA0 == Wire("CHACHA20_POLY1305", <<Bits(0)>>)
CHACHA256 == Wire("CHACHA20_POLY1305", <<Bits(256)>>)
CBC == Wire("AES_CBC", <<Bits(256)>>)
HMAC == "HMAC_SHA2_256_128"

\* Lists of up to three ids, one of them not the id of a suite.
MCConfigs == SeqOf({"gcm", "chacha", "cbc", "unknown"}, 3)
MCGroups == {<<>>, <<31>>, <<31, 14>>}
MCKEGroups == {0, 31}

Other == IF Layer = "IKE" THEN "ESP" ELSE "IKE"
Proposals(encrs, integs, dhs, extras, protocols) ==
    {Proposal(1, e, i, d, x, p, z) : e \in encrs, i \in integs, d \in dhs,
                                     x \in extras, p \in protocols, z \in BOOLEAN}

\* Up to two transforms of every type.
MCAnswers ==
    Proposals(SeqOf({GCM, GCMLater, GCM128, CHACHA, CHACHA0, CBC}, 2), SeqOf({HMAC, "AUTH_NONE"}, 2),
              {<<>>, <<31>>, <<31, 14>>}, SeqOf({Required, "other"}, 2), {Layer, Other})

\* Offers, numbered from 1.
MCOffers ==
    LET some == Proposals({<<GCM>>, <<CHACHA>>, <<CBC>>, <<CBC, GCMLater>>, <<GCM128, CHACHA256>>},
                          {<<>>, <<HMAC>>, <<HMAC, "AUTH_NONE">>}, {<<>>, <<14, 31>>},
                          {<<"other", Required>>, <<"other">>}, {Layer})
    IN {[k \in DOMAIN o |-> [o[k] EXCEPT !.number = k]] : o \in SeqOf(some, Alternatives) \ {<<>>}}
=============================================================================
