------------------------------ MODULE IKEWire ------------------------------
(***************************************************************************)
(* What travels between the client's driver and the gateway after the      *)
(* handshake, and the keys the two ends derive from it.                    *)
(*                                                                         *)
(* Cryptography is symbolic.  A nonce (with the SPI drawn beside it) is a  *)
(* number nobody drew before.  An IKE SA is known by what its SKEYSEED     *)
(* depends on: the nonces of the SA whose SK_d fed the derivation, the two *)
(* nonces of the exchange and the DH group.  KEYMAT of a Child SA is known *)
(* the same way.  Two ends hold the same keys iff the records are equal,   *)
(* and a message can be opened only with the IKE SA that sealed it.        *)
(***************************************************************************)
EXTENDS Naturals

\* DeriveRekeyIKE: the SKEYSEED of a rekeyed IKE SA.  Group 0 is no DH exchange.
DeriveRekeyIKE(sa, ni, nr, group) ==
    [from |-> sa.n, n |-> <<ni, nr>>, dh |-> group]

\* The SA of the IKE_SA_INIT handshake, in group g; the handshake drew 1 and 2.
FirstIKE(g) == [from |-> <<0, 0>>, n |-> <<1, 2>>, dh |-> g]
NoIKE == [from |-> <<0, 0>>, n |-> <<0, 0>>, dh |-> 0]

\* DeriveChildKeys (group 0) and DeriveChildKeysPFS.
DeriveChildKeys(sa, ni, nr, group) ==
    [ike |-> sa.n, n |-> <<ni, nr>>, dh |-> group]

\* A Child SA as this client sees it: in is our inbound SPI (InitiatorSPI),
\* out the gateway's (ResponderSPI).
FirstChild(g) ==
    [in |-> 1, out |-> 2, key |-> DeriveChildKeys(FirstIKE(g), 1, 2, 0)]

-----------------------------------------------------------------------------
(* Payloads.                                                               *)
Empty == [t |-> "empty"]
DeleteIKE == [t |-> "delIKE"]
DeleteESP(spi) == [t |-> "delESP", spi |-> spi]
Notify(why) == [t |-> "notify", why |-> why]

\* CREATE_CHILD_SA for a Child SA.  rekey is the SPI in N(REKEY_SA), 0 if the
\* notify is absent; ke the group of the KE payload, 0 if absent; offer is
\* "good", "incomplete" (no SA payload or no nonce), or the notify that its
\* proposals and its KE value deserve.
ChildRequest(ni, spi, rekey, ke, offer) ==
    [t |-> "child", ni |-> ni, spi |-> spi, rekey |-> rekey, ke |-> ke, offer |-> offer]
\* sel is the DH group of the selected proposal, 0 if it has none.
ChildResponse(nr, spi, ke, sel) ==
    [t |-> "child", nr |-> nr, spi |-> spi, ke |-> ke, sel |-> sel]

\* CREATE_CHILD_SA for the IKE SA itself.
IKERequest(ni, ke, offer) == [t |-> "ike", ni |-> ni, ke |-> ke, offer |-> offer]
IKEResponse(nr, ke) == [t |-> "ike", nr |-> nr, ke |-> ke]

-----------------------------------------------------------------------------
\* EncryptToSK and FinalizeSK seal the payloads under the sender's keys of sa.
Message(from, sa, ex, resp, id, body) ==
    [from |-> from, sa |-> sa, ex |-> ex, resp |-> resp, id |-> id, body |-> body]

\* OpenSK: the ICV or tag is valid under the SA the message was sealed with, and
\* under no other; what is inside then reads back.
OpenSK(sa, m) == m.sa = sa

NoMessage == Message("nobody", NoIKE, "none", FALSE, 0, Empty)

\* What a request of the gateway may offer.
Offer == {"good", "incomplete", "NO_PROPOSAL", "INVALID_KE", "SYNTAX"}

\* Whether r is the answer to the request q.
Answers(r, q) ==
    /\ r.resp /\ ~q.resp /\ r.from # q.from
    /\ r.sa = q.sa /\ r.ex = q.ex /\ r.id = q.id
=============================================================================
