---------------------------- MODULE MCHandshake ----------------------------
(* Handshake for TLC: the settings of the run.                             *)
EXTENDS Handshake

\* A gateway with a cookie threshold that insists on our second group.
Retries == [psk |-> FALSE, tries |-> 1, group |-> MODP2048, epochs |-> 1,
            dup |-> FALSE, misorders |-> FALSE]

MCSettings ==
    [retries |-> Retries,
     secret  |-> [Retries EXCEPT !.psk = TRUE],
     late    |-> [Retries EXCEPT !.tries = 2, !.dup = TRUE],
     disorder |-> [psk |-> FALSE, tries |-> 2, group |-> X25519, epochs |-> 0,
                   dup |-> TRUE, misorders |-> TRUE]]
=============================================================================
