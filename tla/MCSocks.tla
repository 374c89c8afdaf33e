------------------------------ MODULE MCSocks ------------------------------
(* Socks for TLC: one connection in detail; several that compete for slots. *)
EXTENDS Socks

CONSTANTS c1, c2, c3

Alone == [conns |-> {c1}, max |-> 0, idle |-> TRUE, half |-> TRUE,
          acts |-> {"send", "fin", "slow", "gone"}, units |-> 2]
Crowd == [conns |-> {c1, c2, c3}, max |-> 2, idle |-> TRUE, half |-> TRUE,
          acts |-> {"cancel"}, units |-> 0]

SocksScenes ==
    {Alone, [Alone EXCEPT !.half = FALSE, !.units = 1], [Alone EXCEPT !.idle = FALSE, !.units = 1],
     Crowd, [Crowd EXCEPT !.conns = {c1, c2}, !.max = 1, !.idle = FALSE, !.acts = {"cancel", "fin"}]}
=============================================================================
