----------------------------- MODULE MCSession -----------------------------
(* Session for TLC: the environments of the runs.                          *)
EXTENDS Session

\* Nothing happens but what the two ends start on their own.
Quiet ==
    [kinds |-> {}, budget |-> 2, groups |-> {0}, offers |-> {"good"}, declines |-> 0,
     sloppyKE |-> FALSE, timers |-> {}, failures |-> {"ok"}, collides |-> FALSE,
     shutdown |-> FALSE, vanish |-> FALSE, pfs |-> FALSE, fresh |-> 6, ids |-> 3]

\* Rekeys from both ends: IKE SA cutovers with probes around them; Child rekeys
\* with DH groups agreed or not; requests the client has to refuse. Then SAs that
\* go away: Child SAs deleted under a faulty client, and more of them under a
\* sound one; IKE SAs superseded, deleted and shut down, and a gateway that
\* vanishes.
SessionEnvironments ==
    [cutover |-> [Quiet EXCEPT !.kinds = {"dpd", "child", "ike"},
                               !.timers = {"retry", "ike", "idle"}],
     keys    |-> [Quiet EXCEPT !.kinds = {"child", "ike"}, !.groups = {0, 14, 31},
                               !.declines = 1, !.sloppyKE = TRUE, !.pfs = TRUE,
                               !.timers = {"ike", "child", "grace"}, !.shutdown = TRUE],
     offers  |-> [Quiet EXCEPT !.kinds = {"child", "ike"}, !.groups = {0, 19},
                               !.offers = {"good", "incomplete", "NO_PROPOSAL", "INVALID_KE", "SYNTAX"},
                               !.timers = {"child"}, !.failures = {"ok", "early", "ack"},
                               !.fresh = 5],
     failing |-> [Quiet EXCEPT !.kinds = {"dpd", "child", "delESP"},
                               !.timers = {"retry", "ike", "volume", "backoff"},
                               !.failures = {"ok", "early", "send", "ack"}, !.collides = TRUE,
                               !.fresh = 5],
     children |-> [Quiet EXCEPT !.kinds = {"dpd", "child", "delESP"},
                                !.timers = {"retry", "ike", "volume", "backoff"},
                                !.collides = TRUE, !.ids = 4],
     teardown |-> [Quiet EXCEPT !.kinds = {"ike", "delIKE"},
                                !.timers = {"wake", "grace", "oldDel", "retry", "idle", "ike"},
                                !.shutdown = TRUE, !.vanish = TRUE, !.fresh = 5]]

\* The gateway deletes a Child SA, then rekeys the IKE SA.
RejectionEnvironments ==
    [rejected |-> [Quiet EXCEPT !.kinds = {"delESP", "ike"}, !.timers = {"retry"}, !.fresh = 5]]
=============================================================================
