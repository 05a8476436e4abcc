------------------------------ MODULE MCReload ------------------------------
(* Documents for ConfigReload: services that move, change, come and go and  *)
(* cannot be started; the other modes; and files the loader refuses.        *)
EXTENDS ConfigReload

Svc(kind, to, workers, starts) == [kind |-> kind, to |-> to, workers |-> workers, lanes |-> 1, starts |-> starts]
Fwd(rest, services) == [Empty EXCEPT !.ok = TRUE, !.has = {"client"},
                                    !.client = [rest |-> rest, def |-> "k1", services |-> services]]
X(s) == [n \in {"x"} |-> s]
XY(s, t) == [n \in {"x", "y"} |-> IF n = "x" THEN s ELSE t]
Srv(v) == [Empty EXCEPT !.ok = TRUE, !.has = {"server"}, !.server = v]
Claiming(tunnels) == [Empty EXCEPT !.ok = TRUE, !.has = {"transparent"},
    !.transparent = [rest |-> "a", def |-> "k1", claims |-> {"x", "y"}, tunnels |-> tunnels, starts |-> TRUE]]

MCText == [
    base     |-> Fwd("a", X(Svc("udp", Unset, -1, TRUE))),
    moved    |-> Fwd("a", XY(Svc("udp", "k2", 3, TRUE), Svc("tcp", "k1", -1, TRUE))),
    unfit    |-> Fwd("a", XY(Svc("tcp", "k2", -1, FALSE), Svc("tcp", "k2", -1, TRUE))),
    general  |-> Fwd("b", X(Svc("tcp", "k2", -1, TRUE))),
    zero     |-> Fwd("a", X(Svc("udp", Unset, 0, TRUE))),
    claims   |-> Claiming(3),
    starved  |-> Claiming(1),
    server   |-> Srv("s1")]
=============================================================================
