------------------------------- MODULE MCEdge -------------------------------
(***************************************************************************)
(* The components that steer traffic to and on a host, one at a time.      *)
(* They share no state, so a behaviour of all of them is made of one       *)
(* behaviour of each, and every property is about a single one: focus      *)
(* picks the component that moves.                                         *)
(***************************************************************************)
EXTENDS LeaderVip, HAProxy, RateLimiter, Firewall

CONSTANTS v1, v2   \* nodes of LeaderVip

VARIABLE focus

\* No id occurs in an address; every id in its own; the id of v1 also in the
\* address of v2, being a prefix of its id.
MCNamings == LET Own == {<<v1, v1>>, <<v2, v2>>} IN {{}, Own, Own \cup {<<v2, v1>>}}

edgeAllVars == <<focus, vipVars, edgeVars, limiterVars, fwVars>>

VipMoves(A) == /\ focus = "vip" /\ A
               /\ UNCHANGED <<focus, edgeVars, limiterVars, fwVars>>
HAProxyMoves(A) == /\ focus = "haproxy" /\ A
                   /\ UNCHANGED <<focus, vipVars, limiterVars, fwVars>>
LimiterMoves(A) == /\ focus = "limiter" /\ A
                   /\ UNCHANGED <<focus, vipVars, edgeVars, fwVars>>
FirewallMoves(A) == /\ focus = "firewall" /\ A
                    /\ UNCHANGED <<focus, vipVars, edgeVars, limiterVars>>

EdgeInit ==
    /\ focus \in {"vip", "haproxy", "limiter", "firewall"}
    /\ VipInit /\ HAProxyInit /\ RateLimiterInit /\ FirewallInit
    /\ focus # "vip" => naming = {}

EdgeNext == \/ VipMoves(VipNext) \/ HAProxyMoves(HAProxyNext)
            \/ LimiterMoves(RateLimiterNext) \/ FirewallMoves(FirewallNext)

\* The fairness of each component, for the one that moves.
EdgeSpec ==
    /\ EdgeInit /\ [][EdgeNext]_edgeAllVars
    /\ \A n \in VipNode : WF_edgeAllVars(VipMoves(VipStep(n)))
    /\ WF_edgeAllVars(HAProxyMoves(SyncStep))
    /\ WF_edgeAllVars(LimiterMoves(LimiterStep))

\* EdgeConverges, where HAProxy is the component that moves: the configuration
\* that WatchAndSync loads catches up with a cluster that is stable.
HAProxyCatchesUp == focus = "haproxy" => EdgeConverges
=============================================================================
