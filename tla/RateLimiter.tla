---------------------------- MODULE RateLimiter -----------------------------
(***************************************************************************)
(* The rate limiter of the haproxy package: addresses that flood get a     *)
(* DROP rule in INPUT for BlockTTL, and a loop sweeps what has expired.    *)
(* The map counts down to its deadline: 0 is the very instant `until`, at  *)
(* which neither existing.After(now) nor now.After(until) holds, and -1    *)
(* any time after it.  iptables is external; any call of it may fail.      *)
(***************************************************************************)
EXTENDS Integers

CONSTANTS
    IP,
    BlockTTL,
    Unlisted,     \* not in the map
    MaxFloods,    \* bound on calls of BlockFloodIP for an address
    MaxIptFaults  \* bound on failing iptables calls and restarts

ASSUME RateLimiterAssumption ==
    /\ {MaxFloods, MaxIptFaults} \subseteq Nat /\ BlockTTL \in Nat \ {0}
    /\ Unlisted \notin Int

VARIABLES
    blocked,   \* the map: time left, or Unlisted
    rules,     \* DROP rules in INPUT per address
    odd,       \* history: what has gone wrong for an address
    floods, iptFaults

limiterVars == <<blocked, rules, odd, floods, iptFaults>>

RateLimiterInit ==
    /\ blocked = [i \in IP |-> Unlisted]
    /\ rules = [i \in IP |-> 0]
    /\ odd = [i \in IP |-> {}]
    /\ floods = [i \in IP |-> 0] /\ iptFaults = 0

Listed(i) == blocked[i] # Unlisted

Odd(i, what) == odd' = [odd EXCEPT ![i] = @ \cup what]

Fault == iptFaults < MaxIptFaults /\ iptFaults' = iptFaults + 1

\* existing.After(time.Now())
StillBlocked(i) == Listed(i) /\ blocked[i] > 0

\* BlockFloodIP.  The map is written before the rule, and an entry that has
\* expired but was not swept gets a second rule.
BlockFloodIP(i) ==
    /\ floods[i] < MaxFloods
    /\ floods' = [floods EXCEPT ![i] = @ + 1]
    /\ blocked' = [blocked EXCEPT ![i] = BlockTTL]
    /\ \/ /\ StillBlocked(i)
          /\ UNCHANGED <<rules, odd, iptFaults>>
       \/ /\ ~StillBlocked(i)
          /\ rules' = [rules EXCEPT ![i] = @ + 1]
          /\ Odd(i, IF Listed(i) THEN {"unswept"} ELSE {})
          /\ UNCHANGED iptFaults
       \/ /\ ~StillBlocked(i) /\ Fault
          /\ Odd(i, {"noInsert"})
          /\ UNCHANGED rules

\* Mutant: the sweep forgets the address and leaves the rule.
UnblockForgets(i) ==
    /\ Listed(i) /\ blocked[i] < 0
    /\ blocked' = [blocked EXCEPT ![i] = Unlisted]
    /\ UNCHANGED <<rules, odd, floods, iptFaults>>

\* UnblockExpired for one address of the map: -D deletes one rule, and an
\* error of iptables is not looked at.
UnblockExpired(i) ==
    /\ Listed(i) /\ blocked[i] < 0
    /\ blocked' = [blocked EXCEPT ![i] = Unlisted]
    /\ \/ /\ rules' = [rules EXCEPT ![i] = IF @ > 0 THEN @ - 1 ELSE 0]
          /\ UNCHANGED <<odd, iptFaults>>
       \/ /\ rules[i] > 0 /\ Fault
          /\ Odd(i, {"noDelete"})
          /\ UNCHANGED rules
    /\ UNCHANGED floods

Elapse ==
    /\ \E i \in IP : Listed(i) /\ blocked[i] >= 0
    /\ blocked' = [i \in IP |-> IF Listed(i) /\ blocked[i] >= 0 THEN blocked[i] - 1
                                                                ELSE blocked[i]]
    /\ UNCHANGED <<rules, odd, floods, iptFaults>>

\* The daemon starts again with an empty map; the kernel keeps its rules.
LimiterRestarts ==
    /\ Fault
    /\ blocked' = [i \in IP |-> Unlisted]
    /\ odd' = [i \in IP |-> IF rules[i] > 0 THEN odd[i] \cup {"restart"} ELSE odd[i]]
    /\ UNCHANGED <<rules, floods>>

RateLimiterNext == (\E i \in IP : BlockFloodIP(i) \/ UnblockExpired(i)) \/ Elapse
                   \/ LimiterRestarts

RateLimiterSpec == RateLimiterInit /\ [][RateLimiterNext]_limiterVars

\* Time passes, and RunExpiryLoop sweeps.
LimiterStep == Elapse \/ \E i \in IP : UnblockExpired(i)
RateLimiterFairSpec == RateLimiterSpec /\ WF_limiterVars(LimiterStep)

-----------------------------------------------------------------------------
\* Properties.

\* An address has one rule while it is in the map and none otherwise, unless
\* it flooded again between its expiry and the sweep, iptables failed or the
\* daemon restarted; and a block in force has its rule unless its insertion
\* failed, whatever else went wrong.
RulesMatchMap ==
    \A i \in IP :
        /\ odd[i] = {} => rules[i] = IF Listed(i) THEN 1 ELSE 0
        /\ StillBlocked(i) /\ "noInsert" \notin odd[i] => rules[i] > 0

\* "IPs are unblocked after BlockTTL unless they continue flooding", as long
\* as none of that happens.
FloodUnblocked == \A i \in IP : rules[i] > 0 ~> (rules[i] = 0 \/ odd[i] # {})

\* The same without the exemptions, as ratelimit.go says it.  With an address
\* that stops flooding, an iptables that works and no restart it still fails:
\* a block renewed between its expiry and the sweep has two rules, and the
\* sweep deletes one.
UnblockedAfterTTL == \A i \in IP : rules[i] > 0 ~> rules[i] = 0
=============================================================================
