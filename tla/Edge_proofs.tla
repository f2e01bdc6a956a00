---------------------------- MODULE Edge_proofs -----------------------------
(***************************************************************************)
(* Proofs about the components at the edge of a host: the firewall chain,  *)
(* the HAProxy configuration, the rate limiter and the virtual IP, for     *)
(* every set of servers, addresses and nodes and every value of the        *)
(* bounds.                                                                 *)
(***************************************************************************)
EXTENDS LeaderVip, HAProxy, RateLimiter, Firewall, SequenceTheorems,
        WellFoundedInduction, TLAPS

-----------------------------------------------------------------------------
\* The firewall chain.

Rule == {Accept(s, p) : s \in FwServer, p \in FwPort} \cup {DropFrom(i) : i \in FwIP}

\* No ACCEPT ahead of a DROP in any sequence of rules.
DropsFirst(seq) ==
    \A i, j \in 1..Len(seq) :
        seq[i].target = "ACCEPT" /\ seq[j].target = "DROP" => j < i

\* A set of naturals that is not empty has a least element.
LEMMA LeastNatural ==
    ASSUME NEW T, T \subseteq Nat, T # {}
    PROVE  \E m \in T : \A j \in T : m <= j
<1> DEFINE R == OpToRel(<, Nat)
<1>1. IsWellFoundedOn(R, Nat)
  BY NatLessThanWellFounded
<1>2. \A x, y \in Nat : <<y, x>> \in R <=> y < x
  BY DEF OpToRel
<1> HIDE DEF R
<1>3. PICK m \in T : \A y \in T : ~(<<y, m>> \in R)
  BY <1>1, WFMin
<1>4. \A j \in T : ~(j < m)
  BY <1>2, <1>3, Zenon
<1> QED
  BY <1>4

\* iptables -D leaves the chain as it is, or takes one rule out of it and keeps
\* the order of the others.
LEMMA WithoutCases ==
    ASSUME NEW S, NEW seq \in Seq(S), NEW r
    PROVE  \/ Without(seq, r) = seq
           \/ \E k \in 1..Len(seq) :
                /\ Without(seq, r) \in Seq(S)
                /\ Len(Without(seq, r)) = Len(seq) - 1
                /\ \A i \in 1..Len(seq) - 1 :
                      Without(seq, r)[i] = IF i < k THEN seq[i] ELSE seq[i + 1]
<1> DEFINE First(k) == seq[k] = r /\ \A j \in 1..k-1 : seq[j] # r
           k0 == CHOOSE i \in 1..Len(seq) : First(i)
<1>1. CASE ~\E i \in 1..Len(seq) : seq[i] = r
  BY <1>1 DEF Without
<1>2. CASE \E i \in 1..Len(seq) : seq[i] = r
  <2>1. Without(seq, r) = SubSeq(seq, 1, k0 - 1) \o SubSeq(seq, k0 + 1, Len(seq))
    BY <1>2 DEF Without
  <2>2. PICK m \in 1..Len(seq) : First(m)
    <3> DEFINE Hit == {i \in 1..Len(seq) : seq[i] = r}
    <3>1. Hit \subseteq Nat /\ Hit # {}
      BY <1>2
    <3>2. PICK m \in Hit : \A j \in Hit : m <= j
      BY <3>1, LeastNatural
    <3> QED
      BY <3>2
  <2>3. k0 \in 1..Len(seq)
    BY <2>2
  <2> HIDE DEF k0
  <2> DEFINE a == SubSeq(seq, 1, k0 - 1)
             b == SubSeq(seq, k0 + 1, Len(seq))
  <2>4. a \in Seq(S) /\ Len(a) = k0 - 1 /\ \A i \in 1..k0 - 1 : a[i] = seq[i]
    BY <2>3, SubSeqProperties
  <2>5. /\ b \in Seq(S) /\ Len(b) = Len(seq) - k0
        /\ \A i \in 1..Len(seq) - k0 : b[i] = seq[k0 + i]
    BY <2>3, SubSeqProperties
  <2> HIDE DEF a, b
  <2> DEFINE w == a \o b
  <2>6. /\ w \in Seq(S) /\ Len(w) = Len(a) + Len(b)
        /\ \A i \in 1..Len(a) + Len(b) : w[i] = IF i <= Len(a) THEN a[i] ELSE b[i - Len(a)]
    BY <2>4, <2>5, ConcatProperties
  <2>7. Without(seq, r) = w
    BY <2>1 DEF a, b
  <2> HIDE DEF w
  <2>8. \A i \in 1..Len(seq) - 1 : w[i] = IF i < k0 THEN seq[i] ELSE seq[i + 1]
    <3> TAKE i \in 1..Len(seq) - 1
    <3>1. CASE i < k0
      BY <3>1, <2>3, <2>4, <2>5, <2>6
    <3>2. CASE i >= k0
      <4>1. i - (k0 - 1) \in 1..Len(seq) - k0 /\ k0 + (i - (k0 - 1)) = i + 1
        BY <3>2, <2>3
      <4>2. i \in 1..Len(a) + Len(b) /\ ~(i <= Len(a)) /\ Len(a) = k0 - 1
        BY <3>2, <2>3, <2>4, <2>5
      <4>3. w[i] = b[i - (k0 - 1)]
        BY <4>2, <2>6
      <4> QED
        BY <3>2, <4>1, <4>3, <2>3, <2>5
    <3> QED
      BY <3>1, <3>2, <2>3
  <2>9. w \in Seq(S) /\ Len(w) = Len(seq) - 1
    BY <2>3, <2>4, <2>5, <2>6
  <2> QED
    BY <2>3, <2>7, <2>8, <2>9
<1> QED
  BY <1>1, <1>2

\* Deleting a rule never puts an ACCEPT ahead of a DROP.
LEMMA WithoutDropsFirst ==
    ASSUME NEW seq \in Seq(Rule), NEW r, DropsFirst(seq)
    PROVE  Without(seq, r) \in Seq(Rule) /\ DropsFirst(Without(seq, r))
<1>1. CASE Without(seq, r) = seq
  BY <1>1
<1>2. CASE Without(seq, r) # seq
  <2> DEFINE w == Without(seq, r)
  <2>1. PICK k \in 1..Len(seq) :
           /\ w \in Seq(Rule) /\ Len(w) = Len(seq) - 1
           /\ \A i \in 1..Len(seq) - 1 : w[i] = IF i < k THEN seq[i] ELSE seq[i + 1]
    BY <1>2, WithoutCases
  <2> HIDE DEF w
  <2>2. DropsFirst(w)
    BY <2>1 DEF DropsFirst
  <2> QED
    BY <2>1, <2>2 DEF w
<1> QED
  BY <1>1, <1>2

FirewallInv == chain \in Seq(Rule) /\ DropsFirst(chain)

\* FirewallInv is inductive, one case per action that writes the chain.
LEMMA FirewallStep == FirewallInv /\ [FirewallNext]_fwVars => FirewallInv'
<1> SUFFICES ASSUME FirewallInv, [FirewallNext]_fwVars PROVE FirewallInv'
  OBVIOUS
<1>1. CASE UNCHANGED chain
  BY <1>1 DEF FirewallInv, DropsFirst
<1>2. ASSUME NEW s \in FwServer, NEW p \in FwPort, OpenPort(s, p) PROVE FirewallInv'
  <2>1. Accept(s, p) \in Rule /\ Accept(s, p).target = "ACCEPT"
    BY DEF Rule, Accept
  <2>2. chain' = Append(chain, Accept(s, p))
    BY <1>2 DEF OpenPort
  <2> QED
    BY <2>1, <2>2 DEF FirewallInv, DropsFirst
<1>3. ASSUME NEW r, chain' = Without(chain, r) PROVE FirewallInv'
  BY <1>3, WithoutDropsFirst DEF FirewallInv
<1>4. ASSUME NEW i \in FwIP, BlockIP(i) PROVE FirewallInv'
  <2>1. DropFrom(i) \in Rule /\ DropFrom(i).target = "DROP"
    BY DEF Rule, DropFrom
  <2>2. chain' = <<DropFrom(i)>> \o chain
    BY <1>4 DEF BlockIP
  <2>3. <<DropFrom(i)>> \in Seq(Rule) /\ Len(<<DropFrom(i)>>) = 1 /\ <<DropFrom(i)>>[1] = DropFrom(i)
    BY <2>1
  <2>4. /\ chain' \in Seq(Rule) /\ Len(chain') = Len(chain) + 1
        /\ chain'[1] = DropFrom(i)
        /\ \A j \in 1..Len(chain') : j > 1 => chain'[j] = chain[j - 1]
    BY <2>2, <2>3, ConcatProperties DEF FirewallInv
  <2>5. ASSUME NEW k \in 1..Len(chain'), NEW j \in 1..Len(chain'),
               chain'[k].target = "ACCEPT", chain'[j].target = "DROP"
        PROVE  j < k
    <3>1. k > 1
      BY <2>1, <2>4, <2>5
    <3>2. CASE j = 1
      BY <3>1, <3>2
    <3>3. CASE j > 1
      <4>1. k - 1 \in 1..Len(chain) /\ j - 1 \in 1..Len(chain)
        BY <3>1, <3>3, <2>4 DEF FirewallInv
      <4>2. chain[k - 1].target = "ACCEPT" /\ chain[j - 1].target = "DROP"
        BY <3>1, <3>3, <2>4, <2>5
      <4> QED
        BY <4>1, <4>2 DEF FirewallInv, DropsFirst
    <3> QED
      BY <3>2, <3>3
  <2> QED
    BY <2>4, <2>5 DEF FirewallInv, DropsFirst
<1> QED
  BY <1>1, <1>2, <1>3, <1>4
  DEF FirewallNext, fwVars, EnsureChain, ClosePort, UnblockIP, FlushServerRules, FlushOne,
      FirewallCrash

\* In every reachable chain of AETHERNET_FW no ACCEPT of a server is ahead of
\* the DROP of a blocked address, through any order of OpenPort, ClosePort,
\* BlockIP, UnblockIP and FlushServerRules, failing iptables calls and crashes.
THEOREM BlocksFirstThm == FirewallSpec => []BlocksFirst
<1>1. FirewallInit => FirewallInv
  BY DEF FirewallInit, FirewallInv, DropsFirst
<1>2. FirewallInv => BlocksFirst
  BY DEF FirewallInv, DropsFirst, BlocksFirst
<1> QED
  BY <1>1, <1>2, FirewallStep, PTL DEF FirewallSpec

-----------------------------------------------------------------------------
\* The HAProxy configuration.

\* The file that Sync is about to rename has been accepted, and nothing else
\* gets to haproxy.cfg or to the process.
SyncInv ==
    /\ OnlyValidated
    /\ sync = "rename" => Valid(tmp)

\* SyncInv is inductive.
LEMMA SyncStepInv == SyncInv /\ [HAProxyNext]_edgeVars => SyncInv'
<1> SUFFICES ASSUME SyncInv, [HAProxyNext]_edgeVars PROVE SyncInv'
  OBVIOUS
<1> USE DEF SyncInv, OnlyValidated, Valid
<1>1. CASE UNCHANGED edgeVars
  BY <1>1 DEF edgeVars
<1>2. CASE RecordsChange
  BY <1>2 DEF RecordsChange, SetServerState, SetServerHost, Evacuated
<1>3. CASE ReadNodes
  BY <1>3 DEF ReadNodes
<1>4. CASE ReadServerEntries
  BY <1>4 DEF ReadServerEntries
<1>5. CASE WriteTmp
  BY <1>5 DEF WriteTmp
<1>6. CASE Validate
  BY <1>6 DEF Validate
<1>7. CASE RenameConfig
  BY <1>7 DEF RenameConfig
<1>8. CASE ReloadHAProxy
  BY <1>8 DEF ReloadHAProxy
<1>9. CASE SyncFails
  BY <1>9 DEF SyncFails
<1>10. CASE StartIfNotRunning
  BY <1>10 DEF StartIfNotRunning
<1>11. CASE EdgeDaemonCrash
  BY <1>11 DEF EdgeDaemonCrash
<1>12. CASE HAProxyDies
  BY <1>12 DEF HAProxyDies
<1> QED
  BY <1>1, <1>2, <1>3, <1>4, <1>5, <1>6, <1>7, <1>8, <1>9, <1>10, <1>11, <1>12
  DEF HAProxyNext, SyncStep

\* haproxy.cfg and the running configuration are always ones that haproxy -c
\* accepted, whatever command of Sync fails and wherever the daemon dies.
THEOREM OnlyValidatedThm == HAProxySpec => []OnlyValidated
<1>1. HAProxyInit => SyncInv
  BY DEF HAProxyInit, SyncInv, OnlyValidated
<1>2. SyncInv => OnlyValidated
  BY DEF SyncInv
<1> QED
  BY <1>1, <1>2, SyncStepInv, PTL DEF HAProxySpec

-----------------------------------------------------------------------------
\* The rate limiter.

LimiterTypeOK ==
    /\ blocked \in [IP -> Int \cup {Unlisted}]
    /\ rules \in [IP -> Nat]
    /\ odd \in [IP -> SUBSET {"unswept", "noInsert", "noDelete", "restart"}]

\* What RulesMatchMap says of one address.
Matches(i) ==
    /\ odd[i] = {} => rules[i] = IF Listed(i) THEN 1 ELSE 0
    /\ StillBlocked(i) /\ "noInsert" \notin odd[i] => rules[i] > 0

\* The map, the rules and the history keep their types.
LEMMA LimiterTypeStep == LimiterTypeOK /\ [RateLimiterNext]_limiterVars => LimiterTypeOK'
<1> SUFFICES ASSUME LimiterTypeOK, [RateLimiterNext]_limiterVars PROVE LimiterTypeOK'
  OBVIOUS
<1> USE RateLimiterAssumption DEF LimiterTypeOK
<1>1. CASE UNCHANGED limiterVars
  BY <1>1 DEF limiterVars
<1>2. ASSUME NEW i \in IP, BlockFloodIP(i) PROVE LimiterTypeOK'
  BY <1>2 DEF BlockFloodIP, Odd, Fault
<1>3. ASSUME NEW i \in IP, UnblockExpired(i) PROVE LimiterTypeOK'
  BY <1>3 DEF UnblockExpired, Odd, Fault
<1>4. CASE Elapse
  <2>1. \A i \in IP : Listed(i) => blocked[i] \in Int
    BY DEF Listed
  <2> QED
    BY <1>4, <2>1 DEF Elapse
<1>5. CASE LimiterRestarts
  BY <1>5 DEF LimiterRestarts, Fault
<1> QED
  BY <1>1, <1>2, <1>3, <1>4, <1>5 DEF RateLimiterNext

\* RulesMatchMap is inductive once they have.
LEMMA LimiterInvStep ==
    LimiterTypeOK /\ RulesMatchMap /\ [RateLimiterNext]_limiterVars => RulesMatchMap'
<1> SUFFICES ASSUME LimiterTypeOK, RulesMatchMap, [RateLimiterNext]_limiterVars,
                    NEW j \in IP
             PROVE  Matches(j)'
  BY DEF RulesMatchMap, Matches
<1>0. Matches(j)
  BY DEF RulesMatchMap, Matches
<1> USE <1>0, RateLimiterAssumption DEF LimiterTypeOK, Matches, StillBlocked, Listed
<1>1. CASE UNCHANGED limiterVars
  BY <1>1 DEF limiterVars
<1>2. ASSUME NEW i \in IP, BlockFloodIP(i) PROVE Matches(j)'
  BY <1>2 DEF BlockFloodIP, Odd, Fault
<1>3. ASSUME NEW i \in IP, UnblockExpired(i) PROVE Matches(j)'
  <2>1. CASE j = i
    BY <1>3, <2>1 DEF UnblockExpired, Odd, Fault
  <2>2. CASE j # i
    BY <1>3, <2>2 DEF UnblockExpired, Odd, Fault
  <2> QED
    BY <2>1, <2>2
<1>4. CASE Elapse
  BY <1>4 DEF Elapse
<1>5. CASE LimiterRestarts
  BY <1>5 DEF LimiterRestarts, Fault
<1> QED
  BY <1>1, <1>2, <1>3, <1>4, <1>5 DEF RateLimiterNext

\* The DROP rules of INPUT agree with the map of the rate limiter for every
\* address nothing went wrong with, and a block in force has its rule unless
\* the call that inserts it failed.
THEOREM RulesMatchMapThm == RateLimiterSpec => []RulesMatchMap
<1>1. RateLimiterInit => LimiterTypeOK /\ RulesMatchMap
  BY RateLimiterAssumption
  DEF RateLimiterInit, LimiterTypeOK, RulesMatchMap, StillBlocked, Listed
<1> QED
  BY <1>1, LimiterTypeStep, LimiterInvStep, PTL DEF RateLimiterSpec

-----------------------------------------------------------------------------
\* The virtual IP.

Seen == VipNode \cup {NoLeader}

VipTypeOK ==
    /\ leader \in Seen
    /\ view \in [VipNode -> Seen]
    /\ obs \in [VipNode -> Seq(Seen)] /\ out \in [VipNode -> Seq(Seen)]
    /\ todo \in [VipNode -> {"idle", "MASTER", "BACKUP"}]
    /\ conf \in [VipNode -> {"none", "MASTER", "BACKUP"}]
    /\ running \in [VipNode -> {"none", "MASTER", "BACKUP"}]
    /\ haproxyUp \in [VipNode -> BOOLEAN]
    /\ fresh \in [VipNode -> BOOLEAN]

\* The newest observation a node has not acted on is the leader it knows of,
\* wherever on its way to keepalived it is.
Informed(n) ==
    fresh[n] =>
        /\ obs[n] # <<>> => obs[n][Len(obs[n])] = view[n]
        /\ obs[n] = <<>> /\ out[n] # <<>> => out[n][Len(out[n])] = view[n]
        /\ obs[n] = <<>> /\ out[n] = <<>> /\ todo[n] # "idle" => todo[n] = Role(n, view[n])
        /\ Idle(n) => conf[n] = Role(n, view[n]) /\ running[n] = Role(n, view[n])

\* Every step keeps the types, one case per action.
LEMMA VipTypeStep == VipTypeOK /\ [VipNext]_vipVars => VipTypeOK'
<1> SUFFICES ASSUME VipTypeOK, [VipNext]_vipVars PROVE VipTypeOK'
  OBVIOUS
<1> USE DEF VipTypeOK, Seen
<1>1. CASE UNCHANGED vipVars
  BY <1>1 DEF vipVars
<1>2. ASSUME NEW l \in Seen, ElectVip(l) PROVE VipTypeOK'
  BY <1>2 DEF ElectVip, VipSpend
<1>3. ASSUME NEW n \in VipNode, NEW v \in Seen, Observe(n, v) PROVE VipTypeOK'
  BY <1>3 DEF Observe
<1>4. ASSUME NEW n \in VipNode, Pump(n) PROVE VipTypeOK'
  <2>1. Head(obs[n]) \in Seen /\ Tail(obs[n]) \in Seq(Seen)
    BY <1>4 DEF Pump
  <2> QED
    BY <1>4, <2>1 DEF Pump
<1>5. ASSUME NEW n \in VipNode, WatchLeaderChanges(n) PROVE VipTypeOK'
  BY <1>5 DEF WatchLeaderChanges, Role
<1>6. ASSUME NEW n \in VipNode, WriteConfig(n) PROVE VipTypeOK'
  BY <1>6 DEF WriteConfig
<1>7. ASSUME NEW n \in VipNode, WriteConfigFails(n) PROVE VipTypeOK'
  BY <1>7 DEF WriteConfigFails, VipSpend
<1>8. ASSUME NEW n \in VipNode, KeepalivedRestarts(n) PROVE VipTypeOK'
  BY <1>8 DEF KeepalivedRestarts
<1>9. ASSUME NEW n \in VipNode, DaemonRestarts(n) PROVE VipTypeOK'
  BY <1>9 DEF DaemonRestarts, VipSpend
<1>10. ASSUME NEW n \in VipNode, HAProxyFlips(n) PROVE VipTypeOK'
  BY <1>10 DEF HAProxyFlips
<1> QED
  BY <1>1, <1>2, <1>3, <1>4, <1>5, <1>6, <1>7, <1>8, <1>9, <1>10
  DEF VipNext, VipStep, LearnLeader, LoseContact

\* The newest element of a channel after a send.
LEMMA NewestOfAppend ==
    ASSUME NEW S, NEW q \in Seq(S), NEW e \in S
    PROVE  Append(q, e) # <<>> /\ Append(q, e)[Len(Append(q, e))] = e
BY AppendProperties

\* The newest element of a channel after a receive that leaves something.
LEMMA NewestOfTail ==
    ASSUME NEW S, NEW q \in Seq(S), Len(q) > 1
    PROVE  Tail(q) # <<>> /\ Tail(q)[Len(Tail(q))] = q[Len(q)]
<1> DEFINE t == Tail(q)
<1>1. t \in Seq(S) /\ Len(t) = Len(q) - 1 /\ \A i \in 1..Len(t) : t[i] = q[i + 1]
  BY HeadTailProperties, EmptySeq
<1> HIDE DEF t
<1>2. Len(t) \in 1..Len(t) /\ Len(t) + 1 = Len(q)
  BY <1>1
<1>3. t[Len(t)] = q[Len(q)] /\ t # <<>>
  BY <1>1, <1>2
<1> QED
  BY <1>3 DEF t

\* A channel with a single element.
LEMMA NewestOfOne ==
    ASSUME NEW S, NEW q \in Seq(S), q # <<>>, ~(Len(q) > 1)
    PROVE  Tail(q) = <<>> /\ Head(q) = q[Len(q)]
<1>1. Len(q) = 1
  <2>1. Len(q) \in Nat \ {0}
    BY EmptySeq
  <2> QED
    BY <2>1
<1>2. Tail(q) \in Seq(S) /\ Len(Tail(q)) = 0
  BY <1>1, HeadTailProperties
<1>3. Head(q) = q[1]
  BY HeadTailProperties
<1> QED
  BY <1>1, <1>2, <1>3, EmptySeq

\* Every step keeps every node informed.
LEMMA InformedStep ==
    ASSUME VipTypeOK, [VipNext]_vipVars, NEW m \in VipNode, Informed(m)
    PROVE  Informed(m)'
<1> USE DEF VipTypeOK, Seen, Informed, Idle
<1>1. CASE UNCHANGED vipVars
  BY <1>1 DEF vipVars, Role
<1>2. ASSUME NEW l \in Seen, ElectVip(l) PROVE Informed(m)'
  BY <1>2 DEF ElectVip, VipSpend, Role
<1>3. ASSUME NEW n \in VipNode, NEW v \in Seen, Observe(n, v) PROVE Informed(m)'
  <2>1. CASE m = n
    <3>1. fresh'[m] => obs'[m] = Append(obs[m], v) /\ view'[m] = v
      BY <1>3, <2>1 DEF Observe
    <3>2. Append(obs[m], v) # <<>> /\ Append(obs[m], v)[Len(Append(obs[m], v))] = v
      BY NewestOfAppend
    <3> QED
      BY <3>1, <3>2
  <2>2. CASE m # n
    BY <1>3, <2>2 DEF Observe, Role
  <2> QED
    BY <2>1, <2>2
<1>4. ASSUME NEW n \in VipNode, Pump(n) PROVE Informed(m)'
  <2>1. CASE m = n
    <3>1. /\ obs[m] \in Seq(Seen) /\ obs[m] # <<>> /\ out[m] \in Seq(Seen)
          /\ obs'[m] = Tail(obs[m]) /\ view' = view /\ (fresh'[m] => fresh[m])
      BY <1>4, <2>1 DEF Pump
    <3>2. CASE Len(obs[m]) > 1
      <4>1. obs'[m] # <<>> /\ obs'[m][Len(obs'[m])] = obs[m][Len(obs[m])]
        BY <3>1, <3>2, NewestOfTail
      <4> QED
        BY <4>1, <3>1
    <3>3. CASE ~(Len(obs[m]) > 1)
      <4>1. obs'[m] = <<>> /\ Head(obs[m]) = obs[m][Len(obs[m])] /\ Head(obs[m]) \in Seen
        BY <3>1, <3>3, NewestOfOne
      <4> DEFINE o == Append(out[m], Head(obs[m]))
      <4>2. fresh'[m] => out'[m] = o
        BY <1>4, <2>1, <3>3 DEF Pump
      <4>3. o # <<>> /\ o[Len(o)] = Head(obs[m])
        <5> HIDE DEF VipTypeOK, Informed, Idle
        <5>1. ASSUME NEW e \in Seen PROVE Append(out[m], e) # <<>> /\ Append(out[m], e)[Len(Append(out[m], e))] = e
          BY <3>1, NewestOfAppend
        <5> QED
          BY <5>1, <4>1
      <4> HIDE DEF o
      <4> QED
        BY <3>1, <4>1, <4>2, <4>3
    <3> QED
      BY <3>2, <3>3
  <2>2. CASE m # n
    BY <1>4, <2>2 DEF Pump, Role
  <2> QED
    BY <2>1, <2>2
<1>5. ASSUME NEW n \in VipNode, WatchLeaderChanges(n) PROVE Informed(m)'
  <2>1. CASE m = n
    <3>1. /\ out[m] \in Seq(Seen) /\ out[m] # <<>> /\ todo'[m] = Role(m, Head(out[m]))
          /\ out'[m] = Tail(out[m]) /\ view' = view /\ obs' = obs /\ fresh' = fresh
          /\ naming' = naming
      BY <1>5, <2>1 DEF WatchLeaderChanges
    <3>2. CASE Len(out[m]) > 1
      <4>1. out'[m] # <<>> /\ out'[m][Len(out'[m])] = out[m][Len(out[m])]
        BY <3>1, <3>2, NewestOfTail
      <4> QED
        BY <4>1, <3>1
    <3>3. CASE ~(Len(out[m]) > 1)
      <4>1. out'[m] = <<>> /\ Head(out[m]) = out[m][Len(out[m])]
        BY <3>1, <3>3, NewestOfOne
      <4>2. todo'[m] # "idle"
        BY <3>1 DEF Role
      <4> QED
        BY <3>1, <4>1, <4>2 DEF Role
    <3> QED
      BY <3>2, <3>3
  <2>2. CASE m # n
    BY <1>5, <2>2 DEF WatchLeaderChanges, Role
  <2> QED
    BY <2>1, <2>2
<1>6. ASSUME NEW n \in VipNode, WriteConfig(n) PROVE Informed(m)'
  BY <1>6 DEF WriteConfig, Role
<1>7. ASSUME NEW n \in VipNode, WriteConfigFails(n) PROVE Informed(m)'
  BY <1>7 DEF WriteConfigFails, VipSpend, Role
<1>8. ASSUME NEW n \in VipNode, KeepalivedRestarts(n) PROVE Informed(m)'
  BY <1>8 DEF KeepalivedRestarts, Role
<1>9. ASSUME NEW n \in VipNode, DaemonRestarts(n) PROVE Informed(m)'
  BY <1>9 DEF DaemonRestarts, VipSpend, Role
<1>10. ASSUME NEW n \in VipNode, HAProxyFlips(n) PROVE Informed(m)'
  BY <1>10 DEF HAProxyFlips, Role
<1> QED
  BY <1>1, <1>2, <1>3, <1>4, <1>5, <1>6, <1>7, <1>8, <1>9, <1>10
  DEF VipNext, VipStep, LearnLeader, LoseContact

\* A node that runs as MASTER outranks every BACKUP, its HAProxy down and
\* theirs up.
LEMMA MasterOutranks ==
    ASSUME NEW l, NEW n, running[l] = "MASTER", running[n] = "BACKUP"
    PROVE  ~(Priority(l) <= Priority(n))
<1>1. Priority(l) \in {150, 130}
  BY DEF Priority
<1>2. Priority(n) \in {100, 80}
  BY DEF Priority
<1> QED
  BY <1>1, <1>2

\* For every naming of the nodes: when every node has acted on the last leader
\* it was told of, and the id of some node occurs in that leader's address,
\* keepalived has the address on such a node.
THEOREM VipFollowsLeaderThm == VipSpec => []VipFollowsLeader
<1> DEFINE VipInv == VipTypeOK /\ \A n \in VipNode : Informed(n)
<1>1. VipInit => VipInv
  <2> SUFFICES ASSUME VipInit PROVE VipInv
    OBVIOUS
  <2>1. VipTypeOK
    BY DEF VipInit, VipTypeOK, Seen
  <2>2. \A n \in VipNode : Informed(n)
    BY DEF VipInit, Informed
  <2> QED
    BY <2>1, <2>2
<1>2. VipInv /\ [VipNext]_vipVars => VipInv'
  BY VipTypeStep, InformedStep
<1>3. VipInv => VipFollowsLeader
  <2> SUFFICES ASSUME VipInv, NEW l \in VipNode, Known(l), \A n \in VipNode : Idle(n),
                      NEW m \in Named(l), NEW h \in Holders, h \notin Named(l)
               PROVE  FALSE
    BY DEF VipFollowsLeader
  <2>1. m \in VipNode /\ h \in VipNode /\ Priority(m) <= Priority(h)
    BY DEF Holders, Named
  <2>2. running[m] = Role(m, l) /\ running[h] = Role(h, l)
    BY <2>1 DEF Known, Informed
  <2>3. running[m] = "MASTER" /\ running[h] = "BACKUP"
    BY <2>1, <2>2, VipAssumption DEF Role, Named
  <2> QED
    BY <2>1, <2>3, MasterOutranks
<1> QED
  BY <1>1, <1>2, <1>3, PTL DEF VipSpec
=============================================================================
