------------------------------ MODULE Firewall ------------------------------
(***************************************************************************)
(* firewall.Manager: the AETHERNET_FW chain with the ACCEPT rules of       *)
(* servers and the DROP rules of blocked addresses.  Every operation holds *)
(* the mutex; any iptables call (external) may fail.  Server ids have a    *)
(* fixed length, so a tag occurs in no other tag.                          *)
(***************************************************************************)
EXTENDS Naturals, Sequences

CONSTANTS
    FwServer, FwPort, FwIP,
    MaxRules,     \* bound on the rules of the chain
    MaxFwFaults   \* bound on failing iptables calls and crashes

ASSUME FirewallAssumption == {MaxRules, MaxFwFaults} \subseteq Nat

VARIABLES
    chain,     \* the rules of AETHERNET_FW in order, <<>> before -N too
    created,   \* the chain exists
    hooked,    \* the chains that jump to it
    flushing,  \* the rules of -S that FlushServerRules still has to delete
    fwFaults

fwVars == <<chain, created, hooked, flushing, fwFaults>>

FirewallInit ==
    /\ chain = <<>> /\ created = FALSE /\ hooked = {} /\ flushing = <<>>
    /\ fwFaults = 0

Accept(s, p) == [target |-> "ACCEPT", srv |-> s, port |-> p]
DropFrom(i) == [target |-> "DROP", ip |-> i]

FwFault == fwFaults < MaxFwFaults /\ fwFaults' = fwFaults + 1

\* -D: the first rule that matches, if there is one.
Without(seq, r) ==
    IF \E i \in 1..Len(seq) : seq[i] = r
    THEN LET k == CHOOSE i \in 1..Len(seq) : seq[i] = r /\ \A j \in 1..i-1 : seq[j] # r
         IN SubSeq(seq, 1, k - 1) \o SubSeq(seq, k + 1, Len(seq))
    ELSE seq

\* The mutex is free.
Free == flushing = <<>>

\* -N, and for INPUT and FORWARD -C and, when that fails, -I; errors of -N and
\* -I are ignored, so that a call may leave any of it undone.
EnsureChain ==
    /\ Free
    /\ \/ created' = TRUE /\ hooked' = {"INPUT", "FORWARD"} /\ UNCHANGED fwFaults
       \/ /\ FwFault /\ created' \in {created, TRUE}
          /\ \E H \in SUBSET {"INPUT", "FORWARD"} :
                hooked' = IF created' THEN hooked \cup H ELSE hooked
    /\ UNCHANGED <<chain, flushing>>

\* A call that fails changes nothing; OpenPort, ClosePort, BlockIP and
\* UnblockIP return the error.
OpenPort(s, p) ==
    /\ Free /\ created /\ Len(chain) < MaxRules
    /\ chain' = Append(chain, Accept(s, p))
    /\ UNCHANGED <<created, hooked, flushing, fwFaults>>

ClosePort(s, p) ==
    /\ Free
    /\ chain' = Without(chain, Accept(s, p))
    /\ UNCHANGED <<created, hooked, flushing, fwFaults>>

\* Mutant: -A instead of -I.
BlockIPLast(i) ==
    /\ Free /\ created /\ Len(chain) < MaxRules
    /\ chain' = Append(chain, DropFrom(i))
    /\ UNCHANGED <<created, hooked, flushing, fwFaults>>

BlockIP(i) ==
    /\ Free /\ created /\ Len(chain) < MaxRules
    /\ chain' = <<DropFrom(i)>> \o chain
    /\ UNCHANGED <<created, hooked, flushing, fwFaults>>

UnblockIP(i) ==
    /\ Free
    /\ chain' = Without(chain, DropFrom(i))
    /\ UNCHANGED <<created, hooked, flushing, fwFaults>>

\* FlushServerRules lists the chain once and deletes the server's rules one
\* call at a time, ignoring errors.
FlushServerRules(s) ==
    /\ Free
    /\ flushing' = SelectSeq(chain, LAMBDA r : r.target = "ACCEPT" /\ r.srv = s)
    /\ UNCHANGED <<chain, created, hooked, fwFaults>>

FlushOne ==
    /\ flushing # <<>>
    /\ flushing' = Tail(flushing)
    /\ \/ chain' = Without(chain, Head(flushing)) /\ UNCHANGED fwFaults
       \/ FwFault /\ UNCHANGED chain
    /\ UNCHANGED <<created, hooked>>

\* The daemon dies; the kernel keeps the chain.
FirewallCrash ==
    /\ flushing # <<>> /\ FwFault
    /\ flushing' = <<>>
    /\ UNCHANGED <<chain, created, hooked>>

FirewallNext ==
    \/ EnsureChain \/ FlushOne \/ FirewallCrash
    \/ \E s \in FwServer : FlushServerRules(s) \/ \E p \in FwPort : OpenPort(s, p) \/ ClosePort(s, p)
    \/ \E i \in FwIP : BlockIP(i) \/ UnblockIP(i)

FirewallSpec == FirewallInit /\ [][FirewallNext]_fwVars

-----------------------------------------------------------------------------
\* Properties.

\* A blocked address reaches no port of the chain: whatever is opened, closed,
\* unblocked and flushed in whatever order, no ACCEPT is ahead of a DROP.
BlocksFirst ==
    \A i, j \in 1..Len(chain) :
        chain[i].target = "ACCEPT" /\ chain[j].target = "DROP" => j < i
=============================================================================
