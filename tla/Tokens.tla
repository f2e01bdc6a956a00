------------------------------- MODULE Tokens -------------------------------
(***************************************************************************)
(* API tokens: POST /api/v1/tokens and DELETE /api/v1/tokens/<id> go       *)
(* through the leader's log, and withAuth looks a token up in the table of *)
(* the node that serves the request, which may be behind and which, after  *)
(* a restart, is rebuilt from an older snapshot.  The log stands for Raft  *)
(* (external); RaftFSM shows that the tables follow it.  A token is a      *)
(* random string that is issued once.                                      *)
(***************************************************************************)
EXTENDS Naturals, Sequences

CONSTANTS
    TokenNode,
    Tok,
    MaxTokenFaults   \* bound on restarts, elections and Applies that fail

ASSUME TokensAssumption == MaxTokenFaults \in Nat

VARIABLES
    tokenLog,      \* committed commands [op, tok]
    tableAt,       \* commands in the table of each node
    tokenLeader,
    request,       \* per token: what the client asked for last, and the answer
    expired,       \* tokens past ExpiresAt
    tokenFaults

tokenVars == <<tokenLog, tableAt, tokenLeader, request, expired, tokenFaults>>

TokensInit ==
    /\ tokenLog = <<>> /\ tableAt = [n \in TokenNode |-> 0]
    /\ tokenLeader \in TokenNode
    /\ request = [t \in Tok |-> [op |-> "none", answer |-> "none"]]
    /\ expired = {} /\ tokenFaults = 0

TokenFault == tokenFaults < MaxTokenFaults /\ tokenFaults' = tokenFaults + 1

InTable(n, t) ==
    LET prefix(op) == \E i \in 1 .. tableAt[n] : tokenLog[i] = [op |-> op, tok |-> t]
    IN prefix("upsert") /\ ~prefix("remove")

\* withAuth, for a route whose scope the token has.
WithAuth(n, t) == InTable(n, t) /\ t \notin expired

Asked(n, t, op, answer) ==
    request' = [request EXCEPT ![t] = [op |-> op, node |-> n, at |-> Len(tokenLog) + 1,
                                       answer |-> answer]]

\* Mutant: a command that a node is not the leader for is taken for done.
HandleTokenUnchecked(n, t, op) ==
    /\ Asked(n, t, op, IF n = tokenLeader THEN "pending" ELSE "ok")
    /\ tokenLog' = IF n = tokenLeader THEN Append(tokenLog, [op |-> op, tok |-> t]) ELSE tokenLog
    /\ UNCHANGED <<tableAt, tokenLeader, expired, tokenFaults>>

\* A handler at node n: Apply refuses on a node that is not the leader, and
\* otherwise commits the command or loses it with the leader's term.
HandleToken(n, t, op) ==
    /\ \/ /\ n = tokenLeader
          /\ tokenLog' = Append(tokenLog, [op |-> op, tok |-> t])
          /\ Asked(n, t, op, "pending")
          /\ UNCHANGED tokenFaults
       \/ /\ n = tokenLeader /\ TokenFault
          /\ Asked(n, t, op, "error")
          /\ UNCHANGED tokenLog
       \/ /\ n # tokenLeader
          /\ Asked(n, t, op, "error")
          /\ UNCHANGED <<tokenLog, tokenFaults>>
    /\ UNCHANGED <<tableAt, tokenLeader, expired>>

\* handleTokens, POST: a fresh token.
IssueToken(n, t) == request[t].op = "none" /\ HandleToken(n, t, "upsert")

\* handleOneToken, DELETE: of any token that was asked for, and again until
\* the answer is ok.
RevokeToken(n, t) ==
    /\ request[t].op # "none" /\ request[t].answer # "pending"
    /\ request[t].op = "remove" => request[t].answer # "ok"
    /\ HandleToken(n, t, "remove")

\* Apply returns: the future resolves once the leader's table has the command,
\* or the term or the request's context ends first and the command stays in
\* the log.
TokenAnswer(t) ==
    /\ request[t].answer = "pending"
    /\ \/ /\ request[t].node = tokenLeader /\ tableAt[tokenLeader] >= request[t].at
          /\ request' = [request EXCEPT ![t].answer = "ok"]
          /\ UNCHANGED tokenFaults
       \/ /\ TokenFault
          /\ request' = [request EXCEPT ![t].answer = "error"]
    /\ UNCHANGED <<tokenLog, tableAt, tokenLeader, expired>>

ApplyToken(n) ==
    /\ tableAt[n] < Len(tokenLog)
    /\ tableAt' = [tableAt EXCEPT ![n] = @ + 1]
    /\ UNCHANGED <<tokenLog, tokenLeader, request, expired, tokenFaults>>

\* A node restarts from a snapshot and replays the log from there.
TokenNodeRestarts(n) ==
    /\ TokenFault
    /\ \E i \in 0 .. tableAt[n] : tableAt' = [tableAt EXCEPT ![n] = i]
    /\ UNCHANGED <<tokenLog, tokenLeader, request, expired>>

TokenElection(n) ==
    /\ n # tokenLeader /\ TokenFault
    /\ tokenLeader' = n
    /\ UNCHANGED <<tokenLog, tableAt, request, expired>>

TokenExpires(t) ==
    /\ t \notin expired
    /\ expired' = expired \cup {t}
    /\ UNCHANGED <<tokenLog, tableAt, tokenLeader, request, tokenFaults>>

TokensNext ==
    \/ \E n \in TokenNode :
          \/ ApplyToken(n) \/ TokenNodeRestarts(n) \/ TokenElection(n)
          \/ \E t \in Tok : IssueToken(n, t) \/ RevokeToken(n, t)
    \/ \E t \in Tok : TokenAnswer(t) \/ TokenExpires(t)

TokensSpec == TokensInit /\ [][TokensNext]_tokenVars

\* Every node catches up with the log.
TokensFairSpec == TokensSpec /\ \A n \in TokenNode : WF_tokenVars(ApplyToken(n))

-----------------------------------------------------------------------------
\* Properties.

\* A revocation that was answered with ok holds on every node for good, once
\* the nodes have caught up, restarts included; and a token that was handed
\* out is accepted by every node at once in the end, until it is revoked or
\* expires.
TokensTakeHold ==
    \A t \in Tok :
        /\ request[t].op = "remove" /\ request[t].answer = "ok"
              ~> [](\A n \in TokenNode : ~WithAuth(n, t))
        /\ request[t].op = "upsert" /\ request[t].answer = "ok"
              ~> \/ \A n \in TokenNode : WithAuth(n, t)
                 \/ t \in expired \/ request[t].op = "remove"
=============================================================================
