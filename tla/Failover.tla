------------------------------ MODULE Failover ------------------------------
(***************************************************************************)
(* Leader terms among several nodes: the term files (term.go), the         *)
(* handshake of a follower with whatever primary its address leads to      *)
(* (follower.go, server.go) and promotion (failover.go), with nodes that   *)
(* crash, come back, or rejoin as followers.                               *)
(*                                                                         *)
(* What the streams carry is the business of Replication; here a stream    *)
(* only has the term of its server.                                        *)
(***************************************************************************)
EXTENDS Naturals

CONSTANTS
  Node, First,    \* the nodes, and the one that starts as primary
  MaxPromotions,  \* bound: promotions
  MaxCrashes,     \* bound: processes or machines that die
  MaxErrors       \* bound: term files that cannot be stored

ASSUME FirstAssumption == First \in Node
ASSUME BoundsAssumption == {MaxPromotions, MaxCrashes, MaxErrors} \subseteq Nat

VARIABLES
  config,            \* what the operator starts the node as
  role,              \* what its process is doing
  termFile,          \* replication.term
  term,              \* Server.term
  followerTermFile,  \* replication.follower-term
  lastTerm,          \* Follower.lastTerm
  addr,              \* the node the follower's primaryAddr leads to
  conn,              \* its connection: "none", "stream", or "silent" when the peer's machine is gone
  epoch,             \* history: the promotion that made the node a primary, 0 for the first one
  highest,           \* history: the highest term the follower has streamed at
  seen,              \* history: the latest epoch it has streamed from
  fed,               \* history: it then took a frame from an earlier one
  unsaved,           \* history: the term it accepted last could not be stored
  lost,              \* history: a power failure took its term file
  promotions,        \* history: number of promotions
  budget             \* bound: promotions, crashes and errors still allowed

files == <<termFile, followerTermFile>>
servers == <<config, role, term, epoch>>
follower == <<lastTerm, addr, conn>>
streamed == <<highest, seen, fed>>
excuses == <<unsaved, lost>>
vars == <<files, servers, follower, streamed, excuses, promotions, budget>>

Init ==
  /\ config = [n \in Node |-> IF n = First THEN "primary" ELSE "follower"]
  /\ addr = [n \in Node |-> First]
  /\ role = [n \in Node |-> "down"]
  /\ termFile = [n \in Node |-> 0] /\ term = [n \in Node |-> 0]
  /\ followerTermFile = [n \in Node |-> 0] /\ lastTerm = [n \in Node |-> 0]
  /\ conn = [n \in Node |-> "none"]
  /\ epoch = [n \in Node |-> 0] /\ highest = [n \in Node |-> 0] /\ seen = [n \in Node |-> 0]
  /\ fed = [n \in Node |-> FALSE]
  /\ unsaved = [n \in Node |-> FALSE] /\ lost = [n \in Node |-> FALSE]
  /\ promotions = 0 /\ budget = [promotions |-> MaxPromotions, crashes |-> MaxCrashes, errors |-> MaxErrors]

max(x, y) == IF x > y THEN x ELSE y

-----------------------------------------------------------------------------
(* The primary *)

\* The stored term, or 1 where none can be read.
PrimaryTerm(n) == IF termFile[n] > 0 THEN termFile[n] ELSE 1

\* Server.Start, on a node that is configured as primary or was promoted.
StartServer(n) ==
  /\ \/ role[n] = "promoted"
     \/ role[n] = "down" /\ config[n] = "primary"
  /\ role' = [role EXCEPT ![n] = "primary"]
  /\ term' = [term EXCEPT ![n] = PrimaryTerm(n)]
  /\ termFile' = [termFile EXCEPT ![n] = PrimaryTerm(n)]
  /\ UNCHANGED <<config, epoch, followerTermFile, follower, streamed, excuses, promotions, budget>>

-----------------------------------------------------------------------------
(* The follower *)

\* NewFollower and Start.
StartFollower(f) ==
  /\ role[f] = "down" /\ config[f] = "follower"
  /\ role' = [role EXCEPT ![f] = "follower"]
  /\ lastTerm' = [lastTerm EXCEPT ![f] = followerTermFile[f]]
  /\ UNCHANGED <<files, config, term, epoch, addr, conn, streamed, excuses, promotions, budget>>

\* syncLoop reaches a primary whose term it does not refuse.
dialled(f) ==
  /\ role[f] = "follower" /\ conn[f] = "none"
  /\ addr[f] # f /\ role[addr[f]] = "primary"

\* Mutant of accepted: the term it has is refused as well.
acceptedAbove(f) == lastTerm[f] = 0 \/ term[addr[f]] > lastTerm[f]

accepted(f) == lastTerm[f] = 0 \/ term[addr[f]] >= lastTerm[f]

streams(f) ==
  /\ conn' = [conn EXCEPT ![f] = "stream"]
  /\ highest' = [highest EXCEPT ![f] = max(@, term[addr[f]])]
  /\ seen' = [seen EXCEPT ![f] = max(@, epoch[addr[f]])]

\* Mutant of handshakeNew: the term is not stored.
handshakeUnstored(f) ==
  /\ dialled(f) /\ accepted(f) /\ term[addr[f]] > lastTerm[f]
  /\ lastTerm' = [lastTerm EXCEPT ![f] = term[addr[f]]]
  /\ streams(f)
  /\ UNCHANGED <<files, servers, addr, fed, excuses, promotions, budget>>

\* A new term, stored before the stream is read.
handshakeNew(f) ==
  /\ dialled(f) /\ accepted(f) /\ term[addr[f]] > lastTerm[f]
  /\ lastTerm' = [lastTerm EXCEPT ![f] = term[addr[f]]]
  /\ followerTermFile' = [followerTermFile EXCEPT ![f] = term[addr[f]]]
  /\ unsaved' = [unsaved EXCEPT ![f] = @ /\ term[addr[f]] < highest[f]]
  /\ streams(f)
  /\ UNCHANGED <<termFile, servers, addr, fed, lost, promotions, budget>>

\* The term it has.
handshakeSame(f) ==
  /\ dialled(f) /\ accepted(f) /\ term[addr[f]] <= lastTerm[f]
  /\ streams(f)
  /\ UNCHANGED <<files, servers, lastTerm, addr, fed, excuses, promotions, budget>>

\* The new term cannot be stored: syncLoop fails, but lastTerm has it, and the
\* next handshake has nothing to store.
handshakeFail(f) ==
  /\ dialled(f) /\ accepted(f) /\ term[addr[f]] > lastTerm[f]
  /\ budget.errors > 0 /\ budget' = [budget EXCEPT !.errors = @ - 1]
  /\ lastTerm' = [lastTerm EXCEPT ![f] = term[addr[f]]]
  /\ unsaved' = [unsaved EXCEPT ![f] = TRUE]
  /\ UNCHANGED <<files, servers, addr, conn, streamed, lost, promotions>>

\* Mutant of receive: the loop reads on.
receiveDeaf(f) ==
  /\ conn[f] = "stream"
  /\ fed' = [fed EXCEPT ![f] = @ \/ epoch[addr[f]] < seen[f]]
  /\ UNCHANGED <<files, servers, follower, highest, seen, excuses, promotions, budget>>

\* A frame arrives; one that only tells the head does, when there is no other.
\* The loop looks at its context before the next.
receive(f) ==
  /\ conn[f] = "stream"
  /\ fed' = [fed EXCEPT ![f] = @ \/ epoch[addr[f]] < seen[f]]
  /\ conn' = IF role[f] = "stopping" THEN [conn EXCEPT ![f] = "none"] ELSE conn
  /\ UNCHANGED <<files, servers, lastTerm, addr, highest, seen, excuses, promotions, budget>>

\* The keep-alive of net.Dial fails, or the connection just breaks.
connLost(f) ==
  /\ \/ conn[f] = "silent"
     \/ conn[f] = "stream" /\ budget.crashes > 0
  /\ conn' = [conn EXCEPT ![f] = "none"]
  /\ budget' = IF conn[f] = "silent" THEN budget ELSE [budget EXCEPT !.crashes = @ - 1]
  /\ UNCHANGED <<files, servers, lastTerm, addr, streamed, excuses, promotions>>

-----------------------------------------------------------------------------
(* Promotion *)

\* Stop cancels the loop ...
Stop(f) ==
  /\ role[f] = "follower"
  /\ budget.promotions > 0 /\ budget' = [budget EXCEPT !.promotions = @ - 1]
  /\ role' = [role EXCEPT ![f] = "stopping"]
  /\ UNCHANGED <<files, config, term, epoch, follower, streamed, excuses, promotions>>

BumpTerm(n) == termFile[n] + 1

\* ... and waits for it; then the term beside the local WAL is raised.
PromoteToPrimary(f) ==
  /\ role[f] = "stopping" /\ conn[f] = "none"
  /\ role' = [role EXCEPT ![f] = "promoted"] /\ config' = [config EXCEPT ![f] = "primary"]
  /\ termFile' = [termFile EXCEPT ![f] = BumpTerm(f)]
  /\ promotions' = promotions + 1 /\ epoch' = [epoch EXCEPT ![f] = promotions']
  /\ UNCHANGED <<term, followerTermFile, follower, streamed, excuses, budget>>

\* The term cannot be stored, or the ledger does not start; the caller may try
\* again.
PromoteFail(f) ==
  /\ role[f] = "stopping" /\ conn[f] = "none"
  /\ budget.errors > 0 /\ budget' = [budget EXCEPT !.errors = @ - 1]
  /\ \/ UNCHANGED termFile
     \/ termFile' = [termFile EXCEPT ![f] = BumpTerm(f)]
  /\ UNCHANGED <<followerTermFile, servers, follower, streamed, excuses, promotions>>

-----------------------------------------------------------------------------
(* The operator, and what may go wrong *)

\* The address leads elsewhere; a connection that is open stays.
Repoint(f, p) ==
  /\ conn[f] = "none" /\ p \notin {f, addr[f]}
  /\ addr' = [addr EXCEPT ![f] = p]
  /\ UNCHANGED <<files, servers, lastTerm, conn, streamed, excuses, promotions, budget>>

\* An old primary is configured as a follower.
Rejoin(n) ==
  /\ role[n] = "down" /\ config[n] = "primary"
  /\ config' = [config EXCEPT ![n] = "follower"]
  /\ UNCHANGED <<files, role, term, epoch, follower, streamed, excuses, promotions, budget>>

\* The process of n is gone.  Connections to it are closed, or fall silent.
gone(n, c) ==
  /\ role[n] # "down" /\ budget.crashes > 0
  /\ role' = [role EXCEPT ![n] = "down"]
  /\ conn' = [f \in Node |-> IF f = n THEN "none"
                             ELSE IF conn[f] = "stream" /\ addr[f] = n THEN c ELSE conn[f]]
  /\ budget' = [budget EXCEPT !.crashes = @ - 1]
  /\ UNCHANGED <<config, term, epoch, lastTerm, addr, streamed, unsaved, promotions>>

Kill(n) == gone(n, "none") /\ UNCHANGED <<files, lost>>

\* storeTermUint renames a file that was not synced: it may come back empty,
\* which reads as 0.
PowerFailure(n) ==
  /\ gone(n, "silent")
  /\ \E t \in {termFile[n], 0} : termFile' = [termFile EXCEPT ![n] = t]
  /\ \E t \in {followerTermFile[n], 0} : followerTermFile' = [followerTermFile EXCEPT ![n] = t]
  /\ lost' = [lost EXCEPT ![n] = @ \/ files' # files]

Handshake(f) == handshakeNew(f) \/ handshakeSame(f)
Follow(f) == StartFollower(f) \/ Handshake(f) \/ handshakeFail(f) \/ receive(f) \/ connLost(f)
Promote(f) == Stop(f) \/ PromoteToPrimary(f) \/ PromoteFail(f)
Operate(n) == StartServer(n) \/ Rejoin(n) \/ \E p \in Node : Repoint(n, p)

Next == \E n \in Node : Follow(n) \/ Promote(n) \/ Operate(n) \/ Kill(n) \/ PowerFailure(n)

Spec == Init /\ [][Next]_vars

\* The goroutines are scheduled, a primary keeps sending and the keep-alive of
\* a dead connection fails in the end.
FairSpec ==
  Spec /\ \A f \in Node : /\ WF_vars(Handshake(f)) /\ WF_vars(receive(f))
                          /\ WF_vars(conn[f] = "silent" /\ connLost(f))
                          /\ WF_vars(PromoteToPrimary(f))

-----------------------------------------------------------------------------
(* Properties *)

\* Every variable has its type, and a stream has the follower's last term.
TypeOK ==
  /\ config \in [Node -> {"primary", "follower"}]
  /\ role \in [Node -> {"down", "primary", "follower", "stopping", "promoted"}]
  /\ conn \in [Node -> {"none", "stream", "silent"}] /\ addr \in [Node -> Node]
  /\ \A n \in Node :
       /\ conn[n] = "stream" => role[addr[n]] = "primary" /\ term[addr[n]] = lastTerm[n]
       /\ role[n] = "primary" => term[n] > 0 /\ term[n] = termFile[n]
       /\ {termFile[n], term[n], highest[n]} \subseteq 0 .. MaxPromotions + MaxErrors + 1

\* A follower takes no frame of a term below one it has streamed at before, over
\* broken connections, restarts, promotions and a term file that cannot be
\* stored ("a follower persists the highest term it has accepted and refuses
\* streams from primaries with a lower term", term.go), unless the file was not
\* stored or a power failure took it.
StaleFenced ==
  \A f \in Node : conn[f] = "stream" /\ ~unsaved[f] /\ ~lost[f] => term[addr[f]] >= highest[f]

\* "a stale primary resurrecting after a failover can no longer feed a follower
\* divergent history" (term.go): a follower that has streamed from a promoted
\* primary takes no frame from one of before that promotion.
NoStaleFeed == \A f \in Node : ~fed[f]

\* PromoteToPrimary returns: Stop does not wait for ever for a loop that waits
\* for a frame, even if the primary's machine is gone (unless its own dies).
PromotionReturns ==
  \A f \in Node : role[f] = "stopping" ~> role[f] # "stopping"

\* A follower comes back to the primary it had, or to one with a higher term
\* ("wait for a legitimate primary", Start), as long as its address leads there.
FindsPrimary ==
  \A f \in Node :
    <>[](role[f] = "follower" /\ addr[f] # f /\ role[addr[f]] = "primary" /\ term[addr[f]] >= lastTerm[f])
      => <>[](conn[f] = "stream")

=============================================================================
