---------------------------- MODULE ReadLifecycle ----------------------------
(***************************************************************************)
(* Reads of one process: their admission, the pool connection each of them *)
(* holds, the single finish that gives it back, and the shutdown of the    *)
(* pool, which waits for the admitted reads and, once the shutdown context *)
(* has expired, cuts the sockets of those that still run.                  *)
(***************************************************************************)
CONSTANTS Reads,       \* concurrent read operations
          PoolConns,   \* connections of the pgx pool
          NoConn

ASSUME PoolAssumption == NoConn \notin PoolConns

VARIABLES
  readAccepting, \* readLifecycle.accepting
  pool,          \* "open" or "closed"
  rpc,           \* where each read is
  connOf,        \* the pool connection of its transaction
  socket,        \* whether a pool connection's socket was cut
  forced,        \* reads the shutdown has forced
  draining       \* the goroutine of ReadPool.shutdown

readVars == <<readAccepting, pool, rpc, connOf, socket, forced, draining>>

(* The phase of a read is Active up to "closing", Releasing up to          *)
(* "returned"; its transaction is attached from "open" to "returned".      *)
ReadPC == {"none", "begin", "open", "closing", "releasing", "returned"}

ReadTypeOK ==
  /\ readAccepting \in BOOLEAN /\ pool \in {"open", "closed"}
  /\ rpc \in [Reads -> ReadPC]
  /\ connOf \in [Reads -> PoolConns \cup {NoConn}]
  /\ socket \in [PoolConns -> {"good", "cut"}]
  /\ forced \subseteq Reads
  /\ draining \in {"off", "wait", "force", "done"}

ReadInit ==
  /\ readAccepting = TRUE /\ pool = "open"
  /\ rpc = [r \in Reads |-> "none"] /\ connOf = [r \in Reads |-> NoConn]
  /\ socket = [c \in PoolConns |-> "good"]
  /\ forced = {} /\ draining = "off"

Active == {r \in Reads : rpc[r] # "none"}
Step(r, from, to) == rpc[r] = from /\ rpc' = [rpc EXCEPT ![r] = to]

BeginRead(r) ==
  /\ readAccepting
  /\ Step(r, "none", "begin")
  /\ UNCHANGED <<readAccepting, pool, connOf, socket, forced, draining>>

(* pool.BeginTx, then attachTransaction *)
AttachTransaction(r) ==
  /\ Step(r, "begin", "open")
  /\ \E c \in PoolConns :
       /\ \A s \in Reads : connOf[s] # c \/ rpc[s] = "returned"
       /\ connOf' = [connOf EXCEPT ![r] = c]
  /\ UNCHANGED <<readAccepting, pool, socket, forced, draining>>

(* BeginTx fails, possibly because the operation was cancelled: the read   *)
(* finishes without a transaction.                                         *)
BeginTxFails(r) ==
  /\ Step(r, "begin", "none")
  /\ forced' = forced \ {r}
  /\ UNCHANGED <<readAccepting, pool, connOf, socket, draining>>

(* finish: closing the rows may wait for the server *)
FinishStarts(r) ==
  /\ Step(r, "open", "closing")
  /\ UNCHANGED <<readAccepting, pool, connOf, socket, forced, draining>>

RowsClosed(r) ==
  /\ Step(r, "closing", "releasing")
  /\ UNCHANGED <<readAccepting, pool, connOf, socket, forced, draining>>

(* The rollback hands the connection back; the pool replaces a cut one.    *)
ConnectionReturned(r) ==
  /\ Step(r, "releasing", "returned")
  /\ socket' = [socket EXCEPT ![connOf[r]] = "good"]
  /\ UNCHANGED <<readAccepting, pool, connOf, forced, draining>>

(* phase Done, the transaction forgotten, the operation completed *)
Complete(r) ==
  /\ Step(r, "returned", "none")
  /\ connOf' = [connOf EXCEPT ![r] = NoConn]
  /\ forced' = forced \ {r}
  /\ UNCHANGED <<readAccepting, pool, socket, draining>>

(* slip: the phase is not looked at, only whether there is a transaction *)
ForceReadAnyPhase(r) ==
  /\ draining = "force" /\ r \in Active \ forced
  /\ forced' = forced \cup {r}
  /\ socket' = IF connOf[r] # NoConn THEN [socket EXCEPT ![connOf[r]] = "cut"] ELSE socket
  /\ UNCHANGED <<readAccepting, pool, rpc, connOf, draining>>

(* Cancels the operation's context; cuts the socket of an Active operation *)
(* with a transaction, never that of one on its way back to the pool.      *)
ForceRead(r) ==
  /\ draining = "force" /\ r \in Active \ forced
  /\ forced' = forced \cup {r}
  /\ socket' = IF rpc[r] \in {"open", "closing"}
               THEN [socket EXCEPT ![connOf[r]] = "cut"] ELSE socket
  /\ UNCHANGED <<readAccepting, pool, rpc, connOf, draining>>

Read(r) ==
  \/ AttachTransaction(r) \/ BeginTxFails(r) \/ FinishStarts(r) \/ RowsClosed(r)
  \/ ConnectionReturned(r) \/ Complete(r)

(* stopAccepting, and the goroutine that drains *)
SealReads ==
  /\ readAccepting' = FALSE /\ draining' = "wait"
  /\ UNCHANGED <<pool, rpc, connOf, socket, forced>>

DrainExpires ==
  /\ draining = "wait" /\ Active # {}
  /\ draining' = "force"
  /\ UNCHANGED <<readAccepting, pool, rpc, connOf, socket, forced>>

(* slip: the forced reads are not waited for *)
PoolClosesForced ==
  /\ \/ draining = "wait" /\ Active = {}
     \/ draining = "force" /\ Active \subseteq forced
  /\ pool' = "closed" /\ draining' = "done"
  /\ UNCHANGED <<readAccepting, rpc, connOf, socket, forced>>

PoolCloses ==
  /\ draining \in {"wait", "force"} /\ Active = {}
  /\ pool' = "closed" /\ draining' = "done"
  /\ UNCHANGED <<readAccepting, rpc, connOf, socket, forced>>

ReadsDone == draining = "done"
=============================================================================
