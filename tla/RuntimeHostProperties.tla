------------------------ MODULE RuntimeHostProperties ------------------------
(***************************************************************************)
(* What the host, its database runtime and its reads promise together.     *)
(***************************************************************************)
EXTENDS RuntimeHost

(* The gate serialises every use of the lock connection: whoever is between *)
(* admitWrite and the release holds the token, so no two transactions, and  *)
(* no transaction and a lock check, migration or orderly release, overlap.  *)
OneAtATime ==
  /\ \A w \in Callers : pc[w] \in Holding <=> gate = w
  /\ monitor = "check" <=> gate = "monitor"
  /\ closing = "release" <=> gate = "closer"

(* A transaction takes effect only while this process owns the advisory     *)
(* lock: the lock belongs to the session that commits, and a shutdown that  *)
(* runs out of time cuts that session instead of unlocking under it.        *)
WritesUnderLock ==
  [][\A w \in Callers : w \in effects' \ effects => lock = "self"]_vars

(* Once StopAcceptingWrites, Close or the loss of the lock sealed writes, no *)
(* transaction begins, not even for a caller that passed the first check    *)
(* before and got the gate after.                                           *)
NothingBegunAfterSeal ==
  [][~accepting => \A w \in Callers : pc'[w] \in Admitted => pc[w] \in Admitted]_vars

(* A writer blocked on the gate is served, whatever TryExecute's callers do, *)
(* as long as each transaction ends: acquireGate counts its waiters and      *)
(* tryAcquireGate stands back for them.                                      *)
TransactionsEnd == \A w \in Callers : []<>(pc[w] \notin Holding)
WaiterServed ==
  TransactionsEnd =>
    \A w \in Writers : (pc[w] = "wait") ~> (pc[w] # "wait" \/ host = "exited")

(* The statements of a migration take effect once, in the order of the      *)
(* versions, also when the lock is lost during Migrate and the next owner   *)
(* migrates at the same time.                                               *)
MigrationHistory ==
  \A v \in 1..Versions :
    schema[v] <= 1 /\ (schema[v] = 1 => \A u \in 1..v : schema[u] = 1)

(* The read pool is closed only when no admitted read is left, forced or    *)
(* not: shutdown seals admission, waits, forces, and waits again.           *)
ReadsEndBeforePool == pool = "closed" => Active = {}

(* A force cuts the socket of a connection its own read still holds, never  *)
(* one that went back to the pool and may carry another read.               *)
ForceSparesPool ==
  \A c \in PoolConns : socket[c] = "cut" =>
    \E r \in Reads : connOf[r] = c /\ rpc[r] \in {"open", "closing", "releasing"}

(* The database is closed under no running component, and a process that    *)
(* opened it leaves neither its connection nor its pool behind, however far *)
(* it had come when it failed.                                              *)
NothingLeftBehind ==
  /\ closing # "no" => Started = {}
  /\ host = "exited" /\ state # "none" =>
       conn = "closed" /\ pool = "closed" /\ gate \notin {"migrator", "closer"}

(* The host gets out once it has begun to stop, although a handler may hang  *)
(* in its transaction or in its rows for ever: the shutdown context bounds   *)
(* every wait and forces what is left.                                       *)
HostExits == (host = "stop") ~> (host = "exited")

(* A host whose lock connection the server dropped stops, because a check   *)
(* of the monitor or a write notices and the failure channel wakes it up.   *)
LockLossStopsHost ==
  TransactionsEnd => ((host = "serve" /\ session = "gone") ~> (host = "exited"))
=============================================================================
