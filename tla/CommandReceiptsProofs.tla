------------------------- MODULE CommandReceiptsProofs -------------------------
(***************************************************************************)
(* Proofs about command receipts, for every set of callers, requests and   *)
(* tasks.  Receipts are never overwritten, and a caller that waits for its *)
(* answer carries the receipt of its id: what it is told is the record.    *)
(***************************************************************************)
EXTENDS CommandReceiptsProperties, FiniteSetTheorems, TLAPS

Row == [status : Status, version : Nat]
Client ==
  {Idle} \cup [pc : {"tx"}, request : Requests]
         \cup [pc : {"after"}, receipt : Receipt, cancels : BOOLEAN]

Typed ==
  /\ task \in [TaskIds -> Row]
  /\ call \in [TaskIds -> {"none", "running", "cancelled"}]
  /\ expired \subseteq TaskIds
  /\ receipts \in [Ids -> Receipt \cup {None}]
  /\ client \in [Clients -> Client]
  /\ up \in BOOLEAN /\ connected \in BOOLEAN
  /\ acted \in [Ids -> Nat] /\ told \in Receipt \cup {None}

Filed == \A i \in Ids : receipts[i] # None => receipts[i].request.id = i
Carried ==
  \A c \in Clients : client[c].pc = "after" =>
    receipts[client[c].receipt.request.id] = client[c].receipt

(* ReceiptsAccountForTasks, and nothing recovered what does not exist      *)
Accounts ==
  \A t \in TaskIds :
    /\ Cardinality(Issued("Created", t)) = IF Exists(t) THEN 1 ELSE 0
    /\ task[t].version = IF Exists(t) THEN 1 + Cardinality(Issued("Recovered", t)) ELSE 0
    /\ ~Exists(t) => Issued("Recovered", t) = {}

IInv == Typed /\ Filed /\ Carried

----------------------------------------------------------------------------
(* Steps *)

(* A request's id is an id, and a receipt is of a request.                 *)
LEMMA RequestIds == \A r \in Requests : r.id \in Ids
BY DEF Ids

(* A receipt is its request and its answer, and is not the missing one.    *)
LEMMA ReceiptFields ==
  ASSUME NEW q \in Receipt
  PROVE  /\ q.request \in Requests /\ q.answer \in Answers
         /\ q.request.id \in Ids /\ q # None
         /\ q = [request |-> q.request, answer |-> q.answer]
BY RequestIds, RequestsAssumption DEF Receipt

(* A caller inside its transaction has a request.                          *)
LEMMA ClientRequest ==
  ASSUME Typed, NEW c \in Clients, client[c].pc = "tx"
  PROVE  client[c].request \in Requests
<1>1. client[c] \in Client
  BY DEF Typed
<1> QED BY <1>1 DEF Client, Idle

(* A caller after its commit has a receipt.                                *)
LEMMA ClientReceipt ==
  ASSUME Typed, NEW c \in Clients, client[c].pc = "after"
  PROVE  client[c].receipt \in Receipt /\ client[c].cancels \in BOOLEAN
<1>1. client[c] \in Client
  BY DEF Typed
<1> QED BY <1>1 DEF Client, Idle

(* What a decision for an id leaves behind: one receipt for the request,   *)
(* in the table and with the caller, or with nobody.                       *)
Decided(c, receipt) ==
  LET r == client[c].request IN
  /\ receipt \in Receipt /\ receipt.request = r /\ receipts[r.id] = None
  /\ receipts' = [receipts EXCEPT ![r.id] = receipt]
  /\ \E n \in {0, 1} : acted' = [acted EXCEPT ![r.id] = @ + n]
  /\ \/ client' = [client EXCEPT ![c] = Idle]
     \/ \E b \in BOOLEAN :
          client' = [client EXCEPT ![c] = [pc |-> "after", receipt |-> receipt, cancels |-> b]]
  /\ told' = told

(* What it may do to a task, and what a receipt says was done to one.      *)
Kept(t) == Exists(t)' = Exists(t) /\ task'[t].version = task[t].version
Fits(code, t, becomes) ==
  /\ t \in TaskIds => becomes \in Row /\ becomes.status # "absent"
  /\ code = "Created" => t \in TaskIds /\ ~Exists(t) /\ becomes.version = 1
  /\ code = "Recovered" =>
       t \in TaskIds /\ Exists(t) /\ becomes.version = task[t].version + 1
  /\ code \notin {"Created", "Recovered"} =>
       t = NoTask \/ (Exists(t) /\ becomes.version = task[t].version)
Accounted(answer) ==
  \A t \in TaskIds :
    \/ /\ answer.code = "Created" /\ answer.task = t
       /\ ~Exists(t) /\ Exists(t)' /\ task'[t].version = 1
    \/ /\ answer.code = "Recovered" /\ answer.task = t
       /\ Exists(t) /\ Exists(t)' /\ task'[t].version = task[t].version + 1
    \/ ~(answer.code \in {"Created", "Recovered"} /\ answer.task = t) /\ Kept(t)

(* Each decision of the model is such a decision.                          *)
LEMMA DecideStep ==
  ASSUME IInv, NEW c \in Clients, client[c].pc = "tx", NEW code \in Code,
         NEW t \in TaskIds \cup {NoTask}, NEW becomes, Fits(code, t, becomes),
         Decide(c, code, t, becomes)
  PROVE  Typed' /\ \E receipt \in Receipt : Decided(c, receipt) /\ Accounted(receipt.answer)
<1> DEFINE r == client[c].request
           after == IF t = NoTask THEN [status |-> "absent", version |-> 0] ELSE becomes
           changes == t # NoTask /\ becomes # task[t]
           receipt == [request |-> r, answer |-> [code |-> code, task |-> t, version |-> after.version]]
<1>1. r \in Requests /\ r.id \in Ids
  BY ClientRequest, RequestIds DEF IInv
<1>2. after \in Row /\ (changes => t \in TaskIds /\ becomes \in Row)
  BY DEF Row, Status, Fits
<1>3. receipt \in Receipt
  BY <1>1, <1>2 DEF Receipt, Answers, Row
<1>4. /\ receipts[r.id] = None
      /\ task' = IF changes THEN [task EXCEPT ![t] = becomes] ELSE task
      /\ receipts' = [receipts EXCEPT ![r.id] = receipt]
      /\ acted' = [acted EXCEPT ![r.id] = @ + IF changes THEN 1 ELSE 0]
      /\ Commit(c, receipt, r.type = "Cancel" /\ changes)
      /\ UNCHANGED <<call, expired, up, told>>
  BY DEF Decide, InsertReceipt
<1>5. \E n \in {0, 1} : acted' = [acted EXCEPT ![r.id] = @ + n]
  BY <1>4
<1>6. /\ \/ client' = [client EXCEPT ![c] = Idle]
         \/ \E b \in BOOLEAN :
              client' = [client EXCEPT ![c] = [pc |-> "after", receipt |-> receipt, cancels |-> b]]
      /\ connected' \in {connected, FALSE}
  <2>1. (r.type = "Cancel" /\ changes) \in BOOLEAN
    OBVIOUS
  <2> QED BY <1>4, <2>1 DEF Commit, CommitUnknown
<1>7. Typed'
  <2>1. task' \in [TaskIds -> Row]
    BY <1>2, <1>4 DEF IInv, Typed
  <2>2. receipts' \in [Ids -> Receipt \cup {None}]
    BY <1>1, <1>3, <1>4 DEF IInv, Typed
  <2>3. client' \in [Clients -> Client]
    BY <1>3, <1>6 DEF IInv, Typed, Client
  <2>4. acted' \in [Ids -> Nat]
    BY <1>1, <1>5 DEF IInv, Typed
  <2> QED BY <1>4, <1>6, <2>1, <2>2, <2>3, <2>4 DEF IInv, Typed
<1>8. Decided(c, receipt)
  BY <1>3, <1>4, <1>5, <1>6 DEF Decided
<1>9. Accounted(receipt.answer)
  <2> SUFFICES ASSUME NEW u \in TaskIds
      PROVE  \/ /\ code = "Created" /\ t = u
                /\ ~Exists(u) /\ Exists(u)' /\ task'[u].version = 1
             \/ /\ code = "Recovered" /\ t = u
                /\ Exists(u) /\ Exists(u)' /\ task'[u].version = task[u].version + 1
             \/ ~(code \in {"Created", "Recovered"} /\ t = u) /\ Kept(u)
    BY DEF Accounted
  <2>1. CASE t # u
    <3>1. task'[u] = task[u]
      BY <1>2, <1>4, <2>1 DEF IInv, Typed
    <3> QED BY <2>1, <3>1 DEF Kept, Exists
  <2>2. CASE t = u
    <3>1. task'[u] = becomes /\ becomes.status # "absent" /\ Exists(u)'
      BY <1>2, <1>4, <2>2, RequestsAssumption DEF IInv, Typed, Fits, Exists
    <3> QED BY <2>2, <3>1, RequestsAssumption DEF Kept, Fits
  <2> QED BY <2>1, <2>2
<1> HIDE DEF receipt
<1> QED BY <1>3, <1>7, <1>8, <1>9

(* The commands decide, and only as Fits allows.                           *)
DecidesFitly(c) ==
  \E code \in Code, t \in TaskIds \cup {NoTask}, becomes \in Row \cup {None} :
    Fits(code, t, becomes) /\ Decide(c, code, t, becomes)

(* Every command that decides does so for a row as its code says it is.    *)
LEMMA CommandDecides ==
  ASSUME IInv, NEW c \in Clients, CreateTask(c) \/ CancelTask(c) \/ RecoverTask(c)
  PROVE  DecidesFitly(c)
<1> DEFINE target == client[c].request.target
<1>1. \A t \in TaskIds :
        /\ task[t] \in Row /\ End(t) \in Row
        /\ End(t).status = "ended" /\ End(t).version = task[t].version
  BY DEF IInv, Typed, Row, End, Status
<1>2. ASSUME NEW code \in Code \ {"Created", "Recovered"}, NEW t \in TaskIds \cup {NoTask},
             t = NoTask \/ Exists(t), Reject(c, code, t)
      PROVE  DecidesFitly(c)
  <2>1. Decide(c, code, t, IF t = NoTask THEN None ELSE task[t])
    BY <1>2 DEF Reject
  <2>2. Fits(code, t, IF t = NoTask THEN None ELSE task[t])
    BY <1>1, <1>2, RequestsAssumption DEF Fits, Exists
  <2>3. (IF t = NoTask THEN None ELSE task[t]) \in Row \cup {None}
    BY <1>1
  <2> QED BY <2>1, <2>2, <2>3 DEF DecidesFitly
<1>3. ASSUME NEW code \in Code \ {"Created", "Recovered"}, NEW t \in TaskIds,
             Exists(t), Decide(c, code, t, End(t))
      PROVE  DecidesFitly(c)
  <2>1. Fits(code, t, End(t))
    BY <1>1, <1>3 DEF Fits
  <2> QED BY <1>1, <1>3, <2>1 DEF DecidesFitly
<1>4. CASE CreateTask(c)
  <2>1. CASE \E code \in {"AgentUnavailable", "InvalidArgument"} : Reject(c, code, NoTask)
    BY <1>2, <2>1 DEF Code
  <2>2. CASE \E t \in TaskIds : task[t].status = "absent"
               /\ Decide(c, "Created", t, [status |-> "waiting", version |-> 1])
    <3>1. PICK t \in TaskIds : task[t].status = "absent"
               /\ Decide(c, "Created", t, [status |-> "waiting", version |-> 1])
      BY <2>2
    <3>2. /\ Fits("Created", t, [status |-> "waiting", version |-> 1])
          /\ [status |-> "waiting", version |-> 1] \in Row /\ "Created" \in Code
      BY <3>1 DEF Fits, Row, Status, Exists, Code
    <3> QED BY <3>1, <3>2 DEF DecidesFitly
  <2> QED BY <1>4, <2>1, <2>2 DEF CreateTask
<1>5. CASE CancelTask(c)
  <2>1. target \in TaskIds /\ Exists(target)
    BY <1>5 DEF CancelTask, Exists
  <2>2. \/ Reject(c, "TaskAlreadyTerminal", target)
        \/ Decide(c, "TaskTimeout", target, End(target))
        \/ Decide(c, "Cancelled", target, End(target))
    BY <1>5 DEF CancelTask
  <2> QED BY <1>2, <1>3, <2>1, <2>2 DEF Code
<1>6. CASE RecoverTask(c)
  <2>1. target \in TaskIds /\ Exists(target)
    BY <1>6 DEF RecoverTask, Exists
  <2>2. \/ Reject(c, "RecoverStateConflict", target)
        \/ Reject(c, "CONFIG_VERSION_MISMATCH", target)
        \/ Decide(c, "TaskTimeout", target, End(target))
        \/ Decide(c, "CheckpointInvalid", target, End(target))
        \/ Decide(c, "Recovered", target, [status |-> "waiting", version |-> task[target].version + 1])
    BY <1>6 DEF RecoverTask
  <2>3. CASE Decide(c, "Recovered", target, [status |-> "waiting", version |-> task[target].version + 1])
    <3>1. /\ Fits("Recovered", target, [status |-> "waiting", version |-> task[target].version + 1])
          /\ [status |-> "waiting", version |-> task[target].version + 1] \in Row
          /\ "Recovered" \in Code
      BY <1>1, <2>1 DEF Fits, Row, Status, Code
    <3> QED BY <2>1, <2>3, <3>1 DEF DecidesFitly
  <2> QED BY <1>2, <1>3, <2>1, <2>2, <2>3 DEF Code
<1> QED BY <1>4, <1>5, <1>6

(* So every command keeps the types and leaves one receipt behind.         *)
LEMMA CommandStep ==
  ASSUME IInv, NEW c \in Clients, CreateTask(c) \/ CancelTask(c) \/ RecoverTask(c)
  PROVE  /\ client[c].pc = "tx" /\ Typed'
         /\ \E receipt \in Receipt : Decided(c, receipt) /\ Accounted(receipt.answer)
<1>1. client[c].pc = "tx"
  BY DEF CreateTask, CancelTask, RecoverTask, InTx
<1>2. PICK code \in Code, t \in TaskIds \cup {NoTask}, becomes \in Row \cup {None} :
        Fits(code, t, becomes) /\ Decide(c, code, t, becomes)
  BY CommandDecides DEF DecidesFitly
<1> QED BY <1>1, <1>2, DecideStep

(* A decision keeps receipts where they belong and is a step of the ledger. *)
LEMMA DecidedStep ==
  ASSUME IInv, NEW c \in Clients, client[c].pc = "tx", NEW receipt \in Receipt,
         Decided(c, receipt), Typed'
  PROVE  IInv' /\ Ledger!Next
<1> DEFINE r == client[c].request
<1>1. r \in Requests /\ r.id \in Ids /\ receipt.request = r
  BY ClientRequest, RequestIds DEF IInv, Decided
<1>2. receipts' = [receipts EXCEPT ![r.id] = receipt] /\ receipts'[r.id] = receipt
  BY <1>1 DEF IInv, Typed, Decided
<1>3. Filed'
  BY <1>1, <1>2 DEF IInv, Typed, Filed
<1>4. Carried'
  <2> SUFFICES ASSUME NEW d \in Clients, client'[d].pc = "after"
      PROVE  receipts'[client'[d].receipt.request.id] = client'[d].receipt
    BY DEF Carried
  <2>1. CASE d = c
    <3>1. PICK b \in BOOLEAN :
            client' = [client EXCEPT ![c] = [pc |-> "after", receipt |-> receipt, cancels |-> b]]
      BY <2>1 DEF IInv, Typed, Decided, Idle
    <3>2. client'[d].receipt = receipt
      BY <2>1, <3>1 DEF IInv, Typed
    <3> QED BY <1>1, <1>2, <3>2
  <2>2. CASE d # c
    <3>1. client'[d] = client[d]
      BY <2>2 DEF IInv, Typed, Decided
    <3>2. client[d].receipt \in Receipt
      BY <3>1, ClientReceipt DEF IInv
    <3>3. receipts[client[d].receipt.request.id] = client[d].receipt
      BY <3>1 DEF IInv, Carried
    <3>4. client[d].receipt.request.id # r.id
      BY <3>2, <3>3, ReceiptFields DEF Decided
    <3> QED BY <1>1, <1>2, <3>1, <3>2, <3>3, <3>4, ReceiptFields DEF IInv, Typed
  <2> QED BY <2>1, <2>2
<1>5. Ledger!Decide(r)
  <2>1. receipt \in [request : Requests, answer : Answers]
    BY DEF Receipt
  <2> QED BY <1>1, <1>2, <2>1 DEF Ledger!Decide, Ledger!Decision, Decided
<1> QED BY <1>1, <1>3, <1>4, <1>5 DEF IInv, Ledger!Next

(* A repetition gets the receipt of its id, which is of the same request.   *)
LEMMA SameRequestIsSame ==
  ASSUME NEW r \in Requests, NEW q \in Receipt, q.request.id = r.id, SameRequest(q, r)
  PROVE  q.request = r /\ [request |-> r, answer |-> q.answer] = q
<1>1. /\ q.request = [id |-> q.request.id, type |-> q.request.type,
                      target |-> q.request.target, print |-> q.request.print]
      /\ r = [id |-> r.id, type |-> r.type, target |-> r.target, print |-> r.print]
  BY ReceiptFields, RequestsAssumption
<1>2. q.request = r
  BY <1>1 DEF SameRequest
<1> QED BY <1>2, ReceiptFields

(* A replay changes nothing but what its caller is in the middle of.       *)
LEMMA ReplayStep ==
  ASSUME IInv, NEW c \in Clients, Replay(c)
  PROVE  IInv' /\ UNCHANGED <<task, receipts, acted, told>>
<1> DEFINE r == client[c].request
           receipt == receipts[r.id]
<1>1. r \in Requests /\ r.id \in Ids
  BY ClientRequest, RequestIds DEF IInv, Replay
<1>2. receipt \in Receipt /\ receipt.request.id = r.id
  BY <1>1 DEF IInv, Typed, Filed, Replay
<1>3. \/ client' = [client EXCEPT ![c] = Idle]
      \/ client' = [client EXCEPT ![c] = [pc |-> "after", receipt |-> receipt, cancels |-> FALSE]]
  <2>1. CASE SameRequest(receipt, r)
    <3>1. [request |-> r, answer |-> receipt.answer] = receipt
      BY <1>1, <1>2, <2>1, SameRequestIsSame
    <3>2. Commit(c, receipt, FALSE)
      BY <2>1, <3>1 DEF Replay
    <3> QED BY <3>2 DEF Commit, CommitUnknown
  <2>2. CASE ~SameRequest(receipt, r)
    BY <2>2 DEF Replay
  <2> QED BY <2>1, <2>2
<1>4. /\ connected' \in {connected, FALSE}
      /\ UNCHANGED <<task, call, expired, receipts, up, acted, told>>
  BY DEF Replay, Commit, CommitUnknown
<1>5. client' \in [Clients -> Client]
  <2>1. /\ Idle \in Client
        /\ [pc |-> "after", receipt |-> receipt, cancels |-> FALSE] \in Client
    BY <1>2 DEF Client
  <2> HIDE DEF receipt
  <2> QED BY <1>3, <2>1 DEF IInv, Typed
<1>6. Typed'
  BY <1>4, <1>5 DEF IInv, Typed
<1>7. Carried'
  <2> SUFFICES ASSUME NEW d \in Clients, client'[d].pc = "after"
      PROVE  receipts[client'[d].receipt.request.id] = client'[d].receipt
    BY <1>4 DEF Carried
  <2>1. CASE d = c
    BY <1>2, <1>3, <2>1 DEF IInv, Typed, Idle
  <2>2. CASE d # c
    BY <1>3, <2>2 DEF IInv, Typed, Carried
  <2> QED BY <2>1, <2>2
<1> QED BY <1>4, <1>6, <1>7 DEF IInv, Filed

(* What is no decision writes no receipt and leaves every task what the    *)
(* receipts say of it; a caller at most gives up, begins, or is answered.   *)
LEMMA ClientsKeep ==
  ASSUME Carried, receipts' = receipts,
         \A d \in Clients : client'[d] = client[d] \/ client'[d].pc # "after"
  PROVE  Carried'
BY DEF Carried

(* Requests, failed transactions and answers.                              *)
LEMMA CallerStep ==
  ASSUME IInv, NEW c \in Clients,
         (\E r \in Requests : Send(c, r)) \/ TransactionFails(c) \/ Answer(c)
  PROVE  /\ IInv' /\ UNCHANGED <<task, receipts, acted>>
         /\ told' = told \/ Ledger!Next
<1>1. CASE \E r \in Requests : Send(c, r)
  <2>1. PICK r \in Requests : Send(c, r)
    BY <1>1
  <2>2. [pc |-> "tx", request |-> r] \in Client
    BY DEF Client
  <2>3. client' \in [Clients -> Client] /\ UNCHANGED <<task, receipts, acted, told>>
    BY <2>1, <2>2 DEF IInv, Typed, Send
  <2>4. Typed' /\ Filed'
    BY <2>1, <2>3 DEF IInv, Typed, Filed, Send
  <2>5. Carried'
    BY <2>1, ClientsKeep DEF IInv, Typed, Send
  <2> QED BY <2>3, <2>4, <2>5 DEF IInv
<1>2. CASE TransactionFails(c)
  <2>1. client' \in [Clients -> Client] /\ UNCHANGED <<task, receipts, acted, told>>
    BY <1>2 DEF IInv, Typed, Client, TransactionFails
  <2>2. Typed' /\ Filed'
    BY <1>2, <2>1 DEF IInv, Typed, Filed, TransactionFails
  <2>3. Carried'
    BY <1>2, ClientsKeep DEF IInv, Typed, TransactionFails, Idle
  <2> QED BY <2>1, <2>2, <2>3 DEF IInv
<1>3. CASE Answer(c)
  <2> DEFINE receipt == client[c].receipt
  <2>1. receipt \in Receipt /\ receipts[receipt.request.id] = receipt
    BY <1>3, ClientReceipt DEF IInv, Carried, Answer
  <2>2. client' \in [Clients -> Client] /\ UNCHANGED <<task, receipts, acted>>
    BY <1>3 DEF IInv, Typed, Client, Answer
  <2>3. call' \in [TaskIds -> {"none", "running", "cancelled"}]
    BY <1>3 DEF IInv, Typed, Answer, CancelCall
  <2>4. Typed' /\ Filed'
    BY <1>3, <2>1, <2>2, <2>3 DEF IInv, Typed, Filed, Answer
  <2>5. Carried'
    BY <1>3, ClientsKeep DEF IInv, Typed, Answer, Idle
  <2>6. Ledger!Tell(receipt.request) /\ receipt.request \in Requests
    BY <1>3, <2>1, ReceiptFields DEF Answer, Ledger!Tell
  <2> QED BY <2>2, <2>4, <2>5, <2>6 DEF IInv, Ledger!Next
<1> QED BY <1>1, <1>2, <1>3

(* Statuses that exist stay existing, versions stay.                       *)
LEMMA StatusKept ==
  ASSUME Typed, NEW t \in TaskIds, Exists(t), NEW st \in Status \ {"absent"}, SetStatus(t, st)
  PROVE  task' \in [TaskIds -> Row] /\ \A u \in TaskIds : Kept(u)
<1>1. task' = [task EXCEPT ![t].status = st] /\ task \in [TaskIds -> Row]
  BY DEF SetStatus, Typed
<1>2. \A u \in TaskIds :
        task'[u] = IF u = t THEN [status |-> st, version |-> task[t].version] ELSE task[u]
  BY <1>1 DEF Row
<1> QED BY <1>1, <1>2 DEF Row, Kept, Exists

(* What the worker and the scanner do to one task.                         *)
LEMMA TaskStep ==
  ASSUME IInv, NEW t \in TaskIds, Claim(t) \/ CallReturns(t) \/ DeadlinePasses(t) \/ ExpireTask(t)
  PROVE  /\ IInv' /\ UNCHANGED <<receipts, acted, told>>
         /\ \A u \in TaskIds : Kept(u)
<1>1. UNCHANGED <<receipts, client, acted, told>>
  BY DEF Claim, CallReturns, DeadlinePasses, ExpireTask
<1>2. \/ task' = task
      \/ Exists(t) /\ \E st \in Status \ {"absent"} : SetStatus(t, st)
  BY DEF Claim, CallReturns, DeadlinePasses, ExpireTask, Open, Exists, Status
<1>3. task' \in [TaskIds -> Row] /\ \A u \in TaskIds : Kept(u)
  <2>1. CASE task' = task
    BY <2>1 DEF IInv, Typed, Kept, Exists
  <2>2. CASE Exists(t) /\ \E st \in Status \ {"absent"} : SetStatus(t, st)
    BY <2>2, StatusKept DEF IInv
  <2> QED BY <1>2, <2>1, <2>2
<1>4. /\ call' \in [TaskIds -> {"none", "running", "cancelled"}]
      /\ expired' \subseteq TaskIds /\ up' = up /\ connected' = connected
  BY DEF IInv, Typed, Claim, CallReturns, DeadlinePasses, ExpireTask, CancelCall
<1> QED BY <1>1, <1>3, <1>4 DEF IInv, Typed, Filed, Carried

(* Crashes and restarts.                                                   *)
LEMMA ProcessStep ==
  ASSUME IInv, ProcessEnds \/ Restart \/ UNCHANGED vars
  PROVE  /\ IInv' /\ UNCHANGED <<receipts, acted, told>>
         /\ \A u \in TaskIds : Kept(u)
<1>1. CASE ProcessEnds
  <2>1. client' \in [Clients -> Client] /\ call' \in [TaskIds -> {"none", "running", "cancelled"}]
    BY <1>1 DEF Client, ProcessEnds
  <2>2. Carried'
    BY <1>1 DEF ProcessEnds, Carried, Idle
  <2> QED BY <1>1, <2>1, <2>2 DEF IInv, Typed, Filed, ProcessEnds, Kept, Exists
<1>2. CASE Restart
  <2> DEFINE becomes(u) ==
        IF task[u].status # "running" THEN task[u]
        ELSE [task[u] EXCEPT !.status = IF u \in expired THEN "ended" ELSE "interrupted"]
  <2>1. \A u \in TaskIds :
          /\ becomes(u) \in Row /\ becomes(u).version = task[u].version
          /\ becomes(u).status = "absent" <=> task[u].status = "absent"
    BY DEF IInv, Typed, Row, Status
  <2>2. task' = [u \in TaskIds |-> becomes(u)]
    BY <1>2 DEF Restart
  <2> HIDE DEF becomes
  <2>3. task' \in [TaskIds -> Row] /\ \A u \in TaskIds : Kept(u)
    BY <2>1, <2>2 DEF Kept, Exists
  <2> QED BY <1>2, <2>3 DEF IInv, Typed, Filed, Carried, Restart
<1>3. CASE UNCHANGED vars
  BY <1>3 DEF IInv, Typed, Filed, Carried, vars, Kept, Exists
<1> QED BY <1>1, <1>2, <1>3

----------------------------------------------------------------------------
(* Every step *)

(* Every step keeps the invariant, is a step of the ledger or invisible to *)
(* it, and either decides or leaves every task's existence and version     *)
(* alone.                                                                  *)
LEMMA EveryStep ==
  ASSUME IInv, [Next]_vars
  PROVE  /\ IInv' /\ [Ledger!Next]_<<receipts, acted, told>>
         /\ \/ receipts' = receipts /\ \A t \in TaskIds : Kept(t)
            \/ \E c \in Clients, receipt \in Receipt :
                 client[c].pc = "tx" /\ Decided(c, receipt) /\ Accounted(receipt.answer)
<1>1. ASSUME NEW c \in Clients, CreateTask(c) \/ CancelTask(c) \/ RecoverTask(c)
      PROVE  /\ IInv' /\ Ledger!Next
             /\ \E receipt \in Receipt :
                  client[c].pc = "tx" /\ Decided(c, receipt) /\ Accounted(receipt.answer)
  BY <1>1, CommandStep, DecidedStep
<1>2. ASSUME NEW c \in Clients, Replay(c)
      PROVE  IInv' /\ UNCHANGED <<task, receipts, acted, told>>
  BY <1>2, ReplayStep
<1>3. task' = task => \A t \in TaskIds : Kept(t)
  BY DEF Kept, Exists
<1> QED BY <1>1, <1>2, <1>3, CallerStep, TaskStep, ProcessStep DEF Next

(* It holds at the start.                                                  *)
LEMMA InitEstablishes == Init => IInv
<1> SUFFICES ASSUME Init PROVE IInv
  OBVIOUS
<1>1. [status |-> "absent", version |-> 0] \in Row /\ Idle \in Client
  BY DEF Row, Status, Client
<1> QED BY <1>1 DEF Init, IInv, Typed, Filed, Carried, Idle

(* The receipts are where they belong, and callers carry them.             *)
THEOREM Invariant == Spec => []IInv
<1>1. IInv /\ [Next]_vars => IInv'
  BY EveryStep
<1> QED BY <1>1, InitEstablishes, PTL DEF Spec

(* However callers repeat themselves, commits lose their replies and       *)
(* processes stop and start, the receipts implement the ledger.            *)
THEOREM ImplementsLedger == Spec => OncePerCommand
<1>1. Init => Ledger!Init
  BY DEF Init, Ledger!Init, Ids, Ledger!Ids
<1>2. IInv /\ [Next]_vars => [Ledger!Next]_<<receipts, acted, told>>
  BY EveryStep
<1> QED BY <1>1, <1>2, Invariant, PTL DEF Spec, OncePerCommand, Ledger!Spec

----------------------------------------------------------------------------
(* Counting receipts *)

(* There are as many ids as requests at most.                              *)
LEMMA IdsFinite == IsFiniteSet(Ids)
<1> DEFINE idOf == [r \in Requests |-> r.id]
<1>1. idOf \in Surjection(Requests, Ids)
  BY DEF Surjection, Ids
<1> QED BY <1>1, FS_Surjection, RequestsAssumption

(* So the receipts of any kind can be counted.                             *)
LEMMA IssuedFinite ==
  ASSUME NEW code, NEW t
  PROVE  IsFiniteSet(Issued(code, t)) /\ Cardinality(Issued(code, t)) \in Nat
<1>1. Issued(code, t) \in SUBSET Ids
  BY DEF Issued
<1> QED BY <1>1, IdsFinite, FS_Subset, FS_CardinalityType

(* A decision adds its id to the one set its answer names.                 *)
LEMMA IssuedGrows ==
  ASSUME IInv, NEW c \in Clients, client[c].pc = "tx", NEW receipt \in Receipt,
         Decided(c, receipt), NEW code, NEW t
  PROVE  LET joins == receipt.answer.code = code /\ receipt.answer.task = t IN
         /\ ~joins => Issued(code, t)' = Issued(code, t)
         /\ joins => Cardinality(Issued(code, t)') = Cardinality(Issued(code, t)) + 1
<1> DEFINE i == client[c].request.id
           joins == receipt.answer.code = code /\ receipt.answer.task = t
<1>1. i \in Ids /\ receipts[i] = None /\ receipt # None
      /\ receipts' = [receipts EXCEPT ![i] = receipt] /\ receipts \in [Ids -> Receipt \cup {None}]
  BY ClientRequest, RequestIds, ReceiptFields DEF IInv, Typed, Decided
<1>2. Issued(code, t)' = IF joins THEN Issued(code, t) \cup {i} ELSE Issued(code, t)
  BY <1>1 DEF Issued
<1>3. i \notin Issued(code, t)
  BY <1>1 DEF Issued
<1> QED BY <1>2, <1>3, IssuedFinite, FS_AddElement

(* Without a new receipt nothing is counted anew.                          *)
LEMMA IssuedKept ==
  ASSUME receipts' = receipts, NEW code, NEW t
  PROVE  Issued(code, t)' = Issued(code, t)
BY DEF Issued

(* The count survives each step: a decision adds one receipt to the set    *)
(* that its effect is counted by.                                          *)
LEMMA AccountsStep ==
  ASSUME IInv, Accounts, [Next]_vars
  PROVE  Accounts'
<1> SUFFICES ASSUME NEW t \in TaskIds
    PROVE  /\ Cardinality(Issued("Created", t)') = IF Exists(t)' THEN 1 ELSE 0
           /\ task'[t].version = IF Exists(t)' THEN 1 + Cardinality(Issued("Recovered", t)') ELSE 0
           /\ ~Exists(t)' => Issued("Recovered", t)' = {}
  BY DEF Accounts
<1>1. /\ Cardinality(Issued("Created", t)) = IF Exists(t) THEN 1 ELSE 0
      /\ task[t].version = IF Exists(t) THEN 1 + Cardinality(Issued("Recovered", t)) ELSE 0
      /\ ~Exists(t) => Issued("Recovered", t) = {}
      /\ Cardinality(Issued("Created", t)) \in Nat /\ Cardinality(Issued("Recovered", t)) \in Nat
  BY IssuedFinite DEF Accounts
<1>2. CASE receipts' = receipts /\ \A u \in TaskIds : Kept(u)
  BY <1>1, <1>2, IssuedKept DEF Kept
<1>3. CASE \E c \in Clients, receipt \in Receipt :
             client[c].pc = "tx" /\ Decided(c, receipt) /\ Accounted(receipt.answer)
  <2>1. PICK c \in Clients, receipt \in Receipt :
          client[c].pc = "tx" /\ Decided(c, receipt) /\ Accounted(receipt.answer)
    BY <1>3
  <2> DEFINE answer == receipt.answer
  <2>2. \A code :
          /\ ~(answer.code = code /\ answer.task = t) => Issued(code, t)' = Issued(code, t)
          /\ (answer.code = code /\ answer.task = t) =>
               Cardinality(Issued(code, t)') = Cardinality(Issued(code, t)) + 1
    BY <2>1, IssuedGrows
  <2> HIDE DEF answer
  <2>3. CASE /\ answer.code = "Created" /\ answer.task = t
             /\ ~Exists(t) /\ Exists(t)' /\ task'[t].version = 1
    <3>1. /\ Cardinality(Issued("Created", t)') = Cardinality(Issued("Created", t)) + 1
          /\ Issued("Recovered", t)' = Issued("Recovered", t)
      BY <2>2, <2>3
    <3>2. Cardinality(Issued("Recovered", t)') = 0
      BY <1>1, <2>3, <3>1, FS_EmptySet
    <3> QED BY <1>1, <2>3, <3>1, <3>2
  <2>4. CASE /\ answer.code = "Recovered" /\ answer.task = t
             /\ Exists(t) /\ Exists(t)' /\ task'[t].version = task[t].version + 1
    <3>1. /\ Cardinality(Issued("Recovered", t)') = Cardinality(Issued("Recovered", t)) + 1
          /\ Issued("Created", t)' = Issued("Created", t)
      BY <2>2, <2>4
    <3> QED BY <1>1, <2>4, <3>1
  <2>5. CASE ~(answer.code \in {"Created", "Recovered"} /\ answer.task = t) /\ Kept(t)
    <3>1. /\ Issued("Created", t)' = Issued("Created", t)
          /\ Issued("Recovered", t)' = Issued("Recovered", t)
      BY <2>2, <2>5
    <3> QED BY <1>1, <2>5, <3>1 DEF Kept
  <2> QED BY <2>1, <2>3, <2>4, <2>5 DEF Accounted, answer
<1> QED BY <1>2, <1>3, EveryStep

(* At the start there is nothing to count.                                 *)
LEMMA InitAccounts == Init => Accounts
<1> SUFFICES ASSUME Init, NEW t \in TaskIds
    PROVE  /\ Cardinality(Issued("Created", t)) = 0 /\ ~Exists(t)
           /\ task[t].version = 0 /\ Issued("Recovered", t) = {}
  BY DEF Accounts
<1>1. Issued("Created", t) = {} /\ Issued("Recovered", t) = {}
  BY DEF Init, Issued
<1> QED BY <1>1, FS_EmptySet DEF Init, Exists

(* The count is right at all times.                                        *)
LEMMA Accounting == Spec => []Accounts
<1>1. IInv /\ Accounts /\ [Next]_vars => Accounts'
  BY AccountsStep
<1> QED BY <1>1, InitAccounts, Invariant, PTL DEF Spec

(* A task exists by exactly one receipt of its creation, and its versions  *)
(* after the first are those its recoveries' receipts account for.         *)
THEOREM AccountedFor == Spec => []ReceiptsAccountForTasks
<1>1. Accounts => ReceiptsAccountForTasks
  BY DEF Accounts, ReceiptsAccountForTasks
<1> QED BY <1>1, Accounting, PTL

(* So no task has more versions than there are command ids, and every      *)
(* variable keeps its type.                                                *)
THEOREM TypeCorrect == Spec => []TypeOK
<1>1. ASSUME IInv, Accounts, NEW t \in TaskIds
      PROVE  task[t].version <= Cardinality(Ids)
  <2> DEFINE created == Issued("Created", t)
             recovered == Issued("Recovered", t)
  <2>1. /\ IsFiniteSet(created) /\ IsFiniteSet(recovered)
        /\ Cardinality(created) \in Nat /\ Cardinality(recovered) \in Nat
    BY IssuedFinite
  <2>2. created \cap recovered = {} /\ created \cup recovered \in SUBSET Ids
    BY DEF Issued
  <2>3. /\ Cardinality(created \cup recovered) = Cardinality(created) + Cardinality(recovered)
        /\ Cardinality(created \cup recovered) <= Cardinality(Ids)
        /\ Cardinality(Ids) \in Nat
    <3>1. Cardinality(created \cap recovered) = 0
      BY <2>2, FS_EmptySet
    <3>2. Cardinality(created \cup recovered)
            = Cardinality(created) + Cardinality(recovered) - Cardinality(created \cap recovered)
      BY <2>1, FS_Union
    <3>3. Cardinality(created \cup recovered) <= Cardinality(Ids) /\ Cardinality(Ids) \in Nat
      BY <2>2, IdsFinite, FS_Subset, FS_CardinalityType
    <3> QED BY <2>1, <3>1, <3>2, <3>3
  <2>4. /\ Cardinality(created) = IF Exists(t) THEN 1 ELSE 0
        /\ task[t].version = IF Exists(t) THEN 1 + Cardinality(recovered) ELSE 0
    BY <1>1 DEF Accounts
  <2> HIDE DEF created, recovered
  <2> QED BY <2>1, <2>3, <2>4
<1>2. IInv /\ Accounts => TypeOK
  <2> SUFFICES ASSUME IInv, Accounts PROVE TypeOK
    OBVIOUS
  <2>1. Cardinality(Ids) \in Nat
    BY IdsFinite, FS_CardinalityType
  <2>2. \A t \in TaskIds : task[t] \in [status : Status, version : 0..Cardinality(Ids)]
    <3> TAKE t \in TaskIds
    <3>1. task[t] \in Row /\ task[t].version <= Cardinality(Ids)
      BY <1>1 DEF IInv, Typed
    <3> QED BY <2>1, <3>1 DEF Row
  <2>3. task \in [TaskIds -> [status : Status, version : 0..Cardinality(Ids)]]
    BY <2>2 DEF IInv, Typed
  <2> QED BY <2>3 DEF IInv, Typed, Client, TypeOK
<1> QED BY <1>2, Invariant, Accounting, PTL
=============================================================================
