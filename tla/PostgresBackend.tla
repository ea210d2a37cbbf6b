-------------------------- MODULE PostgresBackend --------------------------
(***************************************************************************)
(* The postgres backend (backend/postgres/postgres.go), the long backend.  *)
(*                                                                         *)
(* Vote and Stop are REPEATABLE READ transactions: the first SELECT takes  *)
(* the snapshot and the checks are made on it, the UPDATE of the row locks *)
(* it, and the COMMIT publishes all writes at once.  An UPDATE of a row    *)
(* that another transaction has written since the snapshot fails with      *)
(* SQLSTATE 40001, on which continueOnTransactionError starts again.       *)
(* Start and Clear are single statements.  ClearAll drops the schema and   *)
(* creates it again in a second statement.  What PostgreSQL itself does    *)
(* (snapshots, row locks, 40001, DROP waiting for transactions) is         *)
(* modelled from how the code uses it.                                     *)
(***************************************************************************)
EXTENDS BackendInterface, UserIDList

CONSTANTS
  MayFail,   \* the operations that may return an error at any point
  MayCancel  \* whether the context of a call may already be cancelled

ASSUME UsersAssumption == Users \subseteq Int32
ASSUME MayFailAssumption == MayFail \subseteq Op
ASSUME MayCancelAssumption == MayCancel \in BOOLEAN

VARIABLES
  schema,   \* whether the schema with its two tables exists
  row,      \* row[p]: the row of vote.poll with id p
  objects,  \* objects[p]: the rows of vote.objects that reference p, each with
            \* the user it came from, which the table does not store
  pc,       \* pc[c]: the next statement of the method c runs
  req,
  res,
  snap,     \* snap[c]: what the open transaction of c sees of its poll
  stale,    \* stale[c]: the row has a newer version than snap[c]
  retried   \* retried[c]: the call of c has had a transaction error

tables == <<schema, row, objects>>
tx == <<snap, stale>>
vars == <<schema, row, objects, pc, req, res, snap, stale, retried>>

\* A NULL in user_ids is read as the empty list.
NoRow == [exists |-> FALSE, stopped |-> FALSE, user_ids |-> <<>>]
NewRow == [exists |-> TRUE, stopped |-> FALSE, user_ids |-> <<>>]

NoSnapshot == [row |-> NoRow, objects |-> {}]

Init ==
  /\ schema = TRUE
  /\ row = [p \in Polls |-> NoRow]
  /\ objects = [p \in Polls |-> {}]
  /\ pc = [c \in Clients |-> "idle"]
  /\ req = [c \in Clients |-> NoRequest]
  /\ res = [c \in Clients |-> Answer("none")]
  /\ snap = [c \in Clients |-> NoSnapshot]
  /\ stale = [c \in Clients |-> FALSE]
  /\ retried = [c \in Clients |-> FALSE]

Invoke(c) ==
  /\ pc[c] = "idle"
  /\ \E r \in RequestsOf(c) : req' = [req EXCEPT ![c] = r]
  /\ pc' = [pc EXCEPT ![c] = "begin"]
  /\ UNCHANGED <<tables, res, tx, retried>>

At(c, op, label) == pc[c] = label /\ req[c].op = op

\* The transaction of c has locked the row of p by its UPDATE.
Locks(c, p) == pc[c] = "locked" /\ req[c].poll = p

Locked(p) == \E c \in Clients : Locks(c, p)

\* The transactions that have read the row of p.
InTransaction(c, p) == pc[c] \in {"update", "locked"} /\ req[c].poll = p

Reply(c, a) ==
  /\ pc' = [pc EXCEPT ![c] = "return"]
  /\ res' = [res EXCEPT ![c] = a]
  /\ UNCHANGED <<req, retried>>

\* A new version of the row of p is committed by c: every other transaction
\* that has read the row now has an old snapshot; the one of c, if any, ends.
CommitRow(c, p) ==
  /\ snap' = [snap EXCEPT ![c] = NoSnapshot]
  /\ stale' = [d \in Clients |-> d # c /\ (stale[d] \/ InTransaction(d, p))]
-----------------------------------------------------------------------------
\* Mutant: ON CONFLICT DO UPDATE SET stopped = false.
StartUpsert(c) ==
  LET p == req[c].poll IN
  /\ At(c, "start", "begin")
  /\ schema
  /\ row' = [row EXCEPT ![p] = IF @.exists THEN [@ EXCEPT !.stopped = FALSE] ELSE NewRow]
  /\ Reply(c, Answer("ok"))
  /\ UNCHANGED <<schema, objects, tx>>

\* INSERT ... ON CONFLICT DO NOTHING
Start(c) ==
  LET p == req[c].poll IN
  /\ At(c, "start", "begin")
  /\ schema
  /\ row' = [row EXCEPT ![p] = IF @.exists THEN @ ELSE NewRow]
  /\ Reply(c, Answer("ok"))
  /\ UNCHANGED <<schema, objects, tx>>

\* BEGIN and the first SELECT of c, which finds its poll.
TakeSnapshot(c) ==
  /\ snap' = [snap EXCEPT ![c] = [row     |-> row[req[c].poll],
                                  objects |-> objects[req[c].poll]]]
  /\ pc' = [pc EXCEPT ![c] = "update"]
  /\ UNCHANGED <<tables, req, res, stale, retried>>

voteSelect(c) ==
  LET r == row[req[c].poll]
      rejected(kind) == Reply(c, Answer(kind)) /\ UNCHANGED <<tables, tx>>
      voted == contains(userIDListFromBytes(r.user_ids), req[c].user)
  IN
  /\ At(c, "vote", "begin")
  /\ schema
  /\ \/ ~r.exists /\ rejected("notExist")
     \/ r.exists /\ r.stopped /\ rejected("stopped")
     \/ r.exists /\ ~r.stopped /\ voted /\ rejected("doubleVote")
     \/ r.exists /\ ~r.stopped /\ ~voted /\ TakeSnapshot(c)

stopSelect(c) ==
  /\ At(c, "stop", "begin")
  /\ schema
  /\ \/ /\ ~row[req[c].poll].exists
        /\ Reply(c, Answer("notExist"))
        /\ UNCHANGED <<tables, tx>>
     \/ /\ row[req[c].poll].exists
        /\ TakeSnapshot(c)

\* Mutant: READ COMMITTED, under which UPDATE takes any version of the row.
UpdateReadCommitted(c) ==
  /\ pc[c] = "update"
  /\ ~Locked(req[c].poll)
  /\ pc' = [pc EXCEPT ![c] = "locked"]
  /\ UNCHANGED <<tables, req, res, tx, retried>>

\* Mutant: the statement is tried again inside the failed transaction.
UpdateRetried(c) ==
  /\ pc[c] = "update"
  /\ ~Locked(req[c].poll)
  /\ pc' = [pc EXCEPT ![c] = IF stale[c] THEN "update" ELSE "locked"]
  /\ UNCHANGED <<tables, req, res, tx, retried>>

\* The UPDATE waits for the lock of the row.  It succeeds on the version of the
\* snapshot, otherwise 40001 rolls back and the method starts again.
Update(c) ==
  /\ pc[c] = "update"
  /\ ~Locked(req[c].poll)
  /\ \/ /\ ~stale[c]
        /\ pc' = [pc EXCEPT ![c] = "locked"]
        /\ UNCHANGED <<tx, retried>>
     \/ /\ stale[c]
        /\ pc' = [pc EXCEPT ![c] = "begin"]
        /\ snap' = [snap EXCEPT ![c] = NoSnapshot]
        /\ stale' = [stale EXCEPT ![c] = FALSE]
        /\ retried' = [retried EXCEPT ![c] = TRUE]
  /\ UNCHANGED <<tables, req, res>>

\* The new user_ids were computed from the snapshot; INSERT and COMMIT.
voteCommit(c) ==
  LET p == req[c].poll
      u == req[c].user
      uIDs == userIDListFromBytes(snap[c].row.user_ids)
  IN
  /\ At(c, "vote", "locked")
  /\ row' = [row EXCEPT ![p].user_ids = toBytes(add(uIDs, u))]
  /\ objects' = [objects EXCEPT ![p] = @ \cup {<<u, req[c].object>>}]
  /\ CommitRow(c, p)
  /\ Reply(c, Answer("ok"))
  /\ UNCHANGED schema

\* Mutant: the users are taken from the bytes of the column, one by one.
stopCommitRaw(c) ==
  LET p == req[c].poll IN
  /\ At(c, "stop", "locked")
  /\ row' = [row EXCEPT ![p].stopped = TRUE]
  /\ CommitRow(c, p)
  /\ Reply(c, [kind    |-> "ok",
               users   |-> Range(snap[c].row.user_ids),
               objects |-> snap[c].objects])
  /\ UNCHANGED <<schema, objects>>

\* The two SELECTs of the result read the snapshot; then COMMIT.
stopCommit(c) ==
  LET p == req[c].poll IN
  /\ At(c, "stop", "locked")
  /\ row' = [row EXCEPT ![p].stopped = TRUE]
  /\ CommitRow(c, p)
  /\ Reply(c, [kind    |-> "ok",
               users   |-> Range(userIDListFromBytes(snap[c].row.user_ids)),
               objects |-> snap[c].objects])
  /\ UNCHANGED <<schema, objects>>

\* DELETE waits for the lock of the row and cascades to vote.objects.
Clear(c) ==
  LET p == req[c].poll IN
  /\ At(c, "clear", "begin")
  /\ schema
  /\ ~Locked(p)
  /\ row' = [row EXCEPT ![p] = NoRow]
  /\ objects' = [objects EXCEPT ![p] = {}]
  /\ CommitRow(c, p)
  /\ Reply(c, Answer("ok"))
  /\ UNCHANGED schema

\* DROP SCHEMA waits until no transaction uses the tables.
ClearAllDrop(c) ==
  /\ At(c, "clearAll", "begin")
  /\ \A d \in Clients : pc[d] \notin {"update", "locked"}
  /\ schema' = FALSE
  /\ row' = [p \in Polls |-> NoRow]
  /\ objects' = [p \in Polls |-> {}]
  /\ pc' = [pc EXCEPT ![c] = "migrate"]
  /\ UNCHANGED <<req, res, tx, retried>>

ClearAllMigrate(c) ==
  /\ At(c, "clearAll", "migrate")
  /\ schema' = TRUE
  /\ Reply(c, Answer("ok"))
  /\ UNCHANGED <<row, objects, tx>>

\* Every instance of the service creates the missing schema when it starts.
Migrate ==
  /\ ~schema
  /\ schema' = TRUE
  /\ UNCHANGED <<row, objects, pc, req, res, tx, retried>>
-----------------------------------------------------------------------------
\* The call is over and its caller has the answer or the error.  An open
\* transaction is rolled back and its lock is released.
Finish(c) ==
  /\ pc' = [pc EXCEPT ![c] = "idle"]
  /\ req' = [req EXCEPT ![c] = NoRequest]
  /\ res' = [res EXCEPT ![c] = Answer("none")]
  /\ snap' = [snap EXCEPT ![c] = NoSnapshot]
  /\ stale' = [stale EXCEPT ![c] = FALSE]
  /\ retried' = [retried EXCEPT ![c] = FALSE]
  /\ UNCHANGED tables

Return(c) ==
  /\ pc[c] = "return"
  /\ Finish(c)

\* A statement between DROP SCHEMA and the migration: undefined table.
UndefinedTable(c) ==
  /\ pc[c] = "begin"
  /\ req[c].op # "clearAll"
  /\ ~schema
  /\ Finish(c)

\* A statement or the COMMIT returns an error, the context is cancelled in a
\* statement, or the instance goes down.
Fail(c) ==
  /\ pc[c] # "idle"
  /\ req[c].op \in MayFail
  /\ Finish(c)

\* continueOnTransactionError finds the context cancelled at the head of its
\* loop and returns the error of the last attempt, which is nil if there was
\* none.
LoopExit(c) ==
  /\ MayCancel
  /\ pc[c] = "begin"
  /\ req[c].op \in {"vote", "stop"}
  /\ \/ /\ retried[c]
        /\ Finish(c)
     \/ /\ ~retried[c]
        /\ Reply(c, Answer("ok"))
        /\ UNCHANGED <<tables, tx>>

\* The steps of a call after its invocation, errors aside.
Step(c) ==
  \/ Start(c)
  \/ voteSelect(c) \/ stopSelect(c) \/ Update(c) \/ voteCommit(c) \/ stopCommit(c)
  \/ Clear(c)
  \/ ClearAllDrop(c) \/ ClearAllMigrate(c)
  \/ UndefinedTable(c)
  \/ Return(c)

Next ==
  \/ \E c \in Clients : Invoke(c) \/ Step(c) \/ Fail(c) \/ LoopExit(c)
  \/ Migrate

Spec == Init /\ [][Next]_vars

\* The goroutine of a call runs on, and the database answers each statement.
\* Statements do not fail forever.
Fairness ==
  /\ \A c \in Clients : WF_vars(Step(c))
  /\ <>[][\A c \in Clients : ~Fail(c)]_vars

FairSpec == Spec /\ Fairness
-----------------------------------------------------------------------------
Row == [exists : BOOLEAN, stopped : BOOLEAN, user_ids : Seq(Byte)]

TypeOK ==
  /\ schema \in BOOLEAN
  /\ row \in [Polls -> Row]
  /\ objects \in [Polls -> SUBSET (Users \X Objects)]
  /\ pc \in [Clients -> {"idle", "begin", "update", "locked", "migrate", "return"}]
  /\ req \in [Clients -> VoteRequest \cup PollRequest \cup ClearAllRequest \cup {NoRequest}]
  /\ \A c \in Clients : req[c] \in IF pc[c] = "idle" THEN {NoRequest} ELSE RequestsOf(c)
  /\ res \in [Clients -> AnswerSet]
  /\ snap \in [Clients -> [row : Row, objects : SUBSET (Users \X Objects)]]
  /\ stale \in [Clients -> BOOLEAN]
  /\ retried \in [Clients -> BOOLEAN]

\* Who has voted (user_ids, written as a whole by every vote) and the votes (a
\* row of vote.objects each) agree: every listed user has exactly one object
\* and no object is from a user that is not listed.  The list is sorted, which
\* hides the order of the votes and on which sort.Search relies.
RowsConsistent ==
  \A p \in Polls :
    LET uIDs == userIDListFromBytes(row[p].user_ids) IN
    /\ StrictlySorted(uIDs)
    /\ Range(uIDs) = {x[1] : x \in objects[p]}
    /\ \A x, y \in objects[p] : x[1] = y[1] => x = y
    /\ ~row[p].exists => row[p] = NoRow /\ objects[p] = {}

TransactionOK(c) ==
  LET p == req[c].poll IN
  /\ schema
  /\ req[c].op \in {"vote", "stop"}
  /\ ~stale[c] =>
       /\ snap[c] = [row |-> row[p], objects |-> objects[p]]
       /\ row[p].exists
       /\ req[c].op = "vote" =>
            ~row[p].stopped /\ ~contains(userIDListFromBytes(row[p].user_ids), req[c].user)
  /\ pc[c] = "locked" => ~stale[c] /\ \A d \in Clients : Locks(d, p) => d = c

\* A transaction of Vote or Stop decides on its snapshot and writes later.  Until
\* the row is written by somebody else the snapshot is the current row, so the
\* checks still hold; the version check of UPDATE sees to it that this is so
\* from the lock to the COMMIT, and the lock is exclusive.
SnapshotIsCurrent ==
  \A c \in Clients : pc[c] \in {"update", "locked"} => TransactionOK(c)

\* A stopped poll gets no more votes: neither a vote that was checked before
\* Stop committed nor a repeated Start reaches it.
StoppedIsFinal ==
  [][\A p \in Polls : row[p].stopped =>
       \/ row'[p] = row[p] /\ objects'[p] = objects[p]
       \/ ~row'[p].exists]_vars

\* A vote that is answered with success is in the tables, and a poll whose
\* Stop is answered with success is stopped.
OkMeansDone ==
  [][\A c \in Clients :
       pc[c] # "return" /\ pc'[c] = "return" /\ res'[c].kind = "ok" =>
         /\ req[c].op = "vote" => <<req[c].user, req[c].object>> \in objects'[req[c].poll]
         /\ req[c].op = "stop" => row'[req[c].poll].stopped]_vars

\* Every vote call returns once the managers are quiet: a transaction error is
\* always the success of another vote, of which there is one per user.
VoteReturns ==
  <>[](\A m \in Managers : pc[m] = "idle") =>
    \A v \in Voters : pc[v] # "idle" ~> pc[v] = "idle"

\* The votes cannot keep Stop, Clear or ClearAll from returning.
ManagerReturns == \A m \in Managers : pc[m] # "idle" ~> pc[m] = "idle"
-----------------------------------------------------------------------------
contractState ==
  [p \in Polls |-> CASE ~row[p].exists -> "unknown"
                     [] row[p].exists /\ ~row[p].stopped -> "started"
                     [] row[p].exists /\ row[p].stopped -> "stopped"]

contractVotes ==
  [p \in Polls |-> [u \in Users |->
     IF \E o \in Objects : <<u, o>> \in objects[p]
     THEN CHOOSE o \in Objects : <<u, o>> \in objects[p]
     ELSE NoVote]]

contractPc ==
  [c \in Clients |-> CASE pc[c] = "idle" -> "idle"
                       [] pc[c] \in {"begin", "update", "locked"} -> "pending"
                       [] pc[c] \in {"migrate", "return"} -> "applied"]

contractRes ==
  [c \in Clients |-> IF pc[c] = "migrate" THEN Answer("ok") ELSE res[c]]

Contract == INSTANCE Backend WITH
  state <- contractState, votes <- contractVotes, pc <- contractPc, res <- contractRes

\* The postgres backend does what vote.Backend promises: Vote and Stop take
\* effect at their COMMIT, or at the SELECT that rejects them.
ImplementsBackend == Contract!Spec
=============================================================================
