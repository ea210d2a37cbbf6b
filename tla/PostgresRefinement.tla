------------------------ MODULE PostgresRefinement ------------------------
(***************************************************************************)
(* The postgres backend implements the contract of vote.Backend for every  *)
(* number of polls, users, objects and overlapping calls, with errors at   *)
(* any statement, as long as no context is cancelled before the first      *)
(* attempt of a transaction.                                               *)
(*                                                                         *)
(* The invariant of PostgresProofs carries the argument: at its commit a   *)
(* transaction has a snapshot that is the current row, so what it checked  *)
(* and what it answers is true at that instant.                            *)
(***************************************************************************)
EXTENDS PostgresProofs

\* The vocabulary of the contract is that of the backend.
LEMMA SameVocabulary ==
  /\ Contract!Clients = Clients
  /\ Contract!NoRequest = NoRequest
  /\ Contract!NobodyVoted = NobodyVoted
  /\ \A c \in Clients : Contract!RequestsOf(c) = RequestsOf(c)
  /\ \A k : Contract!Answer(k) = Answer(k)
  /\ \A b : Contract!StopAnswer(b) = StopAnswer(b)
  BY DEF Contract!Clients, Clients, Contract!NoRequest, NoRequest, Contract!NobodyVoted,
         NobodyVoted, Contract!RequestsOf, RequestsOf, Contract!VoteRequest, VoteRequest,
         Contract!PollRequest, PollRequest, Contract!ClearAllRequest, ClearAllRequest,
         Contract!Answer, Answer, Contract!StopAnswer, StopAnswer, Contract!HasVoted, HasVoted
-----------------------------------------------------------------------------
(***************************************************************************)
(* The mapping of the tables.                                              *)
(***************************************************************************)
\* The votes that a set of rows of vote.objects stands for.
BallotsIn(S) ==
  [u \in Users |-> IF \E o \in Objects : <<u, o>> \in S
                   THEN CHOOSE o \in Objects : <<u, o>> \in S
                   ELSE NoVote]

\* When no user has two rows, the votes and the rows say the same.
LEMMA BallotsSpec ==
  ASSUME NEW S \in SUBSET (Users \X Objects), \A x, y \in S : x[1] = y[1] => x = y,
         NEW u \in Users
  PROVE  /\ \A o \in Objects : <<u, o>> \in S <=> BallotsIn(S)[u] = o
         /\ BallotsIn(S)[u] \in Objects \cup {NoVote}
         /\ BallotsIn(S)[u] # NoVote <=> \E x \in S : x[1] = u
<1>1. CASE \E o \in Objects : <<u, o>> \in S
  <2> DEFINE v == CHOOSE o \in Objects : <<u, o>> \in S
  <2>1. v \in Objects /\ <<u, v>> \in S
    BY <1>1
  <2>2. BallotsIn(S)[u] = v
    BY <1>1 DEF BallotsIn
  <2> HIDE DEF v
  <2>3. ASSUME NEW o \in Objects, <<u, o>> \in S PROVE o = v
    <3>1. <<u, o>>[1] = u /\ <<u, v>>[1] = u
      OBVIOUS
    <3>2. <<u, o>> = <<u, v>>
      BY <2>1, <2>3, <3>1
    <3> QED
      BY <3>2
  <2>4. v # NoVote
    BY <2>1, NoVoteAssumption
  <2>5. \E x \in S : x[1] = u
    BY <2>1
  <2> QED
    BY <2>1, <2>2, <2>3, <2>4, <2>5
<1>2. CASE ~\E o \in Objects : <<u, o>> \in S
  <2>1. BallotsIn(S)[u] = NoVote
    BY <1>2 DEF BallotsIn
  <2>2. ~\E x \in S : x[1] = u
    BY <1>2
  <2> QED
    BY <1>2, <2>1, <2>2, NoVoteAssumption
<1> QED
  BY <1>1, <1>2

\* Adding the row of a user that has none adds one vote.
LEMMA BallotsAdd ==
  ASSUME NEW S \in SUBSET (Users \X Objects), \A x, y \in S : x[1] = y[1] => x = y,
         NEW u \in Users, NEW o \in Objects, ~\E x \in S : x[1] = u
  PROVE  BallotsIn(S \cup {<<u, o>>}) = [BallotsIn(S) EXCEPT ![u] = o]
<1> DEFINE T == S \cup {<<u, o>>}
<1>1. T \in SUBSET (Users \X Objects)
  OBVIOUS
<1>2. \A x, y \in T : x[1] = y[1] => x = y
  <2>1. <<u, o>>[1] = u
    OBVIOUS
  <2> QED
    BY <2>1
<1>3. BallotsIn(T)[u] = o
  <2>1. <<u, o>> \in T
    OBVIOUS
  <2> HIDE DEF T
  <2> QED
    BY <1>1, <1>2, <2>1, BallotsSpec
<1>4. ASSUME NEW w \in Users, w # u PROVE BallotsIn(T)[w] = BallotsIn(S)[w]
  <2>1. \A z \in Objects : <<w, z>> \in T <=> <<w, z>> \in S
    BY <1>4
  <2> HIDE DEF T
  <2>2. /\ \A z \in Objects : <<w, z>> \in T <=> BallotsIn(T)[w] = z
        /\ BallotsIn(T)[w] \in Objects \cup {NoVote}
    BY <1>1, <1>2, BallotsSpec
  <2>3. /\ \A z \in Objects : <<w, z>> \in S <=> BallotsIn(S)[w] = z
        /\ BallotsIn(S)[w] \in Objects \cup {NoVote}
    BY BallotsSpec
  <2> QED
    BY <2>1, <2>2, <2>3
<1>5. \A w \in Users : BallotsIn(T)[w] = [BallotsIn(S) EXCEPT ![u] = o][w]
  BY <1>3, <1>4 DEF BallotsIn
<1>6. /\ BallotsIn(T) = [w \in Users |-> BallotsIn(T)[w]]
      /\ BallotsIn(S) = [w \in Users |-> BallotsIn(S)[w]]
  BY DEF BallotsIn
<1> HIDE DEF T
<1>7. BallotsIn(T) = [BallotsIn(S) EXCEPT ![u] = o]
  BY <1>5, <1>6
<1> QED
  BY <1>7 DEF T

LEMMA BallotsEmpty == BallotsIn({}) = NobodyVoted
  BY DEF BallotsIn, NobodyVoted

LEMMA VotesMap ==
  /\ contractVotes = [p \in Polls |-> BallotsIn(objects[p])]
  /\ contractVotes' = [p \in Polls |-> BallotsIn(objects'[p])]
  BY DEF contractVotes, BallotsIn

\* What Stop answers from the tables is what the contract answers.
LEMMA AnswerOfRows ==
  ASSUME NEW S \in SUBSET (Users \X Objects), \A x, y \in S : x[1] = y[1] => x = y
  PROVE  StopAnswer(BallotsIn(S)) = [kind |-> "ok", users |-> {x[1] : x \in S}, objects |-> S]
<1> DEFINE b == BallotsIn(S)
<1>1. \A u \in Users : /\ \A o \in Objects : <<u, o>> \in S <=> b[u] = o
                       /\ b[u] \in Objects \cup {NoVote}
                       /\ b[u] # NoVote <=> \E x \in S : x[1] = u
  BY BallotsSpec
<1> HIDE DEF b
<1>2. HasVoted(b) = {x[1] : x \in S}
  <2>1. \A x \in S : x[1] \in Users
    OBVIOUS
  <2> QED
    BY <1>1, <2>1 DEF HasVoted
<1>3. {<<u, b[u]>> : u \in HasVoted(b)} = S
  <2>1. ASSUME NEW u \in HasVoted(b) PROVE <<u, b[u]>> \in S
    BY <1>1 DEF HasVoted
  <2>2. ASSUME NEW x \in S PROVE \E u \in HasVoted(b) : x = <<u, b[u]>>
    <3>1. PICK u \in Users, o \in Objects : x = <<u, o>>
      OBVIOUS
    <3>2. b[u] = o /\ u \in HasVoted(b)
      BY <1>1, <2>2, <3>1, NoVoteAssumption DEF HasVoted
    <3> QED
      BY <3>1, <3>2
  <2> QED
    BY <2>1, <2>2
<1> QED
  BY <1>2, <1>3 DEF StopAnswer, b
\* The rows of a poll, and whether a user has voted in it.
LEMMA PollRows ==
  ASSUME IInv, NEW p \in Polls
  PROVE  /\ objects[p] \in SUBSET (Users \X Objects)
         /\ \A x, y \in objects[p] : x[1] = y[1] => x = y
         /\ Range(userIDListFromBytes(row[p].user_ids)) = {x[1] : x \in objects[p]}
         /\ contractVotes[p] = BallotsIn(objects[p])
         /\ \A u \in Users : contains(userIDListFromBytes(row[p].user_ids), u)
                                <=> contractVotes[p][u] # NoVote
<1>1. objects[p] \in SUBSET (Users \X Objects)
  BY DEF IInv, TypeOK
<1>2. /\ \A x, y \in objects[p] : x[1] = y[1] => x = y
      /\ Range(userIDListFromBytes(row[p].user_ids)) = {x[1] : x \in objects[p]}
  BY DEF IInv, RowsConsistent
<1>3. contractVotes[p] = BallotsIn(objects[p])
  BY VotesMap
<1>4. ASSUME NEW u \in Users
      PROVE  contains(userIDListFromBytes(row[p].user_ids), u) <=> contractVotes[p][u] # NoVote
  <2>1. /\ userIDListFromBytes(row[p].user_ids) \in Seq(Int32)
        /\ StrictlySorted(userIDListFromBytes(row[p].user_ids))
        /\ u \in Int32
    BY StoredList, UsersAssumption DEF IInv
  <2>2. contains(userIDListFromBytes(row[p].user_ids), u)
          <=> u \in Range(userIDListFromBytes(row[p].user_ids))
    BY <2>1, ContainsSpec
  <2>3. BallotsIn(objects[p])[u] # NoVote <=> \E x \in objects[p] : x[1] = u
    BY <1>1, <1>2, BallotsSpec
  <2> QED
    BY <1>2, <1>3, <2>2, <2>3
<1> QED
  BY <1>1, <1>2, <1>3, <1>4

\* The state of a poll.
LEMMA StateMap ==
  ASSUME IInv
  PROVE  /\ contractState \in [Polls -> {"unknown", "started", "stopped"}]
         /\ \A p \in Polls :
              /\ contractState[p] = "unknown" <=> ~row[p].exists
              /\ contractState[p] = "stopped" <=> row[p].exists /\ row[p].stopped
<1>1. \A p \in Polls : row[p].exists \in BOOLEAN /\ row[p].stopped \in BOOLEAN
  BY DEF IInv, TypeOK, Row
<1> QED
  BY <1>1 DEF contractState

\* A step that changes no row changes no poll of the contract.
LEMMA TablesMap ==
  ASSUME row' = row, objects' = objects
  PROVE  contractState' = contractState /\ contractVotes' = contractVotes
  BY VotesMap DEF contractState
-----------------------------------------------------------------------------
(***************************************************************************)
(* The mapping of the calls.                                               *)
(***************************************************************************)
mapPc(l) == CASE l = "idle" -> "idle"
              [] l \in {"begin", "update", "locked"} -> "pending"
              [] l \in {"migrate", "return"} -> "applied"

LEMMA PcMap ==
  /\ contractPc = [c \in Clients |-> mapPc(pc[c])]
  /\ contractPc' = [c \in Clients |-> mapPc(pc'[c])]
  BY DEF contractPc, mapPc

LEMMA PcStep ==
  ASSUME TypeOK, NEW c \in Clients, NEW l, pc' = [pc EXCEPT ![c] = l]
  PROVE  /\ contractPc[c] = mapPc(pc[c])
         /\ contractPc' = [contractPc EXCEPT ![c] = mapPc(l)]
<1>1. DOMAIN pc = Clients
  BY DEF TypeOK
<1> QED
  BY <1>1, PcMap

\* A step of c that leads to the label l and the answer a.
LEMMA ResStep ==
  ASSUME TypeOK, NEW c \in Clients, NEW l, pc' = [pc EXCEPT ![c] = l], l # "migrate",
         NEW a, res' = [res EXCEPT ![c] = a]
  PROVE  contractRes' = [contractRes EXCEPT ![c] = a]
  BY DEF TypeOK, contractRes

\* A step of c by which its call takes effect and is answered.
LEMMA Effect ==
  ASSUME TypeOK, NEW c \in Clients, NEW a, NEW op,
         pc[c] \in {"begin", "update", "locked"}, req[c].op = op, Reply(c, a)
  PROVE  Contract!TakesEffect(c, op, a)
<1>1. contractPc[c] = "pending" /\ contractPc' = [contractPc EXCEPT ![c] = "applied"]
  BY PcStep DEF Reply, mapPc
<1>2. contractRes' = [contractRes EXCEPT ![c] = a]
  BY ResStep DEF Reply
<1> QED
  BY <1>1, <1>2 DEF Contract!TakesEffect, Reply

\* The steps inside a transaction are invisible.
LEMMA Invisible ==
  ASSUME TypeOK, NEW c \in Clients, pc[c] \in {"begin", "update", "locked"},
         NEW l \in {"begin", "update", "locked"}, pc' = [pc EXCEPT ![c] = l],
         UNCHANGED <<row, objects, req, res>>
  PROVE  UNCHANGED Contract!vars
<1>1. contractState' = contractState /\ contractVotes' = contractVotes
  BY TablesMap
<1>2. \A d \in Clients : mapPc(pc'[d]) = mapPc(pc[d])
  BY DEF TypeOK, mapPc
<1>3. contractPc' = contractPc
  BY <1>2, PcMap
<1>4. \A d \in Clients : pc'[d] = "migrate" <=> pc[d] = "migrate"
  BY DEF TypeOK
<1>5. contractRes' = contractRes
  BY <1>4 DEF contractRes
<1> QED
  BY <1>1, <1>3, <1>5 DEF Contract!vars
-----------------------------------------------------------------------------
(***************************************************************************)
(* Every step is a step of the contract or invisible.                      *)
(***************************************************************************)
\* The end of a call, with its answer or with an error.
LEMMA FinishImplements ==
  ASSUME TypeOK, NEW c \in Clients, Finish(c)
  PROVE  Contract!Finish(c)
<1>1. contractState' = contractState /\ contractVotes' = contractVotes
  BY TablesMap DEF Finish, tables
<1>2. contractPc' = [contractPc EXCEPT ![c] = "idle"]
  BY PcStep DEF Finish, mapPc
<1>3. contractRes' = [contractRes EXCEPT ![c] = Answer("none")]
  BY ResStep DEF Finish
<1> QED
  BY <1>1, <1>2, <1>3, SameVocabulary DEF Finish, Contract!Finish

LEMMA InvokeImplements ==
  ASSUME TypeOK, NEW c \in Clients, Invoke(c)
  PROVE  Contract!Invoke(c)
<1>1. contractState' = contractState /\ contractVotes' = contractVotes
  BY TablesMap DEF Invoke, tables
<1>2. contractPc[c] = "idle" /\ contractPc' = [contractPc EXCEPT ![c] = "pending"]
  BY PcStep DEF Invoke, mapPc
<1>3. \A d \in Clients : pc'[d] = "migrate" <=> pc[d] = "migrate"
  BY DEF TypeOK, Invoke
<1>4. contractRes' = contractRes
  BY <1>3 DEF contractRes, Invoke
<1> QED
  BY <1>1, <1>2, <1>4, SameVocabulary DEF Invoke, Contract!Invoke

LEMMA StartImplements ==
  ASSUME IInv, NEW c \in Clients, Start(c)
  PROVE  Contract!Start(c)
<1> DEFINE p == req[c].poll
<1>1. p \in Polls /\ row \in [Polls -> Row]
  BY RequestType DEF Start, At, IInv, TypeOK
<1>2. Contract!TakesEffect(c, "start", Answer("ok"))
  BY Effect DEF Start, At, IInv
<1>3. contractVotes' = contractVotes
  BY VotesMap DEF Start
<1>4. CASE row[p].exists
  <2>1. row' = row
    BY <1>1, <1>4 DEF Start
  <2>2. contractState' = contractState
    BY <2>1 DEF contractState
  <2>3. contractState[p] \in {"started", "stopped"}
    BY <1>1, <1>4, StateMap
  <2>4. contractState' = [contractState EXCEPT ![p] = IF @ = "stopped" THEN @ ELSE "started"]
    BY <2>2, <2>3, StateMap
  <2> QED
    BY <1>2, <1>3, <2>4, SameVocabulary DEF Contract!Start
<1>5. CASE ~row[p].exists
  <2>1. row' = [row EXCEPT ![p] = NewRow]
    BY <1>5 DEF Start
  <2>2. contractState[p] = "unknown"
    BY <1>1, <1>5, StateMap
  <2>3. contractState' = [contractState EXCEPT ![p] = "started"]
    BY <1>1, <2>1 DEF contractState, NewRow
  <2> QED
    BY <1>2, <1>3, <2>2, <2>3, SameVocabulary DEF Contract!Start
<1> QED
  BY <1>4, <1>5

\* Vote is rejected at its SELECT, or its transaction begins.
LEMMA VoteSelectImplements ==
  ASSUME IInv, NEW c \in Clients, voteSelect(c)
  PROVE  Contract!Vote(c) \/ UNCHANGED Contract!vars
<1> DEFINE p == req[c].poll
           u == req[c].user
           voted == contains(userIDListFromBytes(row[p].user_ids), u)
<1>t. TypeOK
  BY DEF IInv
<1>1. p \in Polls /\ u \in Users /\ pc[c] = "begin" /\ req[c].op = "vote"
  BY <1>t, RequestType DEF voteSelect, At
<1>2. voted <=> contractVotes[p][u] # NoVote
  BY <1>1, PollRows
<1>3. ASSUME NEW k, k # "ok", Reply(c, Answer(k)), UNCHANGED tables,
             Contract!VoteAnswer(p, u) = Answer(k)
      PROVE  Contract!Vote(c)
  <2>1. contractState' = contractState /\ contractVotes' = contractVotes
    BY <1>3, TablesMap DEF tables
  <2>2. Contract!TakesEffect(c, "vote", Answer(k))
    BY <1>1, <1>3, <1>t, Effect
  <2> QED
    BY <1>3, <2>1, <2>2 DEF Contract!Vote, Answer
<1>4. \/ /\ ~row[p].exists
         /\ Reply(c, Answer("notExist")) /\ UNCHANGED tables
      \/ /\ row[p].exists /\ row[p].stopped
         /\ Reply(c, Answer("stopped")) /\ UNCHANGED tables
      \/ /\ row[p].exists /\ ~row[p].stopped /\ voted
         /\ Reply(c, Answer("doubleVote")) /\ UNCHANGED tables
      \/ TakeSnapshot(c)
  BY DEF voteSelect
<1> HIDE DEF voted
<1>5. CASE ~row[p].exists /\ Reply(c, Answer("notExist")) /\ UNCHANGED tables
  <2>1. contractState[p] = "unknown"
    BY <1>1, <1>5, StateMap
  <2>2. Contract!VoteAnswer(p, u) = Answer("notExist")
    BY <2>1, SameVocabulary DEF Contract!VoteAnswer
  <2> QED
    BY <1>3, <1>5, <2>2
<1>6. CASE /\ row[p].exists /\ row[p].stopped
           /\ Reply(c, Answer("stopped")) /\ UNCHANGED tables
  <2>1. contractState[p] = "stopped"
    BY <1>1, <1>6, StateMap
  <2>2. Contract!VoteAnswer(p, u) = Answer("stopped")
    BY <2>1, SameVocabulary DEF Contract!VoteAnswer
  <2> QED
    BY <1>3, <1>6, <2>2
<1>7. CASE /\ row[p].exists /\ ~row[p].stopped /\ voted
           /\ Reply(c, Answer("doubleVote")) /\ UNCHANGED tables
  <2>1. contractState[p] = "started"
    BY <1>1, <1>7, StateMap
  <2>2. Contract!VoteAnswer(p, u) = Answer("doubleVote")
    BY <1>2, <1>7, <2>1, SameVocabulary DEF Contract!VoteAnswer
  <2> QED
    BY <1>3, <1>7, <2>2
<1>8. CASE TakeSnapshot(c)
  BY <1>1, <1>8, <1>t, Invisible DEF TakeSnapshot, tables
<1> QED
  BY <1>4, <1>5, <1>6, <1>7, <1>8

LEMMA VoteCommitImplements ==
  ASSUME IInv, NEW c \in Clients, voteCommit(c)
  PROVE  Contract!Vote(c)
<1> DEFINE p == req[c].poll
           u == req[c].user
           o == req[c].object
           new == toBytes(add(userIDListFromBytes(snap[c].row.user_ids), u))
<1>1. /\ p \in Polls /\ u \in Users /\ o \in Objects
      /\ pc[c] = "locked" /\ req[c].op = "vote"
  BY RequestType DEF voteCommit, At, IInv
<1>2. /\ row[p].exists /\ ~row[p].stopped
      /\ u \notin Range(userIDListFromBytes(row[p].user_ids))
  BY WrittenList DEF voteCommit
<1>3. /\ row' = [row EXCEPT ![p].user_ids = new]
      /\ objects' = [objects EXCEPT ![p] = @ \cup {<<u, o>>}]
      /\ Reply(c, Answer("ok"))
  BY DEF voteCommit
<1>4. /\ objects[p] \in SUBSET (Users \X Objects)
      /\ \A x, y \in objects[p] : x[1] = y[1] => x = y
      /\ ~\E x \in objects[p] : x[1] = u
      /\ contractVotes[p] = BallotsIn(objects[p])
  BY <1>1, <1>2, PollRows
<1>5. contractVotes[p][u] = NoVote
  BY <1>1, <1>4, BallotsSpec
<1>6. contractState[p] = "started"
  BY <1>1, <1>2, StateMap
<1>7. Contract!VoteAnswer(p, u) = Answer("ok")
  BY <1>5, <1>6, SameVocabulary DEF Contract!VoteAnswer
<1>t. row \in [Polls -> Row] /\ objects \in [Polls -> SUBSET (Users \X Objects)] /\ TypeOK
  BY DEF IInv, TypeOK
<1> HIDE DEF new, p, u, o
<1>8. contractState' = contractState
  <2>1. \A q \in Polls : row'[q].exists = row[q].exists /\ row'[q].stopped = row[q].stopped
    BY <1>1, <1>3, <1>t DEF Row
  <2> QED
    BY <2>1 DEF contractState
<1>9. contractVotes' = [contractVotes EXCEPT ![p][u] = o]
  <2>1. BallotsIn(objects[p] \cup {<<u, o>>}) = [BallotsIn(objects[p]) EXCEPT ![u] = o]
    BY <1>1, <1>4, BallotsAdd
  <2>2. \A q \in Polls : objects'[q] = IF q = p THEN objects[p] \cup {<<u, o>>} ELSE objects[q]
    BY <1>1, <1>3, <1>t
  <2>3. contractVotes' = [contractVotes EXCEPT ![p] = [BallotsIn(objects[p]) EXCEPT ![u] = o]]
    BY <1>1, <2>1, <2>2, VotesMap
  <2> QED
    BY <1>4, <2>3
<1>10. Contract!TakesEffect(c, "vote", Answer("ok"))
  BY <1>1, <1>3, <1>t, Effect
<1> QED
  BY <1>7, <1>8, <1>9, <1>10 DEF Contract!Vote, Answer, p, u, o
\* Stop is rejected at its SELECT, or its transaction begins.
LEMMA StopSelectImplements ==
  ASSUME IInv, NEW c \in Clients, stopSelect(c)
  PROVE  Contract!Stop(c) \/ UNCHANGED Contract!vars
<1> DEFINE p == req[c].poll
<1>t. TypeOK
  BY DEF IInv
<1>1. p \in Polls /\ pc[c] = "begin" /\ req[c].op = "stop"
  BY <1>t, RequestType DEF stopSelect, At
<1>2. CASE ~row[p].exists /\ Reply(c, Answer("notExist")) /\ UNCHANGED tables
  <2>1. contractState[p] = "unknown"
    BY <1>1, <1>2, StateMap
  <2>2. contractState' = contractState /\ contractVotes' = contractVotes
    BY <1>2, TablesMap DEF tables
  <2>3. Contract!TakesEffect(c, "stop", Answer("notExist"))
    BY <1>1, <1>2, <1>t, Effect
  <2> QED
    BY <2>1, <2>2, <2>3, SameVocabulary DEF Contract!Stop
<1>3. CASE TakeSnapshot(c)
  BY <1>1, <1>3, <1>t, Invisible DEF TakeSnapshot, tables
<1> QED
  BY <1>2, <1>3 DEF stopSelect

LEMMA StopCommitImplements ==
  ASSUME IInv, NEW c \in Clients, stopCommit(c)
  PROVE  Contract!Stop(c)
<1> DEFINE p == req[c].poll
           a == [kind    |-> "ok",
                 users   |-> Range(userIDListFromBytes(snap[c].row.user_ids)),
                 objects |-> snap[c].objects]
<1>t. row \in [Polls -> Row] /\ TypeOK
  BY DEF IInv, TypeOK
<1>1. p \in Polls /\ pc[c] = "locked" /\ req[c].op = "stop"
  BY <1>t, RequestType DEF stopCommit, At
<1>2. snap[c] = [row |-> row[p], objects |-> objects[p]] /\ row[p].exists
  BY <1>1 DEF IInv, SnapshotIsCurrent, TransactionOK
<1>3. a = StopAnswer(contractVotes[p])
  <2>1. /\ objects[p] \in SUBSET (Users \X Objects)
        /\ \A x, y \in objects[p] : x[1] = y[1] => x = y
        /\ Range(userIDListFromBytes(row[p].user_ids)) = {x[1] : x \in objects[p]}
        /\ contractVotes[p] = BallotsIn(objects[p])
    BY <1>1, PollRows
  <2>2. StopAnswer(BallotsIn(objects[p]))
          = [kind |-> "ok", users |-> {x[1] : x \in objects[p]}, objects |-> objects[p]]
    BY <2>1, AnswerOfRows
  <2>3. a = [kind |-> "ok", users |-> {x[1] : x \in objects[p]}, objects |-> objects[p]]
    BY <1>2, <2>1
  <2> QED
    BY <2>1, <2>2, <2>3
<1>4. /\ row' = [row EXCEPT ![p].stopped = TRUE]
      /\ objects' = objects
      /\ Reply(c, a)
  BY DEF stopCommit
<1> HIDE DEF a, p
<1>5. Contract!TakesEffect(c, "stop", StopAnswer(contractVotes[p]))
  BY <1>1, <1>3, <1>4, <1>t, Effect
<1>6. contractState[p] # "unknown"
  BY <1>1, <1>2, StateMap
<1>7. contractState' = [contractState EXCEPT ![p] = "stopped"]
  <2>1. \A q \in Polls : /\ row'[q].exists = row[q].exists
                         /\ row'[q].stopped = IF q = p THEN TRUE ELSE row[q].stopped
    BY <1>1, <1>4, <1>t DEF Row
  <2>2. \A q \in Polls : contractState'[q] = IF q = p THEN "stopped" ELSE contractState[q]
    BY <1>1, <1>2, <2>1 DEF contractState
  <2>3. contractState' = [q \in Polls |-> contractState'[q]]
    BY DEF contractState
  <2>4. contractState \in [Polls -> {"unknown", "started", "stopped"}]
    BY StateMap
  <2> QED
    BY <2>2, <2>3, <2>4
<1>8. contractVotes' = contractVotes
  BY <1>4, VotesMap
<1> QED
  BY <1>5, <1>6, <1>7, <1>8, SameVocabulary DEF Contract!Stop, p

LEMMA ClearImplements ==
  ASSUME IInv, NEW c \in Clients, Clear(c)
  PROVE  Contract!Clear(c)
<1> DEFINE p == req[c].poll
<1>t. /\ row \in [Polls -> Row] /\ objects \in [Polls -> SUBSET (Users \X Objects)]
      /\ TypeOK
  BY DEF IInv, TypeOK
<1>1. p \in Polls /\ pc[c] = "begin" /\ req[c].op = "clear"
  BY <1>t, RequestType DEF Clear, At
<1>2. /\ row' = [row EXCEPT ![p] = NoRow]
      /\ objects' = [objects EXCEPT ![p] = {}]
      /\ Reply(c, Answer("ok"))
  BY DEF Clear
<1>3. contractState' = [contractState EXCEPT ![p] = "unknown"]
  BY <1>1, <1>2, <1>t DEF contractState, NoRow
<1>4. contractVotes' = [contractVotes EXCEPT ![p] = NobodyVoted]
  BY <1>1, <1>2, <1>t, VotesMap, BallotsEmpty
<1>5. Contract!TakesEffect(c, "clear", Answer("ok"))
  BY <1>1, <1>2, <1>t, Effect
<1> QED
  BY <1>3, <1>4, <1>5, SameVocabulary DEF Contract!Clear

\* ClearAll takes effect when the schema is dropped.
LEMMA DropImplements ==
  ASSUME IInv, NEW c \in Clients, ClearAllDrop(c)
  PROVE  Contract!ClearAll(c)
<1>t. TypeOK
  BY DEF IInv
<1>1. contractState' = [p \in Polls |-> "unknown"]
  BY DEF ClearAllDrop, contractState, NoRow
<1>2. contractVotes' = [p \in Polls |-> NobodyVoted]
  BY VotesMap, BallotsEmpty DEF ClearAllDrop
<1>3. contractPc[c] = "pending" /\ contractPc' = [contractPc EXCEPT ![c] = "applied"]
  BY <1>t, PcStep DEF ClearAllDrop, At, mapPc
<1>4. contractRes' = [contractRes EXCEPT ![c] = Answer("ok")]
  BY <1>t DEF ClearAllDrop, contractRes, TypeOK
<1> QED
  BY <1>1, <1>2, <1>3, <1>4, SameVocabulary
  DEF ClearAllDrop, At, Contract!ClearAll, Contract!TakesEffect

LEMMA MigrateInvisible ==
  ASSUME IInv, Migrate \/ \E c \in Clients : ClearAllMigrate(c)
  PROVE  UNCHANGED Contract!vars
<1>t. TypeOK
  BY DEF IInv
<1>1. contractState' = contractState /\ contractVotes' = contractVotes
  BY TablesMap DEF Migrate, ClearAllMigrate
<1>2. CASE Migrate
  <2>1. contractPc' = contractPc /\ contractRes' = contractRes /\ req' = req
    BY <1>2, PcMap DEF Migrate, contractRes
  <2> QED
    BY <1>1, <2>1 DEF Contract!vars
<1>3. ASSUME NEW c \in Clients, ClearAllMigrate(c) PROVE UNCHANGED Contract!vars
  <2>1. /\ pc[c] = "migrate" /\ pc' = [pc EXCEPT ![c] = "return"]
        /\ res' = [res EXCEPT ![c] = Answer("ok")] /\ req' = req
    BY <1>3 DEF ClearAllMigrate, At, Reply
  <2>2. \A d \in Clients : mapPc(pc'[d]) = mapPc(pc[d])
    BY <1>t, <2>1 DEF TypeOK, mapPc
  <2>3. contractPc' = contractPc
    BY <2>2, PcMap
  <2>4. contractRes' = contractRes
    BY <1>t, <2>1 DEF TypeOK, contractRes
  <2> QED
    BY <1>1, <2>1, <2>3, <2>4 DEF Contract!vars
<1> QED
  BY <1>2, <1>3

LEMMA InitImplements == Init => Contract!Init
<1> SUFFICES ASSUME Init PROVE Contract!Init
  OBVIOUS
<1>1. contractState = [p \in Polls |-> "unknown"]
  BY DEF Init, contractState, NoRow
<1>2. contractVotes = [p \in Polls |-> NobodyVoted]
  BY VotesMap, BallotsEmpty DEF Init
<1>3. contractPc = [c \in Clients |-> "idle"]
  BY DEF Init, contractPc
<1>4. contractRes = [c \in Clients |-> Answer("none")]
  BY DEF Init, contractRes
<1> QED
  BY <1>1, <1>2, <1>3, <1>4, SameVocabulary DEF Init, Contract!Init

LEMMA StepImplements ==
  ASSUME ~MayCancel, IInv, [Next]_vars
  PROVE  [Contract!Next]_(Contract!vars)
<1>t. TypeOK
  BY DEF IInv
<1>1. ASSUME NEW c \in Clients, Return(c) PROVE Contract!Return(c)
  <2>1. contractPc[c] = "applied"
    BY <1>1, PcMap DEF Return, mapPc
  <2> QED
    BY <1>1, <1>t, <2>1, FinishImplements DEF Return, Contract!Return
<1>2. ASSUME NEW c \in Clients, UndefinedTable(c) \/ Fail(c) PROVE Contract!Fail(c)
  <2>1. Finish(c) /\ pc[c] # "idle"
    BY <1>2 DEF UndefinedTable, Fail
  <2>2. contractPc[c] \in {"pending", "applied"}
    BY <1>t, <2>1, PcMap DEF TypeOK, mapPc
  <2> QED
    BY <1>t, <2>1, <2>2, FinishImplements DEF Contract!Fail
<1>3. ASSUME NEW c \in Clients, Update(c) PROVE UNCHANGED Contract!vars
  <2>1. \E l \in {"begin", "update", "locked"} : pc' = [pc EXCEPT ![c] = l]
    BY <1>3 DEF Update
  <2> QED
    BY <1>3, <1>t, <2>1, Invisible DEF Update, tables
<1>4. ASSUME NEW c \in Clients PROVE ~LoopExit(c)
  BY DEF LoopExit
<1>5. ASSUME NEW c \in Clients, ClearAllMigrate(c) PROVE UNCHANGED Contract!vars
  BY <1>5, MigrateInvisible
<1>6. CASE Migrate
  BY <1>6, MigrateInvisible
<1>7. CASE UNCHANGED vars
  <2>1. contractState' = contractState /\ contractVotes' = contractVotes
    BY <1>7, TablesMap DEF vars
  <2>2. contractPc' = contractPc /\ contractRes' = contractRes /\ req' = req
    BY <1>7, PcMap DEF vars, contractRes
  <2> QED
    BY <2>1, <2>2 DEF Contract!vars
<1>8. ASSUME NEW c \in Clients, Invoke(c) \/ Step(c) \/ Fail(c) \/ LoopExit(c)
      PROVE  [Contract!Next]_(Contract!vars)
  <2>1. c \in Contract!Clients
    BY SameVocabulary
  <2>2. CASE Invoke(c)
    BY <1>t, <2>1, <2>2, InvokeImplements DEF Contract!Next
  <2>3. CASE Start(c)
    BY <2>1, <2>3, StartImplements DEF Contract!Next
  <2>4. CASE voteSelect(c)
    BY <2>1, <2>4, VoteSelectImplements DEF Contract!Next
  <2>5. CASE stopSelect(c)
    BY <2>1, <2>5, StopSelectImplements DEF Contract!Next
  <2>6. CASE voteCommit(c)
    BY <2>1, <2>6, VoteCommitImplements DEF Contract!Next
  <2>7. CASE stopCommit(c)
    BY <2>1, <2>7, StopCommitImplements DEF Contract!Next
  <2>8. CASE Clear(c)
    BY <2>1, <2>8, ClearImplements DEF Contract!Next
  <2>9. CASE ClearAllDrop(c)
    BY <2>1, <2>9, DropImplements DEF Contract!Next
  <2>10. CASE Return(c)
    BY <2>1, <2>10, <1>1 DEF Contract!Next
  <2>11. CASE UndefinedTable(c) \/ Fail(c)
    BY <2>1, <2>11, <1>2 DEF Contract!Next
  <2> QED
    BY <1>3, <1>4, <1>5, <1>8, <2>2, <2>3, <2>4, <2>5, <2>6, <2>7, <2>8, <2>9, <2>10, <2>11
    DEF Step
<1> QED
  BY <1>6, <1>7, <1>8 DEF Next

\* The postgres backend keeps the contract of vote.Backend: a vote and a Stop
\* take effect at their COMMIT or at the SELECT that rejects them, and Stop
\* answers with exactly the votes accepted until then.  A context cancelled
\* before the first attempt is excluded; OkMeansDone shows what happens then.
THEOREM PostgresImplements ==
  ASSUME ~MayCancel
  PROVE  Spec => ImplementsBackend
<1>1. IInv /\ [Next]_vars => [Contract!Next]_(Contract!vars)
  BY StepImplements
<1> QED
  BY <1>1, InitImplements, Invariance, PTL DEF Spec, ImplementsBackend, Contract!Spec
=============================================================================
