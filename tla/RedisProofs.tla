---------------------------- MODULE RedisProofs ----------------------------
(***************************************************************************)
(* What the redis backend keeps for every number of polls, users and       *)
(* concurrent calls, with errors at any command; and that it implements    *)
(* the contract of vote.Backend as long as manager calls do not overlap    *)
(* and no Start is cut off between its two commands.                       *)
(***************************************************************************)
EXTENDS RedisBackend, TLAPS

-----------------------------------------------------------------------------
(***************************************************************************)
(* Any number of managers, any errors.  The types are inductive; together  *)
(* with NoOrphanedVotes they give the two action properties.               *)
(***************************************************************************)
IInv == TypeOK /\ NoOrphanedVotes

\* The fields of a request by its operation.
LEMMA RequestType ==
  ASSUME TypeOK, NEW c \in Clients, pc[c] # "idle"
  PROVE  /\ req[c].op \in Op
         /\ req[c].op = "vote" =>
              req[c].poll \in Polls /\ req[c].user \in Users /\ req[c].object \in Objects
         /\ req[c].op \in {"start", "stop", "clear"} => req[c].poll \in Polls /\ c \in Managers
         /\ req[c].op = "clearAll" => c \in Managers
<1>1. \/ req[c] \in VoteRequest
      \/ c \in Managers /\ (req[c] \in PollRequest \/ req[c] \in ClearAllRequest)
  BY DEF TypeOK, RequestsOf, Clients
<1> QED
  BY <1>1 DEF VoteRequest, PollRequest, ClearAllRequest, Op

\* An answer without data, and the answer of Stop, are answers.
LEMMA AnswerType ==
  /\ \A k \in Kind : Answer(k) \in AnswerSet
  /\ \A b \in [Users -> Objects \cup {NoVote}] : StopAnswer(b) \in AnswerSet
<1>1. ASSUME NEW k \in Kind PROVE Answer(k) \in AnswerSet
  BY DEF Answer, AnswerSet
<1>2. ASSUME NEW b \in [Users -> Objects \cup {NoVote}] PROVE StopAnswer(b) \in AnswerSet
  <2>1. \A u \in HasVoted(b) : u \in Users /\ b[u] \in Objects
    BY DEF HasVoted
  <2> QED
    BY <2>1 DEF StopAnswer, AnswerSet, Kind, HasVoted
<1> QED
  BY <1>1, <1>2

\* The frame of TypeOK: a step of c that moves it to a label.
LEMMA CallType ==
  ASSUME TypeOK, NEW c \in Clients, pc[c] # "idle",
         NEW l \in {"begin", "sadd", "hgetall", "srem", "return"},
         pc' = [pc EXCEPT ![c] = l], UNCHANGED req
  PROVE  /\ pc' \in [Clients -> {"idle", "begin", "sadd", "hgetall", "srem", "return"}]
         /\ req' \in [Clients -> VoteRequest \cup PollRequest \cup ClearAllRequest \cup {NoRequest}]
         /\ \A d \in Clients :
              req'[d] \in IF pc'[d] = "idle" THEN {NoRequest} ELSE RequestsOf(d)
  BY DEF TypeOK

\* And a step of c that ends with an answer.
LEMMA ReplyType ==
  ASSUME TypeOK, NEW c \in Clients, pc[c] # "idle", NEW a \in AnswerSet, Reply(c, a)
  PROVE  /\ pc' \in [Clients -> {"idle", "begin", "sadd", "hgetall", "srem", "return"}]
         /\ req' \in [Clients -> VoteRequest \cup PollRequest \cup ClearAllRequest \cup {NoRequest}]
         /\ \A d \in Clients :
              req'[d] \in IF pc'[d] = "idle" THEN {NoRequest} ELSE RequestsOf(d)
         /\ res' \in [Clients -> AnswerSet]
<1>1. res' \in [Clients -> AnswerSet]
  BY DEF TypeOK, Reply
<1> QED
  BY <1>1, CallType DEF Reply

LEMMA InitIInv == Init => IInv
<1>1. NobodyVoted \in [Users -> Objects \cup {NoVote}] /\ HasVoted(NobodyVoted) = {}
  BY DEF NobodyVoted, HasVoted
<1>2. Answer("none") \in AnswerSet
  BY AnswerType DEF Kind
<1> QED
  BY <1>1, <1>2 DEF Init, IInv, TypeOK, NoOrphanedVotes

LEMMA TypeStep == TypeOK /\ [Next]_vars => TypeOK'
<1> SUFFICES ASSUME TypeOK, [Next]_vars PROVE TypeOK'
  OBVIOUS
<1>a. \A k \in Kind : Answer(k) \in AnswerSet
  BY AnswerType
<1>b. NobodyVoted \in [Users -> Objects \cup {NoVote}]
  BY DEF NobodyVoted
<1>1. ASSUME NEW c \in Clients, Invoke(c) PROVE TypeOK'
  <2>1. PICK r \in RequestsOf(c) : req' = [req EXCEPT ![c] = r]
    BY <1>1 DEF Invoke
  <2>2. r \in VoteRequest \cup PollRequest \cup ClearAllRequest \cup {NoRequest}
    BY DEF RequestsOf
  <2> QED
    BY <1>1, <2>1, <2>2 DEF TypeOK, Invoke, db
<1>2. ASSUME NEW c \in Clients, pc[c] # "idle", Finish(c) PROVE TypeOK'
  <2>1. Answer("none") \in AnswerSet
    BY <1>a DEF Kind
  <2> QED
    BY <1>2, <2>1 DEF TypeOK, Finish, db
<1>3. ASSUME NEW c \in Clients, StartSetnx(c) PROVE TypeOK'
  <2>1. keyState' \in [Polls -> {"nil", "1", "2"}]
    BY <1>3 DEF TypeOK, StartSetnx
  <2> QED
    BY <1>3, <2>1, CallType DEF TypeOK, StartSetnx, At, Goto
<1>4. ASSUME NEW c \in Clients, StartSadd(c) PROVE TypeOK'
  <2>1. req[c].poll \in Polls
    BY <1>4, RequestType DEF StartSadd, At
  <2>2. Answer("ok") \in AnswerSet
    BY <1>a DEF Kind
  <2> QED
    BY <1>4, <2>1, <2>2, ReplyType DEF TypeOK, StartSadd, At
<1>5. ASSUME NEW c \in Clients, luaVoteScript(c) PROVE TypeOK'
  <2> DEFINE p == req[c].poll
             u == req[c].user
  <2>1. p \in Polls /\ u \in Users /\ req[c].object \in Objects /\ pc[c] # "idle"
    BY <1>5, RequestType DEF luaVoteScript, At
  <2>2. PICK k \in Kind : Reply(c, Answer(k))
    BY <1>5 DEF luaVoteScript, Kind
  <2>3. keyVote' = keyVote \/ keyVote' = [keyVote EXCEPT ![p][u] = req[c].object]
    BY <1>5 DEF luaVoteScript
  <2>4. keyVote' \in [Polls -> [Users -> Objects \cup {NoVote}]]
    <3>1. keyVote[p] \in [Users -> Objects \cup {NoVote}]
      BY <2>1 DEF TypeOK
    <3>2. [keyVote[p] EXCEPT ![u] = req[c].object] \in [Users -> Objects \cup {NoVote}]
      BY <2>1, <3>1
    <3>3. [keyVote EXCEPT ![p] = [keyVote[p] EXCEPT ![u] = req[c].object]]
            \in [Polls -> [Users -> Objects \cup {NoVote}]]
      BY <2>1, <3>2 DEF TypeOK
    <3> QED
      BY <2>1, <2>3, <3>3 DEF TypeOK
  <2>5. Answer(k) \in AnswerSet
    BY <1>a
  <2>6. keyState' = keyState /\ keyPolls' = keyPolls
    BY <1>5 DEF luaVoteScript
  <2> QED
    BY <2>1, <2>2, <2>4, <2>5, <2>6, ReplyType DEF TypeOK
<1>6. ASSUME NEW c \in Clients, StopSet(c) PROVE TypeOK'
  <2>1. Answer("notExist") \in AnswerSet /\ pc[c] # "idle"
    BY <1>a, <1>6 DEF Kind, StopSet, At
  <2>2. CASE Reply(c, Answer("notExist")) /\ UNCHANGED keyState
    BY <1>6, <2>1, <2>2, ReplyType DEF TypeOK, StopSet
  <2>3. CASE keyState' = [keyState EXCEPT ![req[c].poll] = "2"] /\ Goto(c, "hgetall")
    BY <1>6, <2>1, <2>3, CallType DEF TypeOK, StopSet, Goto
  <2> QED
    BY <1>6, <2>2, <2>3 DEF StopSet
<1>7. ASSUME NEW c \in Clients, StopHgetall(c) PROVE TypeOK'
  <2>1. req[c].poll \in Polls /\ pc[c] # "idle"
    BY <1>7, RequestType DEF StopHgetall, At
  <2>2. StopAnswer(keyVote[req[c].poll]) \in AnswerSet
    BY <2>1, AnswerType DEF TypeOK
  <2> QED
    BY <1>7, <2>1, <2>2, ReplyType DEF TypeOK, StopHgetall, db
<1>8. ASSUME NEW c \in Clients, ClearDel(c) PROVE TypeOK'
  <2>1. /\ keyState' \in [Polls -> {"nil", "1", "2"}]
        /\ keyVote' \in [Polls -> [Users -> Objects \cup {NoVote}]]
    BY <1>8, <1>b DEF TypeOK, ClearDel
  <2> QED
    BY <1>8, <2>1, CallType DEF TypeOK, ClearDel, At, Goto
<1>9. ASSUME NEW c \in Clients, ClearSrem(c) PROVE TypeOK'
  <2>1. Answer("ok") \in AnswerSet
    BY <1>a DEF Kind
  <2> QED
    BY <1>9, <2>1, ReplyType DEF TypeOK, ClearSrem, At
<1>10. ASSUME NEW c \in Clients, luaClearAll(c) PROVE TypeOK'
  <2>1. Answer("ok") \in AnswerSet
    BY <1>a DEF Kind
  <2>2. /\ keyState' \in [Polls -> {"nil", "1", "2"}]
        /\ keyVote' \in [Polls -> [Users -> Objects \cup {NoVote}]]
        /\ keyPolls' \in SUBSET Polls
    BY <1>10, <1>b DEF TypeOK, luaClearAll
  <2> QED
    BY <1>10, <2>1, <2>2, ReplyType DEF TypeOK, luaClearAll, At
<1>11. CASE UNCHANGED vars
  BY <1>11 DEF TypeOK, vars
<1> QED
  BY <1>1, <1>2, <1>3, <1>4, <1>5, <1>6, <1>7, <1>8, <1>9, <1>10, <1>11
  DEF Next, Return, Fail

\* What one step may do to the keys of a poll: SETNX opens a poll without a
\* state, the script adds one vote to a started poll, SET XX stops a known one,
\* and DEL removes both keys at once.
KeyStep(p) ==
  \/ keyState'[p] = keyState[p] /\ keyVote'[p] = keyVote[p]
  \/ keyState[p] = "nil" /\ keyState'[p] = "1" /\ keyVote'[p] = keyVote[p]
  \/ /\ keyState[p] = "1" /\ keyState'[p] = "1"
     /\ \A w \in HasVoted(keyVote[p]) : keyVote'[p][w] = keyVote[p][w]
  \/ keyState[p] # "nil" /\ keyState'[p] = "2" /\ keyVote'[p] = keyVote[p]
  \/ keyState'[p] = "nil" /\ keyVote'[p] = NobodyVoted

LEMMA KeySteps == ASSUME TypeOK, [Next]_vars, NEW p \in Polls PROVE KeyStep(p)
<1>1. ASSUME NEW c \in Clients, StartSetnx(c) PROVE KeyStep(p)
  BY <1>1 DEF TypeOK, StartSetnx, KeyStep
<1>2. ASSUME NEW c \in Clients, luaVoteScript(c) PROVE KeyStep(p)
  <2>1. req[c].poll \in Polls /\ req[c].user \in Users
    BY <1>2, RequestType DEF luaVoteScript, At
  <2>2. CASE keyVote' = keyVote
    BY <1>2, <2>2 DEF luaVoteScript, KeyStep
  <2>3. CASE /\ keyState[req[c].poll] = "1"
             /\ keyVote[req[c].poll][req[c].user] = NoVote
             /\ keyVote' = [keyVote EXCEPT ![req[c].poll][req[c].user] = req[c].object]
    <3>1. \A w \in Users : w # req[c].user => keyVote'[p][w] = keyVote[p][w]
      BY <2>1, <2>3 DEF TypeOK
    <3>2. CASE p = req[c].poll
      BY <1>2, <2>3, <3>1, <3>2 DEF luaVoteScript, KeyStep, HasVoted
    <3>3. CASE p # req[c].poll
      BY <1>2, <2>1, <2>3, <3>3 DEF TypeOK, luaVoteScript, KeyStep
    <3> QED
      BY <3>2, <3>3
  <2> QED
    BY <1>2, <2>2, <2>3 DEF luaVoteScript
<1>3. ASSUME NEW c \in Clients, StopSet(c) PROVE KeyStep(p)
  BY <1>3 DEF TypeOK, StopSet, KeyStep
<1>4. ASSUME NEW c \in Clients, ClearDel(c) PROVE KeyStep(p)
  BY <1>4 DEF TypeOK, ClearDel, KeyStep
<1>5. ASSUME NEW c \in Clients, luaClearAll(c) PROVE KeyStep(p)
  BY <1>5 DEF luaClearAll, KeyStep
<1>6. CASE UNCHANGED <<keyState, keyVote>>
  BY <1>6 DEF KeyStep
<1> QED
  BY <1>1, <1>2, <1>3, <1>4, <1>5, <1>6
  DEF Next, vars, db, Invoke, Return, Fail, Finish, StartSadd, StopHgetall, ClearSrem

LEMMA InvStep == IInv /\ [Next]_vars => IInv'
<1> SUFFICES ASSUME IInv, [Next]_vars PROVE IInv'
  OBVIOUS
<1>1. TypeOK'
  BY TypeStep DEF IInv
<1>2. ASSUME NEW p \in Polls, keyState'[p] = "nil" PROVE HasVoted(keyVote'[p]) = {}
  <2>1. KeyStep(p)
    BY KeySteps DEF IInv
  <2>2. HasVoted(NobodyVoted) = {}
    BY DEF HasVoted, NobodyVoted
  <2> QED
    BY <1>2, <2>1, <2>2 DEF KeyStep, IInv, NoOrphanedVotes
<1> QED
  BY <1>1, <1>2 DEF IInv, NoOrphanedVotes

LEMMA Invariance == Spec => []IInv
  BY InitIInv, InvStep, PTL DEF Spec

\* No vote data stay without a state key, whatever calls overlap and wherever
\* they fail: Clear and luaClearAll delete both keys at once.
THEOREM NoVotesOrphaned == Spec => []NoOrphanedVotes
<1>1. IInv => NoOrphanedVotes
  BY DEF IInv
<1> QED
  BY <1>1, Invariance, PTL

\* Type correctness, which the two theorems below rest on.
THEOREM TypeCorrect == Spec => []TypeOK
<1>1. IInv => TypeOK
  BY DEF IInv
<1> QED
  BY <1>1, Invariance, PTL

\* An accepted vote is never overwritten or dropped alone: HSETNX in the script
\* checks and writes in one step.
THEOREM VotesStay == Spec => VotesOnlyCleared
<1>1. ASSUME TypeOK, [Next]_vars
      PROVE  [\A p \in Polls :
                \/ keyVote'[p] = NobodyVoted
                \/ \A u \in HasVoted(keyVote[p]) : keyVote'[p][u] = keyVote[p][u]]_vars
  <2>1. ASSUME NEW p \in Polls
        PROVE  \/ keyVote'[p] = NobodyVoted
               \/ \A u \in HasVoted(keyVote[p]) : keyVote'[p][u] = keyVote[p][u]
    BY <1>1, KeySteps DEF KeyStep
  <2> QED
    BY <2>1
<1> QED
  BY <1>1, TypeCorrect, PTL DEF Spec, VotesOnlyCleared

\* A stopped poll keeps its votes and its state until DEL removes both keys:
\* SETNX does not reopen it and the script rejects every vote.
THEOREM StoppedStays == Spec => StoppedIsFinal
<1>1. ASSUME TypeOK, [Next]_vars
      PROVE  [\A p \in Polls : keyState[p] = "2" =>
                \/ keyState'[p] = "2" /\ keyVote'[p] = keyVote[p]
                \/ keyState'[p] = "nil" /\ keyVote'[p] = NobodyVoted]_vars
  <2>1. ASSUME NEW p \in Polls, keyState[p] = "2"
        PROVE  \/ keyState'[p] = "2" /\ keyVote'[p] = keyVote[p]
               \/ keyState'[p] = "nil" /\ keyVote'[p] = NobodyVoted
    BY <1>1, <2>1, KeySteps DEF KeyStep
  <2> QED
    BY <2>1
<1> QED
  BY <1>1, TypeCorrect, PTL DEF Spec, StoppedIsFinal
-----------------------------------------------------------------------------
(***************************************************************************)
(* One manager at a time, and no Start cut off: the contract.  A manager   *)
(* call that has more commands to send finds its poll as its first command *)
(* left it, because only managers change states.  This makes vote_polls    *)
(* complete when luaClearAll reads it, and the votes that HGETALL reads    *)
(* those of the moment at which SET XX stopped the poll.                   *)
(***************************************************************************)
OneManager == \A c, d \in Managers : c = d
StartsComplete == "start" \notin MayFail

\* vote_polls lists the polls with a state key, apart from the one that a Start
\* is just opening.
KnownPollsListed ==
  \A p \in Polls : keyState[p] # "nil" =>
     \/ p \in keyPolls
     \/ \E c \in Clients : At(c, "start", "sadd") /\ req[c].poll = p

PendingOf(c) ==
  /\ pc[c] = "sadd" => req[c].op = "start" /\ keyState[req[c].poll] # "nil"
  /\ pc[c] = "hgetall" => req[c].op = "stop" /\ keyState[req[c].poll] = "2"
  /\ pc[c] = "srem" => req[c].op = "clear" /\ keyState[req[c].poll] = "nil"

RInv == IInv /\ KnownPollsListed /\ \A c \in Clients : PendingOf(c)

\* While a manager call is at work no other one is between two commands.
LEMMA OtherCalls ==
  ASSUME OneManager, RInv, NEW c \in Managers, NEW d \in Clients, c # d
  PROVE  pc[d] \notin {"sadd", "hgetall", "srem"}
<1> SUFFICES ASSUME pc[d] \in {"sadd", "hgetall", "srem"} PROVE FALSE
  OBVIOUS
<1>1. req[d].op \in {"start", "stop", "clear"}
  BY DEF RInv, PendingOf
<1>2. d \in Managers
  BY <1>1, RequestType DEF RInv, IInv
<1> QED
  BY <1>2 DEF OneManager

\* A step of c leaves the calls of the others alone.
LEMMA OthersUnchanged ==
  ASSUME TypeOK, NEW c \in Clients, NEW d \in Clients, c # d,
         \/ Invoke(c) \/ Return(c) \/ Fail(c)
         \/ StartSetnx(c) \/ StartSadd(c)
         \/ luaVoteScript(c)
         \/ StopSet(c) \/ StopHgetall(c)
         \/ ClearDel(c) \/ ClearSrem(c)
         \/ luaClearAll(c)
  PROVE  pc'[d] = pc[d] /\ req'[d] = req[d] /\ res'[d] = res[d]
  BY DEF TypeOK, Invoke, Return, Fail, Finish, StartSetnx, StartSadd, luaVoteScript, StopSet,
         StopHgetall, ClearDel, ClearSrem, luaClearAll, Goto, Reply

LEMMA PendingStep ==
  ASSUME OneManager, RInv, [Next]_vars, NEW d \in Clients
  PROVE  PendingOf(d)'
<1> USE DEF At
<1>t. TypeOK
  BY DEF RInv, IInv
<1>p. PendingOf(d)
  BY DEF RInv
<1>1. ASSUME NEW c \in Clients, c # d, UNCHANGED <<keyState, pc[d], req[d]>> PROVE PendingOf(d)'
  BY <1>1, <1>p DEF PendingOf
<1>2. ASSUME NEW c \in Clients, c \in Managers, c # d, pc'[d] = pc[d] PROVE PendingOf(d)'
  BY <1>2, OtherCalls DEF PendingOf
<1>3. ASSUME pc'[d] \in {"idle", "begin", "return"} PROVE PendingOf(d)'
  BY <1>3 DEF PendingOf
<1>4. ASSUME NEW c \in Clients, StartSetnx(c) PROVE PendingOf(d)'
  <2>1. c \in Managers /\ req[c].poll \in Polls
    BY <1>4, <1>t, RequestType DEF StartSetnx
  <2>2. CASE c = d
    BY <1>4, <1>t, <2>1, <2>2 DEF StartSetnx, Goto, PendingOf, TypeOK
  <2>3. CASE c # d
    BY <1>4, <1>t, <1>2, <2>1, <2>3, OthersUnchanged
  <2> QED
    BY <2>2, <2>3
<1>5. ASSUME NEW c \in Clients, StopSet(c) PROVE PendingOf(d)'
  <2>1. c \in Managers /\ req[c].poll \in Polls
    BY <1>5, <1>t, RequestType DEF StopSet
  <2>2. CASE c = d
    BY <1>5, <1>t, <2>1, <2>2 DEF StopSet, Goto, Reply, PendingOf, TypeOK
  <2>3. CASE c # d
    BY <1>5, <1>t, <1>2, <2>1, <2>3, OthersUnchanged
  <2> QED
    BY <2>2, <2>3
<1>6. ASSUME NEW c \in Clients, ClearDel(c) PROVE PendingOf(d)'
  <2>1. c \in Managers /\ req[c].poll \in Polls
    BY <1>6, <1>t, RequestType DEF ClearDel
  <2>2. CASE c = d
    BY <1>6, <1>t, <2>1, <2>2 DEF ClearDel, Goto, PendingOf, TypeOK
  <2>3. CASE c # d
    BY <1>6, <1>t, <1>2, <2>1, <2>3, OthersUnchanged
  <2> QED
    BY <2>2, <2>3
<1>7. ASSUME NEW c \in Clients, luaClearAll(c) PROVE PendingOf(d)'
  <2>1. c \in Managers
    BY <1>7, <1>t, RequestType DEF luaClearAll
  <2>2. CASE c = d
    BY <1>7, <1>t, <1>3, <2>2 DEF luaClearAll, Reply, TypeOK
  <2>3. CASE c # d
    BY <1>7, <1>t, <1>2, <2>1, <2>3, OthersUnchanged
  <2> QED
    BY <2>2, <2>3
<1>8. ASSUME NEW c \in Clients,
             \/ Invoke(c) \/ Return(c) \/ Fail(c) \/ StartSadd(c)
             \/ luaVoteScript(c) \/ StopHgetall(c) \/ ClearSrem(c)
      PROVE  PendingOf(d)'
  <2>1. CASE c = d
    <3>1. pc'[d] \in {"idle", "begin", "return"}
      BY <1>8, <1>t, <2>1
      DEF Invoke, Return, Fail, Finish, StartSadd, luaVoteScript, StopHgetall, ClearSrem,
          Reply, TypeOK
    <3> QED
      BY <3>1, <1>3
  <2>2. CASE c # d
    <3>1. keyState' = keyState
      BY <1>8
      DEF Invoke, Return, Fail, Finish, StartSadd, luaVoteScript, StopHgetall, ClearSrem, db
    <3> QED
      BY <1>8, <1>t, <1>1, <2>2, <3>1, OthersUnchanged
  <2> QED
    BY <2>1, <2>2
<1>9. CASE UNCHANGED vars
  BY <1>9, <1>p DEF vars, PendingOf
<1> QED
  BY <1>4, <1>5, <1>6, <1>7, <1>8, <1>9 DEF Next

LEMMA ListedStep ==
  ASSUME OneManager, StartsComplete, RInv, [Next]_vars
  PROVE  KnownPollsListed'
<1> SUFFICES ASSUME NEW p \in Polls, keyState'[p] # "nil"
             PROVE  \/ p \in keyPolls'
                    \/ \E c \in Clients : At(c, "start", "sadd")' /\ req'[c].poll = p
  BY DEF KnownPollsListed
<1> DEFINE Listed == \/ p \in keyPolls'
                     \/ \E c \in Clients : At(c, "start", "sadd")' /\ req'[c].poll = p
           Before == \/ p \in keyPolls
                     \/ \E c \in Clients : At(c, "start", "sadd") /\ req[c].poll = p
<1>t. TypeOK
  BY DEF RInv, IInv
<1>b. keyState[p] # "nil" => Before
  BY DEF RInv, KnownPollsListed
<1>1. ASSUME NEW c \in Clients, StartSetnx(c) PROVE Listed
  <2>1. c \in Managers /\ req[c].poll \in Polls
    BY <1>1, <1>t, RequestType DEF StartSetnx, At
  <2>2. CASE p = req[c].poll
    BY <1>1, <1>t, <2>2 DEF StartSetnx, Goto, At, TypeOK
  <2>3. CASE p # req[c].poll
    <3>1. keyState[p] # "nil"
      BY <1>1, <1>t, <2>1, <2>3 DEF StartSetnx, TypeOK
    <3>2. \A e \in Clients : ~At(e, "start", "sadd")
      BY <1>1, <2>1, OtherCalls DEF StartSetnx, At
    <3> QED
      BY <1>1, <1>b, <3>1, <3>2 DEF StartSetnx
  <2> QED
    BY <2>2, <2>3
<1>2. ASSUME NEW c \in Clients, StartSadd(c) PROVE Listed
  <2>1. keyState[p] # "nil"
    BY <1>2 DEF StartSadd
  <2>2. CASE p = req[c].poll
    BY <1>2, <2>2 DEF StartSadd
  <2>3. CASE p # req[c].poll /\ p \notin keyPolls
    <3>1. PICK e \in Clients : At(e, "start", "sadd") /\ req[e].poll = p
      BY <1>b, <2>1, <2>3
    <3> QED
      BY <1>2, <1>t, <2>3, <3>1, OthersUnchanged DEF At
  <2> QED
    BY <1>2, <2>2, <2>3 DEF StartSadd
<1>3. ASSUME NEW c \in Clients, ~At(c, "start", "sadd"),
             keyPolls' = keyPolls, keyState[p] # "nil",
             \/ Invoke(c) \/ Return(c) \/ Fail(c) \/ luaVoteScript(c)
             \/ StopSet(c) \/ StopHgetall(c) \/ ClearDel(c)
      PROVE  Listed
  <2>1. CASE p \in keyPolls
    BY <1>3, <2>1
  <2>2. CASE p \notin keyPolls
    <3>1. PICK e \in Clients : At(e, "start", "sadd") /\ req[e].poll = p
      BY <1>b, <1>3, <2>2
    <3>2. e # c
      BY <1>3, <3>1
    <3> QED
      BY <1>3, <1>t, <3>1, <3>2, OthersUnchanged DEF At
  <2> QED
    BY <2>1, <2>2
<1>4. ASSUME NEW c \in Clients, Invoke(c) PROVE Listed
  BY <1>3, <1>4 DEF Invoke, At, db
<1>5. ASSUME NEW c \in Clients, Return(c) \/ Fail(c) PROVE Listed
  BY <1>3, <1>5 DEF Return, Fail, Finish, At, db, StartsComplete
<1>6. ASSUME NEW c \in Clients, luaVoteScript(c) PROVE Listed
  BY <1>3, <1>6 DEF luaVoteScript, At
<1>7. ASSUME NEW c \in Clients, StopSet(c) PROVE Listed
  <2>1. keyState[p] # "nil"
    BY <1>7, <1>t DEF StopSet, TypeOK
  <2> QED
    BY <1>3, <1>7, <2>1 DEF StopSet, At
<1>8. ASSUME NEW c \in Clients, StopHgetall(c) PROVE Listed
  BY <1>3, <1>8 DEF StopHgetall, At, db
<1>9. ASSUME NEW c \in Clients, ClearDel(c) PROVE Listed
  <2>1. keyState[p] # "nil"
    BY <1>9, <1>t DEF ClearDel, TypeOK
  <2> QED
    BY <1>3, <1>9, <2>1 DEF ClearDel, At
<1>10. ASSUME NEW c \in Clients, ClearSrem(c) PROVE Listed
  <2>1. c \in Managers
    BY <1>10, <1>t, RequestType DEF ClearSrem, At
  <2>2. keyState[p] # "nil" /\ p # req[c].poll
    BY <1>10 DEF ClearSrem, RInv, PendingOf, At
  <2>3. \A e \in Clients : ~At(e, "start", "sadd")
    BY <1>10, <2>1, OtherCalls DEF ClearSrem, At
  <2> QED
    BY <1>10, <1>b, <2>2, <2>3 DEF ClearSrem
<1>11. ASSUME NEW c \in Clients, luaClearAll(c) PROVE Listed
  <2>1. c \in Managers
    BY <1>11, <1>t, RequestType DEF luaClearAll, At
  <2>2. keyState[p] # "nil" /\ p \notin keyPolls
    BY <1>11 DEF luaClearAll
  <2>3. \A e \in Clients : ~At(e, "start", "sadd")
    BY <1>11, <2>1, OtherCalls DEF luaClearAll, At
  <2> QED
    BY <1>b, <2>2, <2>3
<1>12. CASE UNCHANGED vars
  BY <1>12, <1>b DEF vars, At
<1> QED
  BY <1>1, <1>2, <1>4, <1>5, <1>6, <1>7, <1>8, <1>9, <1>10, <1>11, <1>12 DEF Next

LEMMA RInvStep ==
  ASSUME OneManager, StartsComplete, RInv, [Next]_vars
  PROVE  RInv'
<1>1. IInv'
  BY InvStep DEF RInv
<1> QED
  BY <1>1, PendingStep, ListedStep DEF RInv

LEMMA InitRInv == Init => RInv
  BY InitIInv DEF Init, RInv, KnownPollsListed, PendingOf

\* How far a call has come, in the terms of the contract.
LEMMA PcStep ==
  ASSUME TypeOK, NEW c \in Clients, NEW l, pc' = [pc EXCEPT ![c] = l]
  PROVE  contractPc' = [contractPc EXCEPT ![c] = CASE l = "idle" -> "idle"
                                                   [] l = "begin" -> "pending"
                                                   [] OTHER -> "applied"]
  BY DEF TypeOK, contractPc

\* The answer of a call does not change by the steps of the others.
LEMMA ResKept ==
  ASSUME RInv, RInv', [Next]_vars, NEW d \in Clients,
         pc'[d] = pc[d], req'[d] = req[d], res'[d] = res[d]
  PROVE  contractRes'[d] = contractRes[d]
<1>1. CASE pc[d] = "hgetall"
  <2>1. req[d].poll \in Polls
    BY <1>1, RequestType DEF RInv, IInv, PendingOf
  <2>2. keyState[req[d].poll] = "2" /\ keyState'[req[d].poll] = "2"
    BY <1>1 DEF RInv, PendingOf
  <2>3. keyVote'[req[d].poll] = keyVote[req[d].poll]
    BY <2>1, <2>2, KeySteps DEF KeyStep, RInv, IInv
  <2> QED
    BY <1>1, <2>3 DEF contractRes
<1>2. CASE pc[d] # "hgetall"
  BY <1>2 DEF contractRes
<1> QED
  BY <1>1, <1>2

LEMMA ResStep ==
  ASSUME RInv, RInv', [Next]_vars, NEW c \in Clients,
         \A d \in Clients \ {c} : pc'[d] = pc[d] /\ req'[d] = req[d] /\ res'[d] = res[d]
  PROVE  contractRes' = [contractRes EXCEPT ![c] = contractRes'[c]]
<1>1. \A d \in Clients \ {c} : contractRes'[d] = contractRes[d]
  BY ResKept
<1>2. /\ contractRes = [d \in Clients |-> contractRes[d]]
      /\ contractRes' = [d \in Clients |-> contractRes'[d]]
  BY DEF contractRes
<1> HIDE DEF contractRes
<1> QED
  BY <1>1, <1>2

LEMMA InitImplements == Init => Contract!Init
  BY DEF Init, Contract!Init, contractState, contractPc, contractRes,
         Contract!NobodyVoted, NobodyVoted, Contract!Clients, Clients, Contract!NoRequest,
         NoRequest, Contract!Answer, Answer

\* The vocabulary of the contract is that of the backend.
LEMMA SameVocabulary ==
  /\ Contract!Clients = Clients
  /\ Contract!NoRequest = NoRequest
  /\ Contract!NobodyVoted = NobodyVoted
  /\ \A c \in Clients : Contract!RequestsOf(c) = RequestsOf(c)
  /\ \A k : Contract!Answer(k) = Answer(k)
  /\ \A b : Contract!StopAnswer(b) = StopAnswer(b)
  BY DEF Contract!Clients, Clients, Contract!NoRequest, NoRequest, Contract!NobodyVoted,
         NobodyVoted, Contract!RequestsOf, RequestsOf, Contract!VoteRequest, VoteRequest,
         Contract!PollRequest, PollRequest, Contract!ClearAllRequest, ClearAllRequest,
         Contract!Answer, Answer, Contract!StopAnswer, StopAnswer, Contract!HasVoted, HasVoted

\* A step of c by which its call takes effect with the answer a.
LEMMA Effect ==
  ASSUME RInv, RInv', [Next]_vars, NEW c \in Clients, NEW a, NEW op,
         At(c, op, "begin"), req' = req,
         NEW l \in {"sadd", "hgetall", "srem", "return"}, pc' = [pc EXCEPT ![c] = l],
         \A d \in Clients \ {c} : res'[d] = res[d],
         contractRes'[c] = a
  PROVE  Contract!TakesEffect(c, op, a)
<1>1. contractPc[c] = "pending"
  BY DEF contractPc, At
<1>2. contractPc' = [contractPc EXCEPT ![c] = "applied"]
  BY PcStep DEF RInv, IInv
<1>3. \A d \in Clients \ {c} : pc'[d] = pc[d] /\ req'[d] = req[d] /\ res'[d] = res[d]
  BY DEF RInv, IInv, TypeOK
<1>4. contractRes' = [contractRes EXCEPT ![c] = a]
  BY <1>3, ResStep
<1> QED
  BY <1>1, <1>2, <1>4 DEF Contract!TakesEffect, At

LEMMA StepImplements ==
  ASSUME OneManager, StartsComplete, RInv, [Next]_vars
  PROVE  [Contract!Next]_(Contract!vars)
<1>r. RInv'
  BY RInvStep
<1>t. TypeOK /\ TypeOK'
  BY <1>r DEF RInv, IInv
<1>1. ASSUME NEW c \in Clients, Invoke(c) PROVE Contract!Invoke(c)
  <2>1. contractPc[c] = "idle" /\ contractPc' = [contractPc EXCEPT ![c] = "pending"]
    BY <1>1, <1>t, PcStep DEF Invoke, contractPc
  <2>2. contractState' = contractState /\ keyVote' = keyVote
    BY <1>1 DEF Invoke, db, contractState
  <2>3. \A d \in Clients : contractRes'[d] = contractRes[d]
    <3>1. contractRes'[c] = contractRes[c]
      BY <1>1, <1>t DEF Invoke, contractRes, TypeOK
    <3>2. ASSUME NEW d \in Clients \ {c} PROVE contractRes'[d] = contractRes[d]
      BY <1>1, <1>t, <1>r, ResKept, OthersUnchanged
    <3> QED
      BY <3>1, <3>2
  <2>4. contractRes' = contractRes
    BY <2>3 DEF contractRes
  <2> QED
    BY <1>1, <2>1, <2>2, <2>4, SameVocabulary DEF Invoke, Contract!Invoke
<1>2. ASSUME NEW c \in Clients, Finish(c), Return(c) \/ Fail(c) PROVE Contract!Finish(c)
  <2>1. contractPc' = [contractPc EXCEPT ![c] = "idle"]
    BY <1>2, <1>t, PcStep DEF Finish
  <2>2. contractState' = contractState /\ keyVote' = keyVote
    BY <1>2 DEF Finish, db, contractState
  <2>3. contractRes'[c] = Answer("none")
    BY <1>2, <1>t DEF Finish, contractRes, TypeOK
  <2>4. \A d \in Clients \ {c} : pc'[d] = pc[d] /\ req'[d] = req[d] /\ res'[d] = res[d]
    BY <1>2, <1>t, OthersUnchanged
  <2>5. contractRes' = [contractRes EXCEPT ![c] = Answer("none")]
    BY <1>r, <2>3, <2>4, ResStep
  <2> QED
    BY <1>2, <2>1, <2>2, <2>5, SameVocabulary DEF Finish, Contract!Finish
<1>3. ASSUME NEW c \in Clients, Return(c) PROVE Contract!Return(c)
  <2>1. Finish(c) /\ contractPc[c] = "applied"
    BY <1>3 DEF Return, contractPc
  <2> QED
    BY <1>2, <1>3, <2>1 DEF Contract!Return
<1>4. ASSUME NEW c \in Clients, Fail(c) PROVE Contract!Fail(c)
  <2>1. Finish(c) /\ contractPc[c] # "idle"
    BY <1>4 DEF Fail, contractPc
  <2> QED
    BY <1>2, <1>4, <2>1 DEF Contract!Fail
<1>5. ASSUME NEW c \in Clients, StartSetnx(c) PROVE Contract!Start(c)
  <2>1. contractRes'[c] = Answer("ok")
    BY <1>5, <1>t DEF StartSetnx, Goto, contractRes, TypeOK
  <2>2. Contract!TakesEffect(c, "start", Answer("ok"))
    BY <1>5, <1>r, <2>1, Effect DEF StartSetnx, Goto
  <2>3. contractState' = [contractState EXCEPT ![req[c].poll] =
                            IF @ = "stopped" THEN @ ELSE "started"]
    <3>1. /\ req[c].poll \in Polls
          /\ keyState' = [keyState EXCEPT ![req[c].poll] = IF @ = "nil" THEN "1" ELSE @]
      BY <1>5, <1>t, RequestType DEF StartSetnx, At
    <3>2. CASE keyState[req[c].poll] = "nil"
      BY <1>t, <3>1, <3>2 DEF contractState, TypeOK
    <3>3. CASE keyState[req[c].poll] # "nil"
      <4>1. keyState' = keyState
        BY <1>t, <3>1, <3>3 DEF TypeOK
      <4>2. contractState[req[c].poll] \in {"started", "stopped"}
        BY <1>t, <3>1, <3>3 DEF contractState, TypeOK
      <4>3. contractState' = contractState
        BY <4>1 DEF contractState
      <4>4. contractState \in [Polls -> {"unknown", "started", "stopped"}]
        BY <1>t DEF contractState, TypeOK
      <4> QED
        BY <4>2, <4>3, <4>4
    <3> QED
      BY <3>2, <3>3
  <2> QED
    BY <1>5, <2>2, <2>3, SameVocabulary DEF StartSetnx, Contract!Start
<1>6. ASSUME NEW c \in Clients, luaVoteScript(c) PROVE Contract!Vote(c)
  <2> DEFINE p == req[c].poll
             u == req[c].user
  <2>1. p \in Polls /\ u \in Users
    BY <1>6, <1>t, RequestType DEF luaVoteScript, At
  <2>2. contractState' = contractState
    BY <1>6 DEF luaVoteScript, contractState
  <2>3. ASSUME NEW k, Reply(c, Answer(k)) PROVE Contract!TakesEffect(c, "vote", Answer(k))
    <3>1. contractRes'[c] = Answer(k) /\ \A d \in Clients \ {c} : res'[d] = res[d]
      BY <2>3, <1>t DEF Reply, contractRes, TypeOK
    <3> QED
      BY <1>6, <1>r, <2>3, <3>1, Effect DEF luaVoteScript, Reply
  <2>4. CASE keyState[p] = "nil" /\ Reply(c, Answer("notExist")) /\ UNCHANGED keyVote
    <3>1. Contract!VoteAnswer(p, u) = Answer("notExist")
      BY <2>1, <2>4, SameVocabulary DEF Contract!VoteAnswer, contractState
    <3> QED
      BY <2>2, <2>3, <2>4, <3>1 DEF Contract!Vote, Answer
  <2>5. CASE keyState[p] = "2" /\ Reply(c, Answer("stopped")) /\ UNCHANGED keyVote
    <3>1. Contract!VoteAnswer(p, u) = Answer("stopped")
      BY <2>1, <2>5, SameVocabulary DEF Contract!VoteAnswer, contractState
    <3> QED
      BY <2>2, <2>3, <2>5, <3>1 DEF Contract!Vote, Answer
  <2>6. CASE /\ keyState[p] = "1" /\ keyVote[p][u] # NoVote
             /\ Reply(c, Answer("doubleVote")) /\ UNCHANGED keyVote
    <3>1. Contract!VoteAnswer(p, u) = Answer("doubleVote")
      BY <2>1, <2>6, SameVocabulary DEF Contract!VoteAnswer, contractState
    <3> QED
      BY <2>2, <2>3, <2>6, <3>1 DEF Contract!Vote, Answer
  <2>7. CASE /\ keyState[p] = "1" /\ keyVote[p][u] = NoVote
             /\ Reply(c, Answer("ok"))
             /\ keyVote' = [keyVote EXCEPT ![p][u] = req[c].object]
    <3>1. Contract!VoteAnswer(p, u) = Answer("ok")
      BY <2>1, <2>7, SameVocabulary DEF Contract!VoteAnswer, contractState
    <3> QED
      BY <2>2, <2>3, <2>7, <3>1 DEF Contract!Vote, Answer
  <2> QED
    BY <1>6, <2>4, <2>5, <2>6, <2>7 DEF luaVoteScript
<1>7. ASSUME NEW c \in Clients, StopSet(c) PROVE Contract!Stop(c)
  <2> DEFINE p == req[c].poll
  <2>1. p \in Polls
    BY <1>7, <1>t, RequestType DEF StopSet, At
  <2>2. CASE keyState[p] = "nil"
    <3>0. keyState' = keyState
      BY <1>7, <2>2 DEF StopSet
    <3>1. contractState[p] = "unknown" /\ contractState' = contractState
      BY <2>1, <2>2, <3>0 DEF contractState
    <3>2. Reply(c, Answer("notExist"))
      BY <1>7, <2>2 DEF StopSet
    <3>3. contractRes'[c] = Answer("notExist") /\ \A d \in Clients \ {c} : res'[d] = res[d]
      BY <3>2, <1>t DEF Reply, contractRes, TypeOK
    <3>4. Contract!TakesEffect(c, "stop", Answer("notExist"))
      BY <1>7, <1>r, <3>2, <3>3, Effect DEF StopSet, Reply
    <3> QED
      BY <1>7, <3>1, <3>4, SameVocabulary DEF StopSet, Contract!Stop
  <2>3. CASE keyState[p] # "nil"
    <3>1. contractState[p] # "unknown"
      BY <1>t, <2>1, <2>3 DEF contractState, TypeOK
    <3>2. Goto(c, "hgetall") /\ keyState' = [keyState EXCEPT ![p] = "2"] /\ keyVote' = keyVote
      BY <1>7, <2>3 DEF StopSet
    <3>3. contractState' = [contractState EXCEPT ![p] = "stopped"]
      BY <1>t, <2>1, <3>2 DEF contractState, TypeOK
    <3>4. contractRes'[c] = StopAnswer(keyVote[p])
      BY <1>t, <3>2 DEF Goto, contractRes, TypeOK
    <3>5. Contract!TakesEffect(c, "stop", StopAnswer(keyVote[p]))
      BY <1>7, <1>r, <3>2, <3>4, Effect DEF StopSet, Goto
    <3> QED
      BY <3>1, <3>2, <3>3, <3>5, SameVocabulary DEF Contract!Stop
  <2> QED
    BY <2>2, <2>3
<1>8. ASSUME NEW c \in Clients, ClearDel(c) PROVE Contract!Clear(c)
  <2>1. contractRes'[c] = Answer("ok")
    BY <1>8, <1>t DEF ClearDel, Goto, contractRes, TypeOK
  <2>2. Contract!TakesEffect(c, "clear", Answer("ok"))
    BY <1>8, <1>r, <2>1, Effect DEF ClearDel, Goto
  <2>3. contractState' = [contractState EXCEPT ![req[c].poll] = "unknown"]
    BY <1>8, <1>t DEF ClearDel, contractState, TypeOK
  <2> QED
    BY <1>8, <2>2, <2>3, SameVocabulary DEF ClearDel, Contract!Clear
<1>9. ASSUME NEW c \in Clients, luaClearAll(c) PROVE Contract!ClearAll(c)
  <2>1. Reply(c, Answer("ok")) /\ c \in Managers /\ At(c, "clearAll", "begin")
    BY <1>9, <1>t, RequestType DEF luaClearAll, At
  <2>2. contractRes'[c] = Answer("ok") /\ \A d \in Clients \ {c} : res'[d] = res[d]
    BY <2>1, <1>t DEF Reply, contractRes, TypeOK
  <2>3. Contract!TakesEffect(c, "clearAll", Answer("ok"))
    BY <1>r, <2>1, <2>2, Effect DEF Reply
  <2>4. ASSUME NEW p \in Polls PROVE keyState'[p] = "nil" /\ keyVote'[p] = NobodyVoted
    <3>1. \A e \in Clients : ~At(e, "start", "sadd")
      BY <2>1, OtherCalls DEF At
    <3>2. p \notin keyPolls => keyState[p] = "nil"
      BY <3>1 DEF RInv, KnownPollsListed
    <3>3. p \notin keyPolls => keyVote[p] = NobodyVoted
      <4>1. p \notin keyPolls => \A u \in Users : keyVote[p][u] = NoVote
        BY <3>2 DEF RInv, IInv, NoOrphanedVotes, HasVoted
      <4> QED
        BY <1>t, <4>1 DEF TypeOK, NobodyVoted
    <3> QED
      BY <1>9, <3>2, <3>3 DEF luaClearAll
  <2>5. contractState' = [p \in Polls |-> "unknown"]
    BY <2>4 DEF contractState
  <2>6. keyVote' = [p \in Polls |-> NobodyVoted]
    BY <1>t, <2>4 DEF TypeOK
  <2> QED
    BY <2>3, <2>5, <2>6, SameVocabulary DEF Contract!ClearAll
<1>10. ASSUME NEW c \in Clients, StartSadd(c) \/ StopHgetall(c) \/ ClearSrem(c)
       PROVE  UNCHANGED Contract!vars
  <2>1. keyState' = keyState /\ keyVote' = keyVote /\ req' = req
    BY <1>10 DEF StartSadd, StopHgetall, ClearSrem, Reply, db
  <2>2. contractState' = contractState
    BY <2>1 DEF contractState
  <2>3. pc' = [pc EXCEPT ![c] = "return"] /\ pc[c] \in {"sadd", "hgetall", "srem"}
    BY <1>10 DEF StartSadd, StopHgetall, ClearSrem, Reply, At
  <2>4. \A d \in Clients : contractPc'[d] = contractPc[d]
    BY <1>t, <2>3 DEF contractPc, TypeOK
  <2>5. contractPc' = contractPc
    BY <2>4 DEF contractPc
  <2>6. contractRes'[c] = contractRes[c]
    BY <1>10, <1>t DEF StartSadd, StopHgetall, ClearSrem, Reply, At, contractRes, TypeOK
  <2>7. \A d \in Clients : contractRes'[d] = contractRes[d]
    BY <1>10, <1>t, <1>r, <2>6, ResKept, OthersUnchanged
  <2>8. contractRes' = contractRes
    BY <2>7 DEF contractRes
  <2> QED
    BY <2>1, <2>2, <2>5, <2>8 DEF Contract!vars
<1>11. CASE UNCHANGED vars
  <2>1. contractState' = contractState /\ contractPc' = contractPc /\ contractRes' = contractRes
    BY <1>11 DEF vars, contractState, contractPc, contractRes
  <2> QED
    BY <1>11, <2>1 DEF vars, Contract!vars
<1> QED
  BY <1>1, <1>3, <1>4, <1>5, <1>6, <1>7, <1>8, <1>9, <1>10, <1>11, SameVocabulary
  DEF Next, Contract!Next

\* The redis backend keeps the contract of vote.Backend, for every number of
\* polls, users and concurrent votes: the first command of a method that writes
\* is the instant at which the method takes effect.
THEOREM RedisImplements ==
  ASSUME OneManager, StartsComplete
  PROVE  Spec => ImplementsBackend
<1>1. Init => RInv
  BY InitRInv
<1>2. RInv /\ [Next]_vars => RInv'
  BY RInvStep
<1>3. RInv /\ [Next]_vars => [Contract!Next]_(Contract!vars)
  BY StepImplements
<1> QED
  BY <1>1, <1>2, <1>3, InitImplements, PTL DEF Spec, ImplementsBackend, Contract!Spec
=============================================================================
