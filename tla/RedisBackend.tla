---------------------------- MODULE RedisBackend ----------------------------
(***************************************************************************)
(* The redis backend (backend/redis/redis.go), the fast backend of a       *)
(* service that runs in several instances.  A redis command and a Lua      *)
(* script are atomic; a method that sends two commands is two steps, and   *)
(* the steps of the methods running at the same time interleave.           *)
(***************************************************************************)
EXTENDS BackendInterface

CONSTANT MayFail  \* the operations one of whose commands may return an error

ASSUME MayFailAssumption == MayFail \subseteq Op

VARIABLES
  keyState,  \* vote_state_X: "nil", "1" (started) or "2" (stopped)
  keyVote,   \* vote_data_X: the hash from user id to vote object
  keyPolls,  \* vote_polls: the set of known polls
  pc,        \* pc[c]: the next command of the method c runs
  req,
  res

db == <<keyState, keyVote, keyPolls>>
vars == <<keyState, keyVote, keyPolls, pc, req, res>>

Init ==
  /\ keyState = [p \in Polls |-> "nil"]
  /\ keyVote = [p \in Polls |-> NobodyVoted]
  /\ keyPolls = {}
  /\ pc = [c \in Clients |-> "idle"]
  /\ req = [c \in Clients |-> NoRequest]
  /\ res = [c \in Clients |-> Answer("none")]

Invoke(c) ==
  /\ pc[c] = "idle"
  /\ \E r \in RequestsOf(c) : req' = [req EXCEPT ![c] = r]
  /\ pc' = [pc EXCEPT ![c] = "begin"]
  /\ UNCHANGED <<db, res>>

At(c, op, label) == pc[c] = label /\ req[c].op = op

Goto(c, label) == pc' = [pc EXCEPT ![c] = label] /\ UNCHANGED <<req, res>>

\* The method of c has its answer; returning it is a step of its own.
Reply(c, a) ==
  /\ pc' = [pc EXCEPT ![c] = "return"]
  /\ res' = [res EXCEPT ![c] = a]
  /\ UNCHANGED req
-----------------------------------------------------------------------------
\* Mutant: SET instead of SETNX.
StartSet(c) ==
  /\ At(c, "start", "begin")
  /\ keyState' = [keyState EXCEPT ![req[c].poll] = "1"]
  /\ Goto(c, "sadd")
  /\ UNCHANGED <<keyVote, keyPolls>>

\* Mutant: the state of a new poll is 0.
StartSetnxZero(c) ==
  /\ At(c, "start", "begin")
  /\ keyState' = [keyState EXCEPT ![req[c].poll] = IF @ = "nil" THEN "0" ELSE @]
  /\ Goto(c, "sadd")
  /\ UNCHANGED <<keyVote, keyPolls>>

StartSetnx(c) ==
  LET p == req[c].poll IN
  /\ At(c, "start", "begin")
  /\ keyState' = [keyState EXCEPT ![p] = IF @ = "nil" THEN "1" ELSE @]
  /\ Goto(c, "sadd")
  /\ UNCHANGED <<keyVote, keyPolls>>

StartSadd(c) ==
  /\ At(c, "start", "sadd")
  /\ keyPolls' = keyPolls \cup {req[c].poll}
  /\ Reply(c, Answer("ok"))
  /\ UNCHANGED <<keyState, keyVote>>

\* Mutant: the script does not look at the state "2".
luaVoteScriptUnstopped(c) ==
  LET p == req[c].poll
      accepted == keyState[p] # "nil" /\ keyVote[p][req[c].user] = NoVote
  IN
  /\ At(c, "vote", "begin")
  /\ Reply(c, Answer(IF accepted THEN "ok" ELSE "notExist"))
  /\ keyVote' = [keyVote EXCEPT ![p][req[c].user] = IF accepted THEN req[c].object ELSE @]
  /\ UNCHANGED <<keyState, keyPolls>>

\* Mutant: HSET instead of HSETNX.
luaVoteScriptHset(c) ==
  LET p == req[c].poll IN
  /\ At(c, "vote", "begin")
  /\ keyState[p] = "1"
  /\ Reply(c, Answer("ok"))
  /\ keyVote' = [keyVote EXCEPT ![p][req[c].user] = req[c].object]
  /\ UNCHANGED <<keyState, keyPolls>>

\* luaVoteScript: the checks and HSETNX are one atomic step.
luaVoteScript(c) ==
  LET p == req[c].poll
      u == req[c].user
  IN
  /\ At(c, "vote", "begin")
  /\ \/ /\ keyState[p] = "nil"
        /\ Reply(c, Answer("notExist"))
        /\ UNCHANGED keyVote
     \/ /\ keyState[p] = "2"
        /\ Reply(c, Answer("stopped"))
        /\ UNCHANGED keyVote
     \/ /\ keyState[p] = "1"
        /\ keyVote[p][u] # NoVote
        /\ Reply(c, Answer("doubleVote"))
        /\ UNCHANGED keyVote
     \/ /\ keyState[p] = "1"
        /\ keyVote[p][u] = NoVote
        /\ Reply(c, Answer("ok"))
        /\ keyVote' = [keyVote EXCEPT ![p][u] = req[c].object]
  /\ UNCHANGED <<keyState, keyPolls>>

\* SET XX writes only an existing key.
StopSet(c) ==
  LET p == req[c].poll IN
  /\ At(c, "stop", "begin")
  /\ \/ /\ keyState[p] = "nil"
        /\ Reply(c, Answer("notExist"))
        /\ UNCHANGED keyState
     \/ /\ keyState[p] # "nil"
        /\ keyState' = [keyState EXCEPT ![p] = "2"]
        /\ Goto(c, "hgetall")
  /\ UNCHANGED <<keyVote, keyPolls>>

StopHgetall(c) ==
  /\ At(c, "stop", "hgetall")
  /\ Reply(c, StopAnswer(keyVote[req[c].poll]))
  /\ UNCHANGED db

\* Mutant: DEL of the state key alone.
ClearDelState(c) ==
  /\ At(c, "clear", "begin")
  /\ keyState' = [keyState EXCEPT ![req[c].poll] = "nil"]
  /\ Goto(c, "srem")
  /\ UNCHANGED <<keyVote, keyPolls>>

ClearDel(c) ==
  LET p == req[c].poll IN
  /\ At(c, "clear", "begin")
  /\ keyVote' = [keyVote EXCEPT ![p] = NobodyVoted]
  /\ keyState' = [keyState EXCEPT ![p] = "nil"]
  /\ Goto(c, "srem")
  /\ UNCHANGED keyPolls

ClearSrem(c) ==
  /\ At(c, "clear", "srem")
  /\ keyPolls' = keyPolls \ {req[c].poll}
  /\ Reply(c, Answer("ok"))
  /\ UNCHANGED <<keyState, keyVote>>

\* luaClearAll finds the polls to delete in vote_polls.
luaClearAll(c) ==
  /\ At(c, "clearAll", "begin")
  /\ keyState' = [p \in Polls |-> IF p \in keyPolls THEN "nil" ELSE keyState[p]]
  /\ keyVote' = [p \in Polls |-> IF p \in keyPolls THEN NobodyVoted ELSE keyVote[p]]
  /\ keyPolls' = {}
  /\ Reply(c, Answer("ok"))

\* The call is over and its caller has the answer or the error.
Finish(c) ==
  /\ pc' = [pc EXCEPT ![c] = "idle"]
  /\ req' = [req EXCEPT ![c] = NoRequest]
  /\ res' = [res EXCEPT ![c] = Answer("none")]
  /\ UNCHANGED db

Return(c) ==
  /\ pc[c] = "return"
  /\ Finish(c)

\* conn.Do returns an error, or the instance serving the call goes down: what
\* was written stays, the rest of the method is not executed.
Fail(c) ==
  /\ pc[c] # "idle"
  /\ req[c].op \in MayFail
  /\ Finish(c)

Next ==
  \E c \in Clients :
    \/ Invoke(c) \/ Return(c) \/ Fail(c)
    \/ StartSetnx(c) \/ StartSadd(c)
    \/ luaVoteScript(c)
    \/ StopSet(c) \/ StopHgetall(c)
    \/ ClearDel(c) \/ ClearSrem(c)
    \/ luaClearAll(c)

Spec == Init /\ [][Next]_vars
-----------------------------------------------------------------------------
(***************************************************************************)
(* Invariants and the refinement mapping.                                  *)
(***************************************************************************)
TypeOK ==
  /\ keyState \in [Polls -> {"nil", "1", "2"}]
  /\ keyVote \in [Polls -> [Users -> Objects \cup {NoVote}]]
  /\ keyPolls \in SUBSET Polls
  /\ pc \in [Clients -> {"idle", "begin", "sadd", "hgetall", "srem", "return"}]
  /\ req \in [Clients -> VoteRequest \cup PollRequest \cup ClearAllRequest \cup {NoRequest}]
  /\ \A c \in Clients : req[c] \in IF pc[c] = "idle" THEN {NoRequest} ELSE RequestsOf(c)
  /\ res \in [Clients -> AnswerSet]

\* The write that decides the outcome of a call is its first one, so a method
\* that still has a command to send has already taken effect.
contractPc ==
  [c \in Clients |-> CASE pc[c] = "idle" -> "idle"
                       [] pc[c] = "begin" -> "pending"
                       [] OTHER -> "applied"]

contractRes ==
  [c \in Clients |-> CASE pc[c] \in {"sadd", "srem"} -> Answer("ok")
                       [] pc[c] = "hgetall" -> StopAnswer(keyVote[req[c].poll])
                       [] OTHER -> res[c]]

contractState ==
  [p \in Polls |-> CASE keyState[p] = "nil" -> "unknown"
                     [] keyState[p] = "1" -> "started"
                     [] keyState[p] = "2" -> "stopped"]

Contract == INSTANCE Backend WITH
  state <- contractState, votes <- keyVote, pc <- contractPc, res <- contractRes

\* The redis backend does what vote.Backend promises: every method takes
\* effect at one instant, whatever the interleaving of its commands with those
\* of other calls.
ImplementsBackend == Contract!Spec

\* An accepted vote is never changed or dropped one by one: HSETNX never
\* overwrites, and only clearing the whole poll removes votes.
VotesOnlyCleared ==
  [][\A p \in Polls :
       \/ keyVote'[p] = NobodyVoted
       \/ \A u \in HasVoted(keyVote[p]) : keyVote'[p][u] = keyVote[p][u]]_vars

\* After Stop has marked the poll, its votes stay as they are and the poll
\* cannot be opened again, until it is cleared as a whole.
StoppedIsFinal ==
  [][\A p \in Polls : keyState[p] = "2" =>
       \/ keyState'[p] = "2" /\ keyVote'[p] = keyVote[p]
       \/ keyState'[p] = "nil" /\ keyVote'[p] = NobodyVoted]_vars

\* No vote data without a state key: such data would be counted in when the
\* poll is started the next time.
NoOrphanedVotes ==
  \A p \in Polls : keyState[p] = "nil" => HasVoted(keyVote[p]) = {}

\* ClearAll leaves no poll behind, apart from one that a Start is just opening.
ClearAllRemovesAll ==
  [][\A c \in Clients : At(c, "clearAll", "begin") /\ pc'[c] = "return" =>
       \A p \in Polls :
         \/ keyState'[p] = "nil"
         \/ \E d \in Clients : At(d, "start", "sadd") /\ req[d].poll = p]_vars
=============================================================================
