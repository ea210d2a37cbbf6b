------------------------------ MODULE Backend ------------------------------
(***************************************************************************)
(* The contract of the vote.Backend interface (vote/vote.go): a store of   *)
(* polls that concurrent callers use through Start, Vote, Stop, Clear and  *)
(* ClearAll.  Every call takes effect at one instant between its           *)
(* invocation and its return.  A call that returns an error may or may not *)
(* have taken effect.                                                      *)
(*                                                                         *)
(* The effects are those of the memory backend, whose methods hold the     *)
(* mutex for their whole body and therefore are the contract made          *)
(* executable.  RedisBackend and PostgresBackend are shown to implement    *)
(* this module.                                                            *)
(***************************************************************************)
EXTENDS BackendInterface

VARIABLES
  state,  \* state[p]: the state of poll p
  votes,  \* votes[p][u]: the object user u has voted with in poll p
  pc,     \* pc[c]: how far the call of c has come
  req,    \* req[c]: the request c is waiting for
  res     \* res[c]: the answer computed for req[c]

vars == <<state, votes, pc, req, res>>

PollState == {"unknown", "started", "stopped"}

Init ==
  /\ state = [p \in Polls |-> "unknown"]
  /\ votes = [p \in Polls |-> NobodyVoted]
  /\ pc = [c \in Clients |-> "idle"]
  /\ req = [c \in Clients |-> NoRequest]
  /\ res = [c \in Clients |-> Answer("none")]

Invoke(c) ==
  /\ pc[c] = "idle"
  /\ \E r \in RequestsOf(c) : req' = [req EXCEPT ![c] = r]
  /\ pc' = [pc EXCEPT ![c] = "pending"]
  /\ UNCHANGED <<state, votes, res>>

\* The pending call of c takes effect and its answer is a.
TakesEffect(c, op, a) ==
  /\ pc[c] = "pending"
  /\ req[c].op = op
  /\ pc' = [pc EXCEPT ![c] = "applied"]
  /\ res' = [res EXCEPT ![c] = a]
  /\ UNCHANGED req

\* Start opens an unknown poll.  It is a no-op on a known one.
Start(c) ==
  LET p == req[c].poll IN
  /\ TakesEffect(c, "start", Answer("ok"))
  /\ state' = [state EXCEPT ![p] = IF @ = "stopped" THEN @ ELSE "started"]
  /\ UNCHANGED votes

\* The answer of Vote, and with it the order of its checks.
VoteAnswer(p, u) ==
  CASE state[p] = "unknown" -> Answer("notExist")
    [] state[p] = "stopped" -> Answer("stopped")
    [] state[p] = "started" /\ votes[p][u] # NoVote -> Answer("doubleVote")
    [] state[p] = "started" /\ votes[p][u] = NoVote -> Answer("ok")

Vote(c) ==
  LET p == req[c].poll
      u == req[c].user
      a == VoteAnswer(p, u)
  IN
  /\ TakesEffect(c, "vote", a)
  /\ votes' = IF a.kind = "ok" THEN [votes EXCEPT ![p][u] = req[c].object] ELSE votes
  /\ UNCHANGED state

Stop(c) ==
  LET p == req[c].poll
      known == state[p] # "unknown"
  IN
  /\ TakesEffect(c, "stop", IF known THEN StopAnswer(votes[p]) ELSE Answer("notExist"))
  /\ state' = IF known THEN [state EXCEPT ![p] = "stopped"] ELSE state
  /\ UNCHANGED votes

Clear(c) ==
  LET p == req[c].poll IN
  /\ TakesEffect(c, "clear", Answer("ok"))
  /\ state' = [state EXCEPT ![p] = "unknown"]
  /\ votes' = [votes EXCEPT ![p] = NobodyVoted]

ClearAll(c) ==
  /\ TakesEffect(c, "clearAll", Answer("ok"))
  /\ state' = [p \in Polls |-> "unknown"]
  /\ votes' = [p \in Polls |-> NobodyVoted]

\* The call is over and its caller has the answer or the error.
Finish(c) ==
  /\ pc' = [pc EXCEPT ![c] = "idle"]
  /\ req' = [req EXCEPT ![c] = NoRequest]
  /\ res' = [res EXCEPT ![c] = Answer("none")]
  /\ UNCHANGED <<state, votes>>

Return(c) ==
  /\ pc[c] = "applied"
  /\ Finish(c)

\* The call returns an error, before or after it took effect.
Fail(c) ==
  /\ pc[c] # "idle"
  /\ Finish(c)

Next ==
  \E c \in Clients :
    \/ Invoke(c) \/ Return(c) \/ Fail(c)
    \/ Start(c) \/ Vote(c) \/ Stop(c) \/ Clear(c) \/ ClearAll(c)

Spec == Init /\ [][Next]_vars
=============================================================================
