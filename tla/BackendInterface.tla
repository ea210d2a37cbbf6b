-------------------------- MODULE BackendInterface --------------------------
(***************************************************************************)
(* The vocabulary of the vote.Backend interface (vote/vote.go): who calls  *)
(* a backend, with which requests, and what the answers are.  The contract *)
(* (Backend) and the implementations share it.                             *)
(***************************************************************************)

CONSTANTS
  Polls,     \* poll ids
  Users,     \* user ids
  Objects,   \* vote objects, opaque to a backend
  Voters,    \* callers that vote: one per vote request being served
  Managers,  \* callers that start, stop and clear polls
  NoVote     \* marks a user that has not voted

ASSUME NoVoteAssumption == NoVote \notin Objects
ASSUME CallersAssumption == Voters \cap Managers = {}

Clients == Voters \cup Managers

Op == {"start", "vote", "stop", "clear", "clearAll"}

VoteRequest == [op : {"vote"}, poll : Polls, user : Users, object : Objects]
PollRequest == [op : {"start", "stop", "clear"}, poll : Polls]
ClearAllRequest == [op : {"clearAll"}]
NoRequest == [op |-> "none"]

RequestsOf(c) == IF c \in Voters THEN VoteRequest
                                 ELSE PollRequest \cup ClearAllRequest

(***************************************************************************)
(* The answers; "none" stands for no answer yet.  Only a successful Stop   *)
(* carries data: the users that have voted and their objects.  An object   *)
(* is paired with its user to tell apart equal votes; the code returns the *)
(* objects alone.                                                          *)
(***************************************************************************)
Kind == {"none", "ok", "notExist", "stopped", "doubleVote"}

Answer(kind) == [kind |-> kind, users |-> {}, objects |-> {}]

NobodyVoted == [u \in Users |-> NoVote]

HasVoted(ballots) == {u \in Users : ballots[u] # NoVote}

StopAnswer(ballots) ==
  [kind    |-> "ok",
   users   |-> HasVoted(ballots),
   objects |-> {<<u, ballots[u]>> : u \in HasVoted(ballots)}]

AnswerSet == [kind : Kind, users : SUBSET Users, objects : SUBSET (Users \X Objects)]
=============================================================================
