---------------------------- MODULE VoteService ----------------------------
(***************************************************************************)
(* The vote service (vote/vote.go) above its two backends: its instances,  *)
(* their requests, and the in-memory liveVotes that Voted and AllLiveVotes *)
(* answer from.                                                            *)
(*                                                                         *)
(* A backend is used through its contract, so each of its methods is one   *)
(* atomic step here.  PostgresBackend justifies this for postgres and the  *)
(* mutex of the memory backend for a single instance.  RedisBackend does   *)
(* so where the runs with more instances keep to: one manager request at a *)
(* time, and a Start that is not cut off between its two commands.  The    *)
(* exception is redis' LiveVotes, "This command is not atomic", which      *)
(* reads one poll after the other.  A service method that calls two        *)
(* backends, or a backend and liveVotes, is several steps.  What the       *)
(* datastore decides before the first step (whether the poll exists, the   *)
(* user may vote, the ballot is valid) only ends a request early and may   *)
(* go either way; the vote objects are left out, and so is the cache of    *)
(* the datastore that ClearAll resets first.                               *)
(***************************************************************************)
EXTENDS FiniteSets

CONSTANTS
  Polls, Users,
  Voters,          \* callers that vote
  Managers,        \* callers that start, stop and clear polls
  Instances,       \* the instances of the service
  SingleInstance,  \* VOTE_SINGLE_INSTANCE: memory backend, no reloading
  MayFail,         \* the operations whose calls of a backend may return an error
  MayRestart,      \* whether an instance may go down and come back
  MayMoveTo        \* the backends that a change of the datastore may give a poll

ASSUME CallersAssumption == Voters \cap Managers = {}
ASSUME SingleInstanceAssumption ==
  SingleInstance \in BOOLEAN /\ (SingleInstance => \A i, j \in Instances : i = j)

Backends == {"fast", "long"}

ASSUME FaultsAssumption ==
  /\ MayFail \subseteq {"start", "vote", "stop", "clear", "clearAll", "load"}
  /\ MayRestart \in BOOLEAN /\ MayMoveTo \subseteq Backends

Clients == Voters \cup Managers

VARIABLES
  state,      \* state[b][p]: what backend b knows of poll p
  votes,      \* votes[b][p]: the users backend b has saved a vote of
  fast,       \* the polls that the datastore configures for the fast backend
  liveVotes,  \* liveVotes[i][p]: the users that i shows for poll p; no entry, a
              \* nil map and an empty one are the same to Voted
  serving,    \* serving[i]: i has loaded liveVotes and listens
  loader,     \* loader[i]: the running loadVoted of i
  pc, req     \* per caller: the next step of its request, and the request

stores == <<state, votes, fast>>
instances == <<liveVotes, serving, loader>>
calls == <<pc, req>>
vars == <<state, votes, fast, liveVotes, serving, loader, pc, req>>

backend(p) == IF p \in fast THEN "fast" ELSE "long"

EmptyMap == [p \in Polls |-> {}]

NoRequest == [op |-> "none"]
RequestsOf(c) ==
  IF c \in Voters
  THEN [op : {"vote"}, poll : Polls, user : Users, at : Instances, to : Backends]
  ELSE [op : {"start", "stop"}, poll : Polls, at : Instances, to : Backends]
         \cup [op : {"clear"}, poll : Polls, at : Instances]
         \cup [op : {"clearAll"}, at : Instances]

\* A loader about to call LiveVotes of the fast backend.
Loading == [pc |-> "list", todo |-> {}, data |-> EmptyMap]
Asleep == [pc |-> "sleep", todo |-> {}, data |-> EmptyMap]

\* Every instance starts with New, which runs loadVoted before it returns.
Init ==
  /\ state = [b \in Backends |-> [p \in Polls |-> "unknown"]]
  /\ votes = [b \in Backends |-> [p \in Polls |-> {}]]
  /\ fast \in SUBSET Polls
  /\ liveVotes = [i \in Instances |-> EmptyMap]
  /\ serving = [i \in Instances |-> FALSE]
  /\ loader = [i \in Instances |-> Loading]
  /\ pc = [c \in Clients |-> "idle"]
  /\ req = [c \in Clients |-> NoRequest]
-----------------------------------------------------------------------------
(***************************************************************************)
(* Requests.                                                               *)
(***************************************************************************)
\* Start, Stop and Vote first read the poll, which says what backend to call.
Invoke(c) ==
  /\ pc[c] = "idle"
  /\ \E r \in RequestsOf(c) :
       /\ serving[r.at]
       /\ r.op \in {"start", "stop", "vote"} => r.to = backend(r.poll)
       /\ req' = [req EXCEPT ![c] = r]
  /\ pc' = [pc EXCEPT ![c] = "begin"]
  /\ UNCHANGED <<stores, instances>>

At(c, op, label) == pc[c] = label /\ req[c].op = op

Goto(c, label) == pc' = [pc EXCEPT ![c] = label] /\ UNCHANGED req

Return(c) ==
  /\ pc' = [pc EXCEPT ![c] = "idle"]
  /\ req' = [req EXCEPT ![c] = NoRequest]

\* The poll is not in the datastore or is analog, the user is not present, not
\* entitled or not the delegate, the ballot does not fit the poll.
Reject(c) ==
  /\ pc[c] = "begin"
  /\ req[c].op \in {"start", "stop", "vote"}
  /\ Return(c)
  /\ UNCHANGED <<stores, instances>>

Start(c) ==
  LET p == req[c].poll IN
  /\ At(c, "start", "begin")
  /\ state' = [state EXCEPT ![req[c].to][p] = IF @ = "stopped" THEN @ ELSE "started"]
  /\ Return(c)
  /\ UNCHANGED <<votes, fast, instances>>

Stop(c) ==
  LET p == req[c].poll IN
  /\ At(c, "stop", "begin")
  /\ state' = [state EXCEPT ![req[c].to][p] = IF @ = "unknown" THEN @ ELSE "stopped"]
  /\ Return(c)
  /\ UNCHANGED <<votes, fast, instances>>

\* The backend rejects the vote of an unknown or stopped poll and the second
\* vote of a user.  The postgres backend also returns no error, with nothing
\* saved, when the context was done before its first try.
VoteBackend(c) ==
  LET p == req[c].poll
      b == req[c].to
      accepted == state[b][p] = "started" /\ req[c].user \notin votes[b][p]
  IN
  /\ At(c, "vote", "begin")
  /\ \/ /\ accepted
        /\ votes' = [votes EXCEPT ![b][p] = @ \cup {req[c].user}]
        /\ Goto(c, "live")
     \/ /\ ~accepted
        /\ Return(c)
        /\ UNCHANGED votes
     \/ /\ b = "long" /\ "vote" \in MayFail
        /\ Goto(c, "live")
        /\ UNCHANGED votes
  /\ UNCHANGED <<state, fast, instances>>

VoteLive(c) ==
  /\ At(c, "vote", "live")
  /\ liveVotes' = [liveVotes EXCEPT ![req[c].at][req[c].poll] = @ \cup {req[c].user}]
  /\ Return(c)
  /\ UNCHANGED <<stores, serving, loader>>

ClearPoll(b, p) ==
  /\ state' = [state EXCEPT ![b][p] = "unknown"]
  /\ votes' = [votes EXCEPT ![b][p] = {}]
  /\ UNCHANGED fast

ClearFast(c) ==
  /\ At(c, "clear", "begin")
  /\ ClearPoll("fast", req[c].poll)
  /\ Goto(c, "long")
  /\ UNCHANGED instances

ClearLong(c) ==
  /\ At(c, "clear", "long")
  /\ ClearPoll("long", req[c].poll)
  /\ Goto(c, "live")
  /\ UNCHANGED instances

ClearLive(c) ==
  /\ At(c, "clear", "live")
  /\ liveVotes' = [liveVotes EXCEPT ![req[c].at][req[c].poll] = {}]
  /\ Return(c)
  /\ UNCHANGED <<stores, serving, loader>>

ClearBackend(b) ==
  /\ state' = [state EXCEPT ![b] = [p \in Polls |-> "unknown"]]
  /\ votes' = [votes EXCEPT ![b] = [p \in Polls |-> {}]]
  /\ UNCHANGED fast

ClearAllFast(c) ==
  /\ At(c, "clearAll", "begin")
  /\ ClearBackend("fast")
  /\ Goto(c, "long")
  /\ UNCHANGED instances

ClearAllLong(c) ==
  /\ At(c, "clearAll", "long")
  /\ ClearBackend("long")
  /\ Goto(c, "live")
  /\ UNCHANGED instances

\* Mutant: liveVotes itself becomes nil.
ClearAllNil(c) ==
  /\ At(c, "clearAll", "live")
  /\ liveVotes' = [liveVotes EXCEPT ![req[c].at] = [p \in {} |-> {}]]
  /\ Return(c)
  /\ UNCHANGED <<stores, serving, loader>>

ClearAllLive(c) ==
  /\ At(c, "clearAll", "live")
  /\ liveVotes' = [liveVotes EXCEPT ![req[c].at] = EmptyMap]
  /\ Return(c)
  /\ UNCHANGED <<stores, serving, loader>>

\* A backend call returns an error, before or after it took effect, and the
\* method returns at once.
Fail(c) ==
  /\ pc[c] # "idle"
  /\ req[c].op \in MayFail
  /\ Return(c)
  /\ UNCHANGED <<stores, instances>>

Step(c) ==
  \/ Start(c) \/ Stop(c)
  \/ VoteBackend(c) \/ VoteLive(c)
  \/ ClearFast(c) \/ ClearLong(c) \/ ClearLive(c)
  \/ ClearAllFast(c) \/ ClearAllLong(c) \/ ClearAllLive(c)
-----------------------------------------------------------------------------
(***************************************************************************)
(* loadVoted: once in New, then by the background loop of a service that   *)
(* is not a single instance, a second after the end of the last one.       *)
(***************************************************************************)
SetLoader(i, l) == loader' = [loader EXCEPT ![i] = l]

\* Mutant: a single instance reloads too.
WakeUpAlways(i) ==
  /\ loader[i].pc = "sleep"
  /\ SetLoader(i, Loading)
  /\ UNCHANGED <<stores, liveVotes, serving, calls>>

\* Mutant: the condition is inverted.
WakeUpSingle(i) ==
  /\ SingleInstance
  /\ loader[i].pc = "sleep"
  /\ SetLoader(i, Loading)
  /\ UNCHANGED <<stores, liveVotes, serving, calls>>

WakeUp(i) ==
  /\ ~SingleInstance
  /\ loader[i].pc = "sleep"
  /\ SetLoader(i, Loading)
  /\ UNCHANGED <<stores, liveVotes, serving, calls>>

\* SMEMBERS vote_polls: the polls to read.  The memory backend has just been
\* created when it is asked.
FastList(i) ==
  /\ loader[i].pc = "list"
  /\ SetLoader(i, [loader[i] EXCEPT
       !.pc = "fast", !.todo = {p \in Polls : state["fast"][p] # "unknown"}])
  /\ UNCHANGED <<stores, liveVotes, serving, calls>>

\* HGETALL of one poll, which may be gone by now.
FastRead(i) ==
  /\ loader[i].pc = "fast"
  /\ \E p \in loader[i].todo :
       SetLoader(i, [loader[i] EXCEPT
         !.todo = @ \ {p}, !.data[p] = votes["fast"][p]])
  /\ UNCHANGED <<stores, liveVotes, serving, calls>>

\* Mutant: the data of the long backend alone.
LongReadOnly(i) ==
  /\ loader[i].pc = "fast"
  /\ loader[i].todo = {}
  /\ SetLoader(i, [loader[i] EXCEPT !.pc = "swap", !.data = votes["long"]])
  /\ UNCHANGED <<stores, liveVotes, serving, calls>>

\* The rows of one SELECT; maps.Copy lets them replace the entries of the fast
\* backend.
longPolls == {p \in Polls : state["long"][p] # "unknown"}
withRows(i, rows) == [p \in Polls |-> IF p \in rows THEN votes["long"][p] ELSE loader[i].data[p]]

LongRead(i) ==
  /\ loader[i].pc = "fast"
  /\ loader[i].todo = {}
  /\ SetLoader(i, [loader[i] EXCEPT !.pc = "swap", !.data = withRows(i, longPolls)])
  /\ UNCHANGED <<stores, liveVotes, serving, calls>>

\* The connection breaks between two rows: rows.Next returns false, nothing asks
\* for rows.Err, and LiveVotes returns the rows it has got as if there were no
\* more.
LongReadShort(i) ==
  /\ "load" \in MayFail
  /\ loader[i].pc = "fast"
  /\ loader[i].todo = {}
  /\ \E rows \in SUBSET longPolls :
       /\ withRows(i, rows) # withRows(i, longPolls)
       /\ SetLoader(i, [loader[i] EXCEPT !.pc = "swap", !.data = withRows(i, rows)])
  /\ UNCHANGED <<stores, liveVotes, serving, calls>>

\* The new map replaces liveVotes.  After the first load the instance listens.
Swap(i) ==
  /\ loader[i].pc = "swap"
  /\ liveVotes' = [liveVotes EXCEPT ![i] = loader[i].data]
  /\ serving' = [serving EXCEPT ![i] = TRUE]
  /\ SetLoader(i, Asleep)
  /\ UNCHANGED <<stores, calls>>

\* A read returns an error: New and with it the start of the service fails,
\* the background loop reports it and sleeps.
LoadFail(i) ==
  /\ "load" \in MayFail
  /\ loader[i].pc \in {"list", "fast"}
  /\ SetLoader(i, IF serving[i] THEN Asleep ELSE Loading)
  /\ UNCHANGED <<stores, liveVotes, serving, calls>>

\* The process ends and is started again.  Its requests end where they are,
\* and a single instance loses the memory backend.
Restart(i) ==
  /\ MayRestart
  /\ serving[i]
  /\ serving' = [serving EXCEPT ![i] = FALSE]
  /\ liveVotes' = [liveVotes EXCEPT ![i] = EmptyMap]
  /\ SetLoader(i, Loading)
  /\ LET here(c) == pc[c] # "idle" /\ req[c].at = i IN
     /\ pc' = [c \in Clients |-> IF here(c) THEN "idle" ELSE pc[c]]
     /\ req' = [c \in Clients |-> IF here(c) THEN NoRequest ELSE req[c]]
  /\ IF SingleInstance THEN ClearBackend("fast") ELSE UNCHANGED stores

\* The poll gets another backend, whatever either of them already knows of it.
Reconfigure(p) ==
  /\ \/ backend(p) = "long" /\ "fast" \in MayMoveTo /\ fast' = fast \cup {p}
     \/ backend(p) = "fast" /\ "long" \in MayMoveTo /\ fast' = fast \ {p}
  /\ UNCHANGED <<state, votes, instances, calls>>

Load(i) == WakeUp(i) \/ FastList(i) \/ FastRead(i) \/ LongRead(i) \/ Swap(i)

Next ==
  \/ \E c \in Clients : Invoke(c) \/ Reject(c) \/ Step(c) \/ Fail(c)
  \/ \E i \in Instances : Load(i) \/ LongReadShort(i) \/ LoadFail(i) \/ Restart(i)
  \/ \E p \in Polls : Reconfigure(p)

Spec == Init /\ [][Next]_vars

\* A request that is being served goes on, and so does the background loop.
\* At last the backends answer the loads, and completely.
Fairness ==
  /\ \A c \in Clients : WF_vars(Step(c))
  /\ \A i \in Instances : WF_vars(Load(i))
  /\ <>[][\A i \in Instances : ~LoadFail(i) /\ ~LongReadShort(i)]_vars

FairSpec == Spec /\ Fairness
-----------------------------------------------------------------------------
TypeOK ==
  /\ state \in [Backends -> [Polls -> {"unknown", "started", "stopped"}]]
  /\ votes \in [Backends -> [Polls -> SUBSET Users]]
  /\ fast \in SUBSET Polls
  /\ liveVotes \in [Instances -> [Polls -> SUBSET Users]]
  /\ serving \in [Instances -> BOOLEAN]
  /\ loader \in [Instances -> [pc : {"sleep", "list", "fast", "swap"},
                               todo : SUBSET Polls, data : [Polls -> SUBSET Users]]]
  /\ pc \in [Clients -> {"idle", "begin", "long", "live"}]
  /\ DOMAIN req = Clients
  /\ \A c \in Clients : req[c] \in IF pc[c] = "idle" THEN {NoRequest} ELSE RequestsOf(c)

\* A poll shows no voters that its backend does not have when no request is
\* being served: Clear has removed them.
ClearForgets ==
  (\A c \in Clients : pc[c] = "idle") =>
    \A i \in Instances, p \in Polls : liveVotes[i][p] \subseteq votes[backend(p)][p]

\* The votes of a poll that loadVoted keeps: those of the long backend as soon
\* as it knows the poll.
loaded(p) == IF state["long"][p] # "unknown" THEN votes["long"][p] ELSE votes["fast"][p]

\* The instances catch up: a vote that stays in the backend is at last shown by
\* every instance for good, whichever instance saved it and whatever loads,
\* clears and restarts overlap with it; but of a poll that has changed its
\* backend, the votes in the fast one are no longer shown once the long one
\* knows the poll.
SavedVotesSpread ==
  \A p \in Polls, u \in Users :
    <>[](u \in loaded(p)) =>
      <>[](\A i \in Instances : serving[i] => u \in liveVotes[i][p])

\* And a vote that is gone from both backends at last disappears everywhere,
\* as does one that a backend has accepted without saving it, once no more of
\* these arrive.
ClearedVotesVanish ==
  \A p \in Polls, u \in Users :
    <>[](/\ u \notin votes["fast"][p] \cup votes["long"][p]
         /\ \A c \in Voters : At(c, "vote", "live") => req[c].poll # p \/ req[c].user # u) =>
      <>[](\A i \in Instances : u \notin liveVotes[i][p])
=============================================================================
