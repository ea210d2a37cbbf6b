----------------------------- MODULE ShownVotes -----------------------------
(***************************************************************************)
(* What a single instance of VoteService shows of the votes its backends   *)
(* hold.  Nothing reloads its liveVotes, so what is missing there stays    *)
(* missing until the process is started again.  The history variable       *)
(* missed collects the votes that the code itself drops on the way.        *)
(***************************************************************************)
EXTENDS VoteService

VARIABLE missed  \* history: missed[p]: the saved votes of p that were dropped

allVars == <<vars, missed>>

saved(p) == votes["fast"][p] \cup votes["long"][p]

\* Of the dropped votes those that are still saved after the step.
Record(before, dropped) ==
  missed' = [p \in Polls |-> (before[p] \cup dropped[p]) \cap saved(p)']

HInit == Init /\ missed = EmptyMap

\* The backend has saved the vote and Vote gets an error.
DropAnswer(c) ==
  /\ Fail(c)
  /\ Record(missed, [p \in Polls |->
       IF At(c, "vote", "live") /\ req[c].poll = p THEN {req[c].user} ELSE {}])

\* Clear and ClearAll reset liveVotes after the backends, also for a poll that
\* was started again in between and has votes.
DropShown(c) ==
  /\ ClearLive(c) \/ ClearAllLive(c)
  /\ Record(missed, [p \in Polls |->
       IF req[c].op = "clearAll" \/ req[c].poll = p THEN liveVotes[req[c].at][p] ELSE {}])

\* The first load ends early without an error.
DropRows(i) ==
  /\ LongReadShort(i)
  /\ Record(missed, [p \in Polls |-> votes["long"][p] \ loader'[i].data[p]])

\* A new process loads anew.
StartAgain(i) ==
  /\ Restart(i)
  /\ Record(EmptyMap, EmptyMap)

KeepStep(c) ==
  \/ Invoke(c) \/ Reject(c)
  \/ Start(c) \/ Stop(c) \/ VoteBackend(c) \/ VoteLive(c)
  \/ ClearFast(c) \/ ClearLong(c) \/ ClearAllFast(c) \/ ClearAllLong(c)

Keep ==
  /\ \/ \E c \in Clients : KeepStep(c)
     \/ \E i \in Instances : Load(i) \/ LoadFail(i)
     \/ \E p \in Polls : Reconfigure(p)
  /\ Record(missed, EmptyMap)

HNext ==
  \/ \E c \in Clients : DropAnswer(c) \/ DropShown(c)
  \/ \E i \in Instances : DropRows(i) \/ StartAgain(i)
  \/ Keep

HSpec == HInit /\ [][HNext]_allVars
-----------------------------------------------------------------------------
\* What Voted answers is not behind the backends: a vote that either of them has
\* saved is shown as soon as its request is done, even of a poll that both of
\* them know, unless it got lost in one of three ways: the answer of the backend
\* was an error, a Clear that began before the poll was started again ended
\* after the vote, or the load at the start was cut off.
SavedVotesShown ==
  \A i \in Instances, p \in Polls : serving[i] =>
    \A u \in saved(p) :
      \/ u \in liveVotes[i][p]
      \/ \E c \in Voters : At(c, "vote", "live") /\ req[c].poll = p /\ req[c].user = u
      \/ u \in missed[p]
=============================================================================
