--------------------------- MODULE MCVoteService ---------------------------
(***************************************************************************)
(* Instances of VoteService for TLC.                                       *)
(***************************************************************************)
EXTENDS VoteService

\* With one poll ClearAll does what Clear does.  A stopped poll differs from a
\* started one in that it turns votes down, which Reject does at any time.  So
\* what a run with one poll shows of votes and liveVotes needs neither of them.
StartOrClear == \A c \in Managers : req'[c].op \in {"none", "start", "clear"}

OnePollNext ==
  \/ \E c \in Clients :
       \/ Invoke(c) /\ StartOrClear
       \/ Reject(c) \/ Fail(c)
       \/ Start(c) \/ VoteBackend(c) \/ VoteLive(c)
       \/ ClearFast(c) \/ ClearLong(c) \/ ClearLive(c)
  \/ \E i \in Instances : Load(i) \/ LongReadShort(i) \/ LoadFail(i) \/ Restart(i)
  \/ \E p \in Polls : Reconfigure(p)

OnePollSpec == Init /\ [][OnePollNext]_vars /\ Fairness
=============================================================================
