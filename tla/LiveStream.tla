----------------------------- MODULE LiveStream -----------------------------
(***************************************************************************)
(* The live votes of one instance as a connection of the route live_votes  *)
(* sees them (AllLiveVotes in vote/vote.go, handleAllVotedIDs in           *)
(* vote/http/http.go): once a second the handler compares liveVotes with   *)
(* what it has sent before and sends the difference, which the receiver    *)
(* merges into what it has.                                                *)
(*                                                                         *)
(* Unlike in VoteService it matters here whether liveVotes has an entry of *)
(* a poll, whether that is nil, and whether a vote in it is nil.  In turn  *)
(* a request is one step: VoteService interleaves the parts of requests.   *)
(* A load that fails or is cut off, which the next one makes good, is part *)
(* of VoteService, too.  A poll that is stopped is one that gets no more   *)
(* votes.                                                                  *)
(***************************************************************************)
EXTENDS FiniteSets

CONSTANTS
  Polls, Users,
  SingleInstance   \* VOTE_SINGLE_INSTANCE: nothing reloads liveVotes

VARIABLES
  config,       \* config[p]: the poll in the datastore
  unreadable,   \* the polls that the datastore can not give at the moment
  known,        \* the polls that their backend knows
  saved,        \* saved[p]: the users whose vote the backend has
  liveVotes,    \* liveVotes[p]: an Entry
  loaded,       \* <<>> or <<what a running loadVoted has read>>
  stream,       \* the connection: "closed", "new", "open" or "broken"
  voterMemory,  \* voterMemory[p]: what the handler has sent, an Entry
  received      \* received[p]: what the receiver has put together, an Entry

service == <<config, unreadable, known, saved, liveVotes, loaded>>
connection == <<stream, voterMemory, received>>
vars == <<config, unreadable, known, saved, liveVotes, loaded,
          stream, voterMemory, received>>

(***************************************************************************)
(* An entry of a Go map from poll to a map from user to vote: no entry, a  *)
(* nil map, or a map.  A vote is an object or nil.                         *)
(***************************************************************************)
None == [tag |-> "none", votes |-> <<>>]
Nil == [tag |-> "nil", votes |-> <<>>]
Map(votes) == [tag |-> "map", votes |-> votes]

Maps == {Map(f) : f \in UNION {[S -> {"object", "nil"}] : S \in SUBSET Users}}

VotersOf(entry) == DOMAIN entry.votes

\* The votes of old with those of new written over them.
Merge(old, new) ==
  Map([u \in VotersOf(old) \cup VotersOf(new) |->
         IF u \in VotersOf(new) THEN new.votes[u] ELSE old.votes[u]])

NoEntries == [p \in Polls |-> None]

Configs == [named : BOOLEAN, live_voting_enabled : BOOLEAN, fast : BOOLEAN]
-----------------------------------------------------------------------------
(***************************************************************************)
(* What changes liveVotes.  here tells whether the request is served by    *)
(* this instance or by another one.                                        *)
(***************************************************************************)
Here == IF SingleInstance THEN {TRUE} ELSE BOOLEAN


\* What the backends return: redis has all objects, postgres only the users.
LoadVoted ==
  [p \in Polls |->
     IF p \in known
     THEN Map([u \in saved[p] |-> IF config[p].fast THEN "object" ELSE "nil"])
     ELSE None]

\* The instance is started with what is in the backends; the fast backend of a
\* single instance is the memory of the process.
Init ==
  /\ config \in [Polls -> Configs]
  /\ unreadable = {}
  /\ known \in SUBSET {p \in Polls : SingleInstance => ~config[p].fast}
  /\ saved \in {f \in [Polls -> SUBSET Users] : \A p \in Polls \ known : f[p] = {}}
  /\ liveVotes = LoadVoted
  /\ loaded = <<>>
  /\ stream = "closed"
  /\ voterMemory = NoEntries
  /\ received = NoEntries

Start(p) ==
  /\ known' = known \cup {p}
  /\ UNCHANGED <<config, unreadable, saved, liveVotes, loaded, connection>>

\* Only the object of a named vote is put into liveVotes.
Vote(p, u, here) ==
  LET vote == Map([v \in {u} |-> IF config[p].named THEN "object" ELSE "nil"]) IN
  /\ p \in known
  /\ u \notin saved[p]
  /\ saved' = [saved EXCEPT ![p] = @ \cup {u}]
  /\ liveVotes' = [liveVotes EXCEPT ![p] = IF here THEN Merge(@, vote) ELSE @]
  /\ UNCHANGED <<config, unreadable, known, loaded, connection>>

\* Mutant: the votes stay in the backend.
ClearState(p, here) ==
  /\ known' = known \ {p}
  /\ liveVotes' = [liveVotes EXCEPT ![p] = IF here THEN Nil ELSE @]
  /\ UNCHANGED <<config, unreadable, saved, loaded, connection>>

\* Clear leaves an entry without a map.
Clear(p, here) ==
  /\ known' = known \ {p}
  /\ saved' = [saved EXCEPT ![p] = {}]
  /\ liveVotes' = [liveVotes EXCEPT ![p] = IF here THEN Nil ELSE @]
  /\ UNCHANGED <<config, unreadable, loaded, connection>>

ClearAll(here) ==
  /\ known' = {}
  /\ saved' = [p \in Polls |-> {}]
  /\ liveVotes' = IF here THEN NoEntries ELSE liveVotes
  /\ UNCHANGED <<config, unreadable, loaded, connection>>

LoadRead ==
  /\ ~SingleInstance
  /\ loaded = <<>>
  /\ loaded' = <<LoadVoted>>
  /\ UNCHANGED <<config, unreadable, known, saved, liveVotes, connection>>

\* Mutant: polls that are gone stay in liveVotes.
LoadSwapMerge ==
  /\ loaded # <<>>
  /\ liveVotes' = [p \in Polls |-> IF loaded[1][p] = None THEN liveVotes[p] ELSE loaded[1][p]]
  /\ loaded' = <<>>
  /\ UNCHANGED <<config, unreadable, known, saved, connection>>

LoadSwap ==
  /\ loaded # <<>>
  /\ liveVotes' = loaded[1]
  /\ loaded' = <<>>
  /\ UNCHANGED <<config, unreadable, known, saved, connection>>

\* The datastore stops or starts to answer requests for a poll.
Datastore(p) ==
  /\ unreadable' = IF p \in unreadable THEN unreadable \ {p} ELSE unreadable \cup {p}
  /\ UNCHANGED <<config, known, saved, liveVotes, loaded, connection>>
-----------------------------------------------------------------------------
(***************************************************************************)
(* The connection.                                                         *)
(***************************************************************************)
\* AllLiveVotes gives the objects of the votes of poll p.
WithObjects(p) == config[p].live_voting_enabled /\ config[p].named

HasVote(p, vote) == \E u \in VotersOf(liveVotes[p]) : liveVotes[p].votes[u] = vote

\* What AllLiveVotes returns for poll p, if it returns.
AllLiveVotes(p) ==
  CASE liveVotes[p] = None \/ p \in unreadable -> None
    [] liveVotes[p] # None /\ p \notin unreadable ->
         CASE ~WithObjects(p) -> Map([u \in VotersOf(liveVotes[p]) |-> "nil"])
           [] WithObjects(p) /\ HasVote(p, "nil") -> Nil
           [] WithObjects(p) /\ ~HasVote(p, "nil") -> Map(liveVotes[p].votes)

\* A nil vote sets the map of the poll to nil.  It depends on the order in which
\* Go ranges over the votes whether a vote with an object is written after it.
AllLiveVotesMayPanic ==
  \E p \in Polls \ unreadable :
    WithObjects(p) /\ HasVote(p, "nil") /\ HasVote(p, "object")

\* A new voter is written into the nil map that the handler remembers.
MemoryPanics ==
  \E p \in Polls : voterMemory[p] = Nil /\ VotersOf(AllLiveVotes(p)) # {}

\* The entry of the poll in the line that is sent: none, null or a map.
Diff(old, new) ==
  CASE old = None -> new
    [] old # None /\ new = None -> Nil
    [] old # None /\ new # None ->
         LET added == VotersOf(new) \ VotersOf(old) IN
         IF added = {} THEN None ELSE Map([u \in added |-> new.votes[u]])

\* Mutant: voters that are gone are forgotten.
Replace(old, new) == new

\* The entry of the poll in voterMemory afterwards.
Remember(old, new) ==
  CASE old = None \/ new = None -> new
    [] old # None /\ new # None -> IF old = Nil THEN Nil ELSE Merge(new, old)

\* What the receiver has after a line: null ends a poll, a map adds voters.
Receive(has, line) ==
  CASE line = None -> has
    [] line = Nil -> None
    [] line.tag = "map" -> Merge(has, line)

\* The handler starts with voterMemory == nil, which has the effect of a map
\* without entries.
Connect ==
  /\ stream \in {"closed", "broken"}
  /\ stream' = "new"
  /\ voterMemory' = NoEntries
  /\ received' = NoEntries
  /\ UNCHANGED service

Tick ==
  /\ stream \in {"new", "open"}
  /\ ~MemoryPanics
  /\ stream' = "open"
  /\ voterMemory' = [p \in Polls |-> Remember(voterMemory[p], AllLiveVotes(p))]
  /\ received' = [p \in Polls |-> Receive(received[p], Diff(voterMemory[p], AllLiveVotes(p)))]
  /\ UNCHANGED service

\* net/http ends the connection of a handler that panics.
Panic ==
  /\ stream \in {"new", "open"}
  /\ AllLiveVotesMayPanic \/ MemoryPanics
  /\ stream' = "broken"
  /\ voterMemory' = NoEntries
  /\ received' = NoEntries
  /\ UNCHANGED service

\* The receiver goes away or the server is shut down.
Disconnect ==
  /\ stream \in {"new", "open"}
  /\ stream' = "closed"
  /\ voterMemory' = NoEntries
  /\ received' = NoEntries
  /\ UNCHANGED service

Next ==
  \/ \E p \in Polls : Start(p)
  \/ \E p \in Polls, u \in Users, here \in Here : Vote(p, u, here)
  \/ \E p \in Polls, here \in Here : Clear(p, here)
  \/ \E here \in Here : ClearAll(here)
  \/ LoadRead \/ LoadSwap
  \/ \E p \in Polls : Datastore(p)
  \/ Connect \/ Tick \/ Panic \/ Disconnect

Spec == Init /\ [][Next]_vars

\* loadVoted runs in an endless loop, and the ticker of a connection goes on as
\* long as the connection lasts.
FairSpec == Spec /\ WF_vars(LoadRead) /\ WF_vars(LoadSwap) /\ WF_vars(Tick)
-----------------------------------------------------------------------------
\* The type invariant.  A receiver never has a map that is nil, and only a poll
\* that its backend knows has votes.
TypeOK ==
  /\ config \in [Polls -> Configs]
  /\ unreadable \subseteq Polls
  /\ known \subseteq Polls
  /\ saved \in [Polls -> SUBSET Users]
  /\ \A p \in Polls \ known : saved[p] = {}
  /\ liveVotes \in [Polls -> {None, Nil} \cup Maps]
  /\ loaded = <<>> \/ loaded[1] \in [Polls -> {None} \cup Maps]
  /\ stream \in {"closed", "new", "open", "broken"}
  /\ voterMemory \in [Polls -> {None, Nil} \cup Maps]
  /\ received \in [Polls -> {None} \cup Maps]

\* The lines of handleAllVotedIDs, merged one after the other, give the receiver
\* exactly what the handler remembers to have sent: no voter is skipped because
\* the handler wrongly takes the voter for sent.
ReceiverInSync ==
  \A p \in Polls :
    received[p] = IF voterMemory[p] = Nil THEN None ELSE voterMemory[p]


\* "If an poll is not active anymore, it returns a null-value for it": a poll
\* that stays unknown to its backend ends for the receiver, once Clear is not
\* called for it any more.
ClearedPollsEnd ==
  \A p \in Polls :
    <>[](p \notin known) /\ <>[][~Clear(p, TRUE)]_vars
      => <>[](stream = "open" => received[p] = None)

\* "handleAllVotedIDs opens an http connection, that the server never closes."
NeverBroken == stream # "broken"

=============================================================================
