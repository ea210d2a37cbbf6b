----------------------------- MODULE VoteRequest -----------------------------
(***************************************************************************)
(* One vote request of one user, and the Voted request that follows it:    *)
(* Start with its preload, Vote and Voted of vote/vote.go, read by read,   *)
(* while the datastore changes under them.                                 *)
(*                                                                         *)
(* The datastore (openslides-go, external) keeps each value under a key    *)
(* and answers every fetch with the current values; the cache in front of  *)
(* it holds the keys that were fetched before and is kept up to date.  The *)
(* reads of one Execute are one step.  A meeting user is the pair of a     *)
(* user and a meeting; its existence is a row of its own.  The datastore   *)
(* keeps back relations (the meeting users of a group, of a user, the      *)
(* delegations to a meeting user) equal to the inverse of the fields.      *)
(* Errors of a read only end the request early and are left out.           *)
(*                                                                         *)
(* The backend and liveVotes are shared with the other requests and with   *)
(* loadVoted.  What they do in between is a step right before this request *)
(* looks at what they have changed.  The ballots in liveVotes are those of *)
(* LiveStream.                                                             *)
(***************************************************************************)
EXTENDS Ballot

CONSTANTS
  Users,        \* user ids, positive
  Meetings,
  Groups,       \* group ids
  Scenarios,    \* the polls, datastores and payloads a behaviour starts with
  Requester     \* the logged-in user, who is never 0: handleVote rejects that

ASSUME UsersAssumption == Users \subseteq Nat \ {0} /\ Requester \in Users

MeetingUsers == Users \X Meetings
None == <<>>    \* no meeting user

\* The values of the datastore that the requests read, but for the poll.
Datastore ==
  [present : SUBSET Users, members : SUBSET MeetingUsers,
   groups : [MeetingUsers -> SUBSET Groups],
   delegate : [MeetingUsers -> MeetingUsers \cup {None}],
   delegations : BOOLEAN, forbid : BOOLEAN, weighted : BOOLEAN,
   weight : [MeetingUsers -> Int], defaultWeight : [Users -> Int]]

PollType(p) ==
  PollFields(p) /\ p.exists \in BOOLEAN /\ p.meeting \in Meetings /\ p.entitledGroupIDs \subseteq Groups

ASSUME ScenariosAssumption ==
  \A s \in Scenarios :
    /\ PollType(s.poll) /\ s.ds \in Datastore
    /\ JSON(s.body.userID) /\ JSON(s.body.value)
    /\ s.budget \in Nat

VARIABLES
  poll,      \* the poll's configuration
  ds,        \* the rest of the datastore
  budget,    \* how often the datastore may still change, liveVotes be written by
             \* others and the poll be cleared
  pollState, \* what the backend knows of the poll
  votes,     \* the objects the backend has saved, by user
  live,      \* the users in liveVotes of the poll
  cached,    \* the keys in the cache
  pc,        \* the next step of the request
  body,      \* its payload: [userID, value]
  local,     \* its local variables
  result,    \* what Vote returned
  answer,    \* what Voted returned
  fetched,   \* history: the keys that Vote has read
  seen,      \* history: the states of the datastore since the request began
  warm       \* history: the cache when the request began

backendVars == <<pollState, votes, live>>
history == <<fetched, seen, warm>>
vars == <<poll, ds, budget, backendVars, cached, pc, body, local, result, answer, history>>

NoVotes == [u \in {} |-> <<>>]
NoLocal == [voteUser |-> 0, voteMeetingUser |-> None, mus |-> {}, activated |-> FALSE,
            forbid |-> FALSE, delegation |-> None, weight |-> 0]

Init ==
  /\ \E s \in Scenarios : poll = s.poll /\ ds = s.ds /\ body = s.body /\ budget = s.budget
  /\ pollState = "unknown"
  /\ votes = NoVotes
  /\ live = {}
  /\ cached = {}
  /\ pc = "idle"
  /\ local = NoLocal
  /\ result = "none"
  /\ answer = {}
  /\ fetched = {}
  /\ seen = {ds}
  /\ warm = {}
-----------------------------------------------------------------------------
(***************************************************************************)
(* The datastore.                                                          *)
(***************************************************************************)
PollKey == <<"poll">>
MeetingKey(field) == <<"meeting", field>>
GroupKey(g) == <<"group", "meeting_user_ids", g>>
UserKey(field, u) == <<"user", field, u>>
MuKey(field, mu) == <<"meeting_user", field, mu>>

meeting_user_ids(d, u) == {mu \in d.members : mu[1] = u}
group_ids(d, mu) == IF mu \in d.members THEN d.groups[mu] ELSE {}
vote_weight(d, mu) == IF mu \in d.members THEN d.weight[mu] ELSE 0
vote_delegated_to_id(d, mu) ==
  IF mu \in d.members /\ d.delegate[mu] \in d.members THEN d.delegate[mu] ELSE None
vote_delegations_from_ids(d, mu) == {x \in d.members : vote_delegated_to_id(d, x) = mu}

Colleagues(mu) == {x \in MeetingUsers : x[2] = mu[2] /\ x # mu}

\* One change by a user of the meeting: a setting, who is present, a group, a
\* delegation, a meeting user that comes or goes.
Change ==
  /\ budget > 0
  /\ \/ ds' = [ds EXCEPT !.delegations = ~@]
     \/ ds' = [ds EXCEPT !.forbid = ~@]
     \/ ds' = [ds EXCEPT !.weighted = ~@]
     \/ ds' = [ds EXCEPT !.present = SymDiff(@, {Requester})]
     \/ \E mu \in MeetingUsers : ds' = [ds EXCEPT !.members = SymDiff(@, {mu})]
     \/ \E mu \in MeetingUsers, g \in poll.entitledGroupIDs :
          mu[2] = poll.meeting /\ ds' = [ds EXCEPT !.groups[mu] = SymDiff(@, {g})]
     \/ \E mu \in MeetingUsers : \E to \in {None} \cup Colleagues(mu) :
          ds' = [ds EXCEPT !.delegate[mu] = to]
  /\ ds' # ds
  /\ budget' = budget - 1
  /\ seen' = seen \cup {ds'}
  /\ UNCHANGED <<poll, backendVars, cached, pc, body, local, result, answer, fetched, warm>>
-----------------------------------------------------------------------------
(***************************************************************************)
(* Start: the keys that preload fetches, in four rounds; a round asks for  *)
(* keys that the answers of the rounds before it name.                     *)
(***************************************************************************)
entitledMeetingUsers(d) == {mu \in d.members : d.groups[mu] \cap poll.entitledGroupIDs # {}}
delegates(d) == {vote_delegated_to_id(d, mu) : mu \in entitledMeetingUsers(d)} \ {None}

round1 ==
  {MeetingKey(f) : f \in {"enable_vote_weight", "enable_vote_delegations", "forbid_delegator"}}
    \cup {GroupKey(g) : g \in poll.entitledGroupIDs}
round2(d) ==
  {MuKey(f, mu) : mu \in entitledMeetingUsers(d),
                  f \in {"user_id", "group_ids", "vote_weight", "delegated_to", "meeting_id"}}
round3(d) == {MuKey(f, mu) : mu \in delegates(d), f \in {"user_id", "meeting_id"}}
round4(d) ==
  {UserKey(f, mu[1]) : mu \in entitledMeetingUsers(d),
                       f \in {"default_vote_weight", "meeting_user_ids", "is_present"}}
    \cup {UserKey(f, mu[1]) : mu \in delegates(d), f \in {"meeting_user_ids", "is_present"}}

\* Mutant: the third round does not ask for the meetings of the delegates.
preloadNoMeeting(d) ==
  round1 \cup round2(d) \cup {MuKey("user_id", mu) : mu \in delegates(d)} \cup round4(d)

preload(d) == round1 \cup round2(d) \cup round3(d) \cup round4(d)

\* Start fails for a poll that does not exist and for an analog one.  A second
\* Start would only fetch again.
Start ==
  /\ pc \in {"idle", "backend"} /\ pollState = "unknown"
  /\ poll.exists /\ poll.type # "analog"
  /\ cached' = cached \cup {PollKey} \cup preload(ds)
  /\ pollState' = "started"
  /\ UNCHANGED <<poll, ds, budget, votes, live, pc, body, local, result, answer, history>>

Stop ==
  /\ pc = "backend" /\ pollState = "started"
  /\ pollState' = "stopped"
  /\ UNCHANGED <<poll, ds, budget, votes, live, cached, pc, body, local, result, answer, history>>

\* Clear and ClearAll in the backend.
Clear ==
  /\ pc = "backend" /\ pollState # "unknown" /\ budget > 0
  /\ pollState' = "unknown"
  /\ votes' = NoVotes
  /\ budget' = budget - 1
  /\ UNCHANGED <<poll, ds, live, cached, pc, body, local, result, answer, history>>
-----------------------------------------------------------------------------
(***************************************************************************)
(* Vote.                                                                   *)
(***************************************************************************)
environment == <<poll, ds, budget, cached, body, answer>>

Goto(label, newLocal, keys) ==
  /\ pc' = label
  /\ local' = newLocal
  /\ fetched' = fetched \cup keys
  /\ UNCHANGED <<result, seen, warm>>

Return(kind) ==
  /\ pc' = "idle"
  /\ result' = kind
  /\ local' = [NoLocal EXCEPT !.voteUser = local.voteUser]
  /\ fetched' = {}
  /\ UNCHANGED <<seen, warm>>

Vote ==
  /\ pc = "idle" /\ result = "none"
  /\ seen' = {ds} /\ warm' = cached
  /\ IF poll.exists
     THEN pc' = "ensurePresent" /\ fetched' = {PollKey} /\ UNCHANGED result
     ELSE pc' = "idle" /\ result' = "not-exist" /\ UNCHANGED fetched
  /\ UNCHANGED <<environment, backendVars, local>>

ensurePresent ==
  /\ pc = "ensurePresent"
  /\ IF Requester \in ds.present
     THEN Goto("decode", local, {UserKey("is_present", Requester)})
     ELSE Return("not-allowed")
  /\ UNCHANGED <<environment, backendVars>>

\* Mutant: to vote for no one is an invalid ballot, not a forbidden one.
decodeNoOne ==
  LET userID == maybeInt(body.userID)
      voteUser == IF userID.unmarshalled THEN userID.value ELSE Requester
  IN
  /\ pc = "decode"
  /\ IF ~DecodableUser(body.userID) \/ ~Decodable(body.value) THEN Return("invalid")
     ELSE IF voteUser = 0 THEN Return("invalid")
     ELSE Goto("voteMeetingUsers", [local EXCEPT !.voteUser = voteUser], {})
  /\ UNCHANGED <<environment, backendVars>>

decode ==
  LET userID == maybeInt(body.userID)
      voteUser == IF userID.unmarshalled THEN userID.value ELSE Requester
  IN
  /\ pc = "decode"
  /\ IF ~DecodableUser(body.userID) \/ ~Decodable(body.value) THEN Return("invalid")
     ELSE IF voteUser = 0 THEN Return("not-allowed")
     ELSE Goto("voteMeetingUsers", [local EXCEPT !.voteUser = voteUser], {})
  /\ UNCHANGED <<environment, backendVars>>

\* getMeetingUser: first the meeting users of the user, then their meetings.  A
\* meeting user that has gone in between has none.
getMeetingUserIDs(user, from, to) ==
  /\ pc = from
  /\ Goto(to, [local EXCEPT !.mus = meeting_user_ids(ds, user)],
          {UserKey("meeting_user_ids", user)})

meetingUserIn == {mu \in local.mus \cap ds.members : mu[2] = poll.meeting}
meetingKeys == {MuKey("meeting_id", mu) : mu \in local.mus}

voteMeetingUserIDs ==
  /\ getMeetingUserIDs(local.voteUser, "voteMeetingUsers", "voteMeetings")
  /\ UNCHANGED <<environment, backendVars>>

voteMeetings ==
  /\ pc = "voteMeetings"
  /\ \/ meetingUserIn = {} /\ Return("not-allowed")
     \/ \E mu \in meetingUserIn :
          Goto("groups", [local EXCEPT !.voteMeetingUser = mu], meetingKeys)
  /\ UNCHANGED <<environment, backendVars>>

equalElement(g1, g2) == g1 \cap g2 # {}

\* ensureVoteUser, from here to ensureDelegate.
ensureGroup ==
  /\ pc = "groups"
  /\ IF equalElement(group_ids(ds, local.voteMeetingUser), poll.entitledGroupIDs)
     THEN Goto("activated", local, {MuKey("group_ids", local.voteMeetingUser)})
     ELSE Return("not-allowed")
  /\ UNCHANGED <<environment, backendVars>>

delegationActivated ==
  /\ pc = "activated"
  /\ Goto("forbid", [local EXCEPT !.activated = ds.delegations],
          {MeetingKey("enable_vote_delegations")})
  /\ UNCHANGED <<environment, backendVars>>

forbidDelegatorToVote ==
  /\ pc = "forbid"
  /\ Goto("delegation", [local EXCEPT !.forbid = ds.forbid], {MeetingKey("forbid_delegator")})
  /\ UNCHANGED <<environment, backendVars>>

\* Mutant: the setting that forbids delegators to vote is not looked at.
ensureSelfUnforbidden ==
  LET to == vote_delegated_to_id(ds, local.voteMeetingUser)
      keys == {MuKey("delegated_to", local.voteMeetingUser)}
      self == local.voteUser = Requester
  IN
  /\ pc = "delegation"
  /\ IF self THEN Goto("validate", local, keys)
     ELSE IF ~local.activated THEN Return("not-allowed")
     ELSE Goto("requestMeetingUsers", [local EXCEPT !.delegation = to], keys)
  /\ UNCHANGED <<environment, backendVars>>

ensureSelf ==
  LET to == vote_delegated_to_id(ds, local.voteMeetingUser)
      keys == {MuKey("delegated_to", local.voteMeetingUser)}
      self == local.voteUser = Requester
  IN
  /\ pc = "delegation"
  /\ IF self /\ local.activated /\ local.forbid /\ to # None THEN Return("not-allowed")
     ELSE IF self THEN Goto("validate", local, keys)
     ELSE IF ~local.activated THEN Return("not-allowed")
     ELSE Goto("requestMeetingUsers", [local EXCEPT !.delegation = to], keys)
  /\ UNCHANGED <<environment, backendVars>>

requestMeetingUserIDs ==
  /\ getMeetingUserIDs(Requester, "requestMeetingUsers", "requestMeetings")
  /\ UNCHANGED <<environment, backendVars>>

ensureDelegate ==
  /\ pc = "requestMeetings"
  /\ \/ meetingUserIn = {} /\ Return("not-allowed")
     \/ \E mu \in meetingUserIn :
          IF local.delegation = mu
          THEN Goto("validate", local, meetingKeys)
          ELSE Return("not-allowed")
  /\ UNCHANGED <<environment, backendVars>>

Validate ==
  LET v == UnmarshalJSON(body.value) IN
  /\ pc = "validate"
  /\ \E order \in VisitOrders(v) :
       IF validate(poll, v, order)
       THEN Goto("weight", local, {})
       ELSE Return("invalid")
  /\ UNCHANGED <<environment, backendVars>>

\* A weight of zero is no weight.
voteWeight(d, mu) ==
  LET weight == IF d.weighted THEN Default(vote_weight(d, mu), d.defaultWeight[mu[1]]) ELSE 0
  IN Default(weight, 1)

Weight ==
  /\ pc = "weight"
  /\ Goto("backend", [local EXCEPT !.weight = voteWeight(ds, local.voteMeetingUser)],
          {MeetingKey("enable_vote_weight"), MuKey("vote_weight", local.voteMeetingUser),
           UserKey("default_vote_weight", local.voteUser)})
  /\ UNCHANGED <<environment, backendVars>>

\* Mutant: the users are left out of pseudoanonymous polls as long as the
\* requester votes for themselves.
voteDataDelegated ==
  LET named == poll.type = "named" \/ local.voteUser # Requester IN
  [requestUser |-> IF named THEN Requester ELSE 0,
   voteUser |-> IF named THEN local.voteUser ELSE 0,
   value |-> body.value,
   weight |-> local.weight]

\* The users are zero, which leaves them out of the object, unless the poll is
\* named.
voteData ==
  [requestUser |-> IF poll.type = "named" THEN Requester ELSE 0,
   voteUser |-> IF poll.type = "named" THEN local.voteUser ELSE 0,
   value |-> body.value,
   weight |-> local.weight]

\* A map with the entry of one key set.
Entered(f, u, x) == [v \in DOMAIN f \cup {u} |-> IF v = u THEN x ELSE f[v]]

\* The backend turns the vote down or saves it.  Any other error, before or after
\* the vote was saved, is passed on without a type.  The postgres backend returns
\* no error either when the context was done before its first try.
BackendVote ==
  LET save == Entered(votes, local.voteUser, voteData)
      accepted == pollState = "started" /\ local.voteUser \notin DOMAIN votes
  IN
  /\ pc = "backend"
  /\ \/ /\ ~accepted
        /\ Return(CASE pollState = "unknown" -> "not-exist"
                    [] pollState = "stopped" -> "stopped"
                    [] OTHER -> "double-vote")
        /\ UNCHANGED votes
     \/ accepted /\ votes' = save /\ Goto("live", local, {})
     \/ accepted /\ votes' = save /\ Return("error")
     \/ UNCHANGED votes /\ Return("error")
     \/ UNCHANGED votes /\ Goto("live", local, {})
  /\ UNCHANGED <<environment, pollState, live>>

\* Mutant: the entry is that of the user in the object.
LiveVoteOfObject ==
  /\ pc = "live"
  /\ live' = live \cup {voteData.voteUser}
  /\ Return("ok")
  /\ UNCHANGED <<environment, pollState, votes>>

LiveVote ==
  /\ pc = "live"
  /\ live' = live \cup {local.voteUser}
  /\ Return("ok")
  /\ UNCHANGED <<environment, pollState, votes>>

\* The vote of the same user that another request has saved before.
OtherVote ==
  /\ pc = "backend" /\ pollState = "started"
  /\ local.voteUser \notin DOMAIN votes
  /\ votes' = Entered(votes, local.voteUser, voteData)
  /\ UNCHANGED <<environment, pollState, live, pc, local, result, history>>

\* The other writers of liveVotes: the requests of other users, loadVoted, which
\* replaces it by what it has read some time ago, and Clear and ClearAll.
WriteLiveVotes ==
  /\ pc = "userIDs" /\ budget > 0
  /\ \E written \in SUBSET Users : written # live /\ live' = written
  /\ budget' = budget - 1
  /\ UNCHANGED <<poll, ds, cached, body, answer, pollState, votes, pc, local, result, history>>
-----------------------------------------------------------------------------
(***************************************************************************)
(* Voted: the users of whom the requester may know, then liveVotes.        *)
(***************************************************************************)
Voted ==
  /\ pc = "idle" /\ result # "none"
  /\ seen' = {ds} /\ warm' = cached
  /\ pc' = "delegationsFrom"
  /\ local' = [local EXCEPT !.mus = meeting_user_ids(ds, Requester)]
  /\ UNCHANGED <<environment, backendVars, result, fetched>>

\* Mutant: those the user has delegated to.
delegationsTo ==
  /\ pc = "delegationsFrom"
  /\ pc' = "userIDs"
  /\ local' = [local EXCEPT !.mus = {vote_delegated_to_id(ds, mu) : mu \in @} \ {None}]
  /\ UNCHANGED <<environment, backendVars, result, history>>

\* The delegations in all meetings of the user.
delegationsFrom ==
  /\ pc = "delegationsFrom"
  /\ pc' = "userIDs"
  /\ local' = [local EXCEPT !.mus = UNION {vote_delegations_from_ids(ds, mu) : mu \in @}]
  /\ UNCHANGED <<environment, backendVars, result, history>>

\* The user ids of the delegations, and under the lock those of them that have
\* voted.
votedUserIDs ==
  LET requested == {Requester} \cup {mu[1] : mu \in local.mus \cap ds.members} IN
  /\ pc = "userIDs"
  /\ pc' = "idle"
  /\ answer' = live \cap requested
  /\ local' = [local EXCEPT !.mus = {}]
  /\ UNCHANGED <<poll, ds, budget, cached, body, backendVars, result, history>>

Step ==
  \/ ensurePresent \/ decode \/ voteMeetingUserIDs \/ voteMeetings
  \/ ensureGroup \/ delegationActivated \/ forbidDelegatorToVote \/ ensureSelf
  \/ requestMeetingUserIDs \/ ensureDelegate
  \/ Validate \/ Weight \/ BackendVote \/ LiveVote
  \/ delegationsFrom \/ votedUserIDs

Next ==
  \/ Vote \/ Voted \/ Step
  \/ Start \/ Stop \/ Clear \/ OtherVote \/ WriteLiveVotes \/ Change

Spec == Init /\ [][Next]_vars
-----------------------------------------------------------------------------
TypeOK ==
  /\ ds \in Datastore /\ budget \in Nat
  /\ pollState \in {"unknown", "started", "stopped"}
  /\ DOMAIN votes \subseteq Users /\ live \subseteq Users
  /\ pc \in {"idle", "ensurePresent", "decode", "voteMeetingUsers", "voteMeetings", "groups",
             "activated", "forbid", "delegation", "requestMeetingUsers", "requestMeetings",
             "validate", "weight", "backend", "live", "delegationsFrom", "userIDs"}
  /\ local \in [voteUser : Int, voteMeetingUser : MeetingUsers \cup {None},
                mus : SUBSET MeetingUsers, activated : BOOLEAN, forbid : BOOLEAN,
                delegation : MeetingUsers \cup {None}, weight : Int]
  /\ result \in {"none", "ok", "not-exist", "not-allowed", "invalid", "double-vote", "stopped",
                "error"}
  /\ answer \subseteq Users

(***************************************************************************)
(* Who may vote, said of one state of the datastore: a user who is present *)
(* may vote as a member of an entitled group, unless the meeting forbids   *)
(* it to those who have delegated their vote, and for a member of such a   *)
(* group that has delegated to them.                                       *)
(***************************************************************************)
Entitled(d, user) ==
  group_ids(d, <<user, poll.meeting>>) \cap poll.entitledGroupIDs # {}
DelegatedTo(d, user) == vote_delegated_to_id(d, <<user, poll.meeting>>)

MayVote(d, user) ==
  /\ Requester \in d.present
  /\ Entitled(d, user)
  /\ IF user = Requester
     THEN ~(d.delegations /\ d.forbid /\ DelegatedTo(d, user) # None)
     ELSE d.delegations /\ DelegatedTo(d, user) = <<Requester, poll.meeting>>

VoteFor ==
  IF body.userID.kind = "absent" THEN Requester ELSE Number(body.userID)

\* The payload can be decoded and its ballot fits the poll.
Fits == DecodableUser(body.userID) /\ ValidBallot(poll, body.value)

Acceptable(d) == poll.exists /\ Fits /\ VoteFor \in Users /\ MayVote(d, VoteFor)

VoteReturns == result' # result

\* Each requirement of MayVote was met at some time during the request.
MetInTurn ==
  /\ \E d \in seen : Requester \in d.present
  /\ \E d \in seen : Entitled(d, VoteFor)
  /\ IF VoteFor = Requester
     THEN \E d \in seen : ~d.delegations \/ ~d.forbid \/ DelegatedTo(d, VoteFor) = None
     ELSE /\ \E d \in seen : d.delegations
          /\ \E d \in seen : DelegatedTo(d, VoteFor) = <<Requester, poll.meeting>>

\* Some requirement was not met at some time; for users who have delegated their
\* own vote it takes two settings and the delegation.
Missed ==
  \/ VoteFor \notin Users
  \/ \E d \in seen : Requester \notin d.present \/ ~Entitled(d, VoteFor)
  \/ IF VoteFor = Requester
     THEN /\ \E d \in seen : d.delegations
          /\ \E d \in seen : d.forbid
          /\ \E d \in seen : DelegatedTo(d, VoteFor) # None
     ELSE \E d \in seen : ~d.delegations \/ DelegatedTo(d, VoteFor) # <<Requester, poll.meeting>>

\* However often the datastore changes while Vote reads it value by value: an
\* accepted vote met every requirement at some time during the request, a vote
\* is forbidden only if some requirement was not met at some time, and whether
\* it is invalid depends on the payload and the poll alone, whatever the order of
\* the map in which validate looks at the ballot.
ChecksHeld ==
  [][VoteReturns =>
       /\ result' = "ok" => poll.exists /\ Fits /\ MetInTurn
       /\ result' = "not-allowed" => Missed
       /\ result' = "invalid" => ~Fits]_vars

\* As long as the datastore changes only once during the request, the verdict is
\* that of the state before or of the state after the change, although Vote may
\* have read some values before and some after it.  The fields of a meeting user
\* that goes away disappear together, so that Vote may have seen some of them
\* and not the others: a change of the members is the exception.
VerdictOfSomeState ==
  [][VoteReturns /\ (\E d \in seen : seen \subseteq {d, ds} /\ d.members = ds.members) =>
       /\ result' = "ok" => \E d \in seen : Acceptable(d)
       /\ result' \in {"not-allowed", "invalid"} => \E d \in seen : ~Acceptable(d)]_vars

elsewhere == {mu \in MeetingUsers : mu[2] # poll.meeting}

\* An accepted vote reads nothing that Start has not put into the cache, as long
\* as the datastore stays as it was, but for one key that preload leaves out: the
\* meeting_id of the voter's and the delegate's meeting users elsewhere.
PreloadCovers ==
  [][VoteReturns /\ result' = "ok"
      /\ seen = {ds} /\ warm = {PollKey} \cup preload(ds)
     => fetched \subseteq warm \cup {MuKey("meeting_id", mu) : mu \in elsewhere}]_vars

\* The first weight that is not zero: of the meeting user, of the user, one.
WeightOf(d, u) ==
  LET weights == IF d.weighted THEN <<vote_weight(d, <<u, poll.meeting>>), d.defaultWeight[u], 1>>
                 ELSE <<1>>
  IN weights[CHOOSE i \in DOMAIN weights : weights[i] # 0 /\ \A j \in 1 .. i - 1 : weights[j] = 0]

\* The saved object holds the ballot as it was sent and the weight of the user
\* it counts for, not of the delegate, in some state of the datastore, also when
\* that user has left the meeting by then; and the object itself names neither
\* of them unless the poll is named.
SavedObject ==
  [][\A u \in DOMAIN votes' \ DOMAIN votes :
       /\ u = VoteFor
       /\ votes'[u].value = body.value
       /\ votes'[u].weight \in {WeightOf(d, u) : d \in seen}
       /\ poll.type # "named" => votes'[u].requestUser = 0 /\ votes'[u].voteUser = 0]_vars

delegators(d) ==
  {mu[1] : mu \in UNION {vote_delegations_from_ids(d, x) : x \in meeting_user_ids(d, Requester)}}

\* A delegation to the requester that has stood all the time.
stands(u, m) == \A d \in seen : vote_delegated_to_id(d, <<u, m>>) = <<Requester, m>>
standing(u) == \E m \in Meetings : stands(u, m)

\* Voted tells of no one but the requester and those who had delegated to them
\* at some time while it ran; and of them it leaves out none that liveVotes holds
\* when it answers, whose delegation has stood all the time, whatever has been
\* written to liveVotes meanwhile and however the delegations of others change.
VotedAnswers ==
  [][pc = "userIDs" /\ pc' = "idle" =>
       /\ answer' \subseteq live \cap ({Requester} \cup UNION {delegators(d) : d \in seen})
       /\ \A u \in live : u = Requester \/ standing(u) => u \in answer']_vars
=============================================================================
