------------------------- MODULE VoteRequestProofs -------------------------
(***************************************************************************)
(* A vote request and the Voted request after it, for any users, meetings, *)
(* groups, polls, datastores and payloads, however often the datastore     *)
(* changes while they read it.                                             *)
(*                                                                         *)
(* Vote reads the datastore value by value, so that no state need hold     *)
(* all it has read.  The invariant says of each value that Vote keeps, and *)
(* of each check it has passed, that it was so in some state of the        *)
(* datastore since the request began (Known); of what Voted has found out  *)
(* that it was so in some state, and that a delegation which stood all the *)
(* time is among it (Told); and that two states which are the only ones    *)
(* differ in one field (Adjacent).  The verdicts follow from what is known *)
(* at the step that returns.                                               *)
(***************************************************************************)
EXTENDS VoteRequest, BallotProofs

\* The steps of Vote, those after the payload is decoded, after the meeting user
\* is found, those of the delegate's check and those after ensureVoteUser.
InVote ==
  {"ensurePresent", "decode", "voteMeetingUsers", "voteMeetings", "groups", "activated",
   "forbid", "delegation", "requestMeetingUsers", "requestMeetings", "validate", "weight",
   "backend", "live"}
Decoded == InVote \ {"ensurePresent", "decode"}
Found == Decoded \ {"voteMeetingUsers", "voteMeetings"}
Delegating == {"requestMeetingUsers", "requestMeetings"}
Ensured == {"validate", "weight", "backend", "live"}

\* Every key that Vote may have read.
ReadKeys ==
  {PollKey, UserKey("is_present", Requester), UserKey("meeting_user_ids", VoteFor),
   UserKey("default_vote_weight", VoteFor)}
  \cup {MeetingKey(f) : f \in {"enable_vote_weight", "enable_vote_delegations", "forbid_delegator"}}
  \cup {MuKey(f, <<VoteFor, poll.meeting>>) : f \in {"group_ids", "delegated_to", "vote_weight"}}
  \cup {MuKey("meeting_id", mu) : mu \in {x \in MeetingUsers : x[1] = VoteFor}}
  \cup IF VoteFor = Requester THEN {}
       ELSE {UserKey("meeting_user_ids", Requester)}
              \cup {MuKey("meeting_id", mu) : mu \in {x \in MeetingUsers : x[1] = Requester}}

\* What Vote has found out was so in some state it has seen.
SeenPresent == \E d \in seen : Requester \in d.present
SeenEntitled == \E d \in seen : Entitled(d, VoteFor)
SeenDelegations == \E d \in seen : d.delegations
SeenDelegation ==
  IF VoteFor = Requester
  THEN \E d \in seen : ~d.delegations \/ ~d.forbid \/ DelegatedTo(d, VoteFor) = None
  ELSE /\ SeenDelegations
       /\ \E d \in seen : DelegatedTo(d, VoteFor) = <<Requester, poll.meeting>>

VoterMus == \E d \in seen : local.mus = meeting_user_ids(d, VoteFor)
RequesterMus == \E d \in seen : local.mus = meeting_user_ids(d, Requester)
ReadActivated == \E d \in seen : local.activated = d.delegations
ReadForbid == \E d \in seen : local.forbid = d.forbid
ReadDelegation == \E d \in seen : local.delegation = DelegatedTo(d, VoteFor)
ReadWeight == \E d \in seen : local.weight = voteWeight(d, <<VoteFor, poll.meeting>>)
IsVoter == local.voteMeetingUser = <<VoteFor, poll.meeting>> /\ VoteFor \in Users
Unpacked == DecodableUser(body.userID) /\ Decodable(body.value)
Valid == ValidBallot(poll, body.value)

Given ==
  /\ PollType(poll) /\ JSON(body.userID) /\ JSON(body.value)
  /\ ds \in seen /\ seen \subseteq Datastore

\* What is known at each step of Vote.
Known ==
  /\ pc \in InVote => result = "none" /\ poll.exists /\ fetched \subseteq ReadKeys
  /\ pc \in InVote \ {"ensurePresent"} => SeenPresent
  /\ pc \in Decoded => Unpacked /\ local.voteUser = VoteFor
  /\ pc = "voteMeetings" => VoterMus
  /\ pc \in Found => IsVoter
  /\ pc \in Found \ {"groups"} => SeenEntitled
  /\ pc \in {"forbid", "delegation"} => ReadActivated
  /\ pc = "delegation" => ReadForbid
  /\ pc \in Delegating => VoteFor # Requester /\ SeenDelegations /\ ReadDelegation
  /\ pc = "requestMeetings" => RequesterMus
  /\ pc \in Ensured => SeenDelegation
  /\ pc \in Ensured \ {"validate"} => Valid
  /\ pc \in {"backend", "live"} => ReadWeight

\* What Voted has found out.
Told ==
  /\ pc = "delegationsFrom" => RequesterMus
  /\ pc = "userIDs" =>
       /\ \A mu \in local.mus : \E d \in seen : mu[1] \in delegators(d)
       /\ \A u \in Users, m \in Meetings : stands(u, m) => <<u, m>> \in local.mus

\* The states differ in one field at most.
Near(d, e) ==
  \E f \in {"present", "members", "groups", "delegate", "delegations", "forbid", "weighted"} :
    /\ f # "present" => d.present = e.present
    /\ f # "members" => d.members = e.members
    /\ f # "groups" => d.groups = e.groups
    /\ f # "delegate" => d.delegate = e.delegate
    /\ f # "delegations" => d.delegations = e.delegations
    /\ f # "forbid" => d.forbid = e.forbid

\* Two states that are the only ones are one change apart.
Adjacent == \A d \in seen : seen \subseteq {d, ds} => Near(d, ds)

Inv == TypeOK /\ Given /\ Known /\ Told /\ Adjacent
-----------------------------------------------------------------------------
\* No meeting user is None.
LEMMA NoneIsNone == None \notin MeetingUsers
BY DEF None, MeetingUsers

LocalType ==
  [voteUser : Int, voteMeetingUser : MeetingUsers \cup {None},
   mus : SUBSET MeetingUsers, activated : BOOLEAN, forbid : BOOLEAN,
   delegation : MeetingUsers \cup {None}, weight : Int]

\* Setting one local variable of the request keeps the types and the others.
LEMMA SetVoteUser ==
  ASSUME NEW l \in LocalType, NEW x \in Int
  PROVE  [l EXCEPT !.voteUser = x] \in LocalType /\ [l EXCEPT !.voteUser = x].voteUser = x
BY DEF LocalType

\* The same for mus.
LEMMA SetMus ==
  ASSUME NEW l \in LocalType, NEW x \in SUBSET MeetingUsers
  PROVE  LET n == [l EXCEPT !.mus = x] IN
         /\ n \in LocalType /\ n.mus = x
         /\ n.voteUser = l.voteUser /\ n.voteMeetingUser = l.voteMeetingUser
         /\ n.delegation = l.delegation
BY DEF LocalType

\* The same for voteMeetingUser.
LEMMA SetMeetingUser ==
  ASSUME NEW l \in LocalType, NEW x \in MeetingUsers
  PROVE  LET n == [l EXCEPT !.voteMeetingUser = x] IN
         n \in LocalType /\ n.voteMeetingUser = x /\ n.voteUser = l.voteUser
BY DEF LocalType

\* The same for activated.
LEMMA SetActivated ==
  ASSUME NEW l \in LocalType, NEW x \in BOOLEAN
  PROVE  LET n == [l EXCEPT !.activated = x] IN
         /\ n \in LocalType /\ n.activated = x
         /\ n.voteUser = l.voteUser /\ n.voteMeetingUser = l.voteMeetingUser
BY DEF LocalType

\* The same for forbid.
LEMMA SetForbid ==
  ASSUME NEW l \in LocalType, NEW x \in BOOLEAN
  PROVE  LET n == [l EXCEPT !.forbid = x] IN
         /\ n \in LocalType /\ n.forbid = x
         /\ n.voteUser = l.voteUser /\ n.voteMeetingUser = l.voteMeetingUser
         /\ n.activated = l.activated
BY DEF LocalType

\* The same for delegation.
LEMMA SetDelegation ==
  ASSUME NEW l \in LocalType, NEW x \in MeetingUsers \cup {None}
  PROVE  LET n == [l EXCEPT !.delegation = x] IN
         /\ n \in LocalType /\ n.delegation = x
         /\ n.voteUser = l.voteUser /\ n.voteMeetingUser = l.voteMeetingUser
BY DEF LocalType

\* The same for weight.
LEMMA SetWeight ==
  ASSUME NEW l \in LocalType, NEW x \in Int
  PROVE  LET n == [l EXCEPT !.weight = x] IN
         /\ n \in LocalType /\ n.weight = x
         /\ n.voteUser = l.voteUser /\ n.voteMeetingUser = l.voteMeetingUser
BY DEF LocalType

\* The cleared local variables have their types.
LEMMA ClearLocal == NoLocal \in LocalType
BY DEF LocalType, NoLocal

\* The types of the datastore's values.
LEMMA FieldTypes ==
  ASSUME NEW d \in Datastore
  PROVE  /\ d.present \subseteq Users /\ d.members \subseteq MeetingUsers
         /\ d.groups \in [MeetingUsers -> SUBSET Groups]
         /\ d.delegate \in [MeetingUsers -> MeetingUsers \cup {None}]
         /\ d.delegations \in BOOLEAN /\ d.forbid \in BOOLEAN /\ d.weighted \in BOOLEAN
         /\ d.weight \in [MeetingUsers -> Int] /\ d.defaultWeight \in [Users -> Int]
BY DEF Datastore

\* Every change leads to a datastore that differs in one field only.
LEMMA ChangesAreNear ==
  ASSUME ds \in Datastore, PollType(poll), Change
  PROVE  ds' \in Datastore /\ Near(ds, ds')
<1>1. CASE ds' = [ds EXCEPT !.delegations = ~@]
  <2>1. ds' \in Datastore
    BY <1>1, FieldTypes DEF Datastore
  <2>2. /\ ds'.present = ds.present /\ ds'.members = ds.members /\ ds'.groups = ds.groups
        /\ ds'.delegate = ds.delegate /\ ds'.forbid = ds.forbid
    BY <1>1 DEF Datastore
  <2> QED
    BY <2>1, <2>2 DEF Near
<1>2. CASE ds' = [ds EXCEPT !.forbid = ~@]
  <2>1. ds' \in Datastore
    BY <1>2, FieldTypes DEF Datastore
  <2>2. /\ ds'.present = ds.present /\ ds'.members = ds.members /\ ds'.groups = ds.groups
        /\ ds'.delegate = ds.delegate /\ ds'.delegations = ds.delegations
    BY <1>2 DEF Datastore
  <2> QED
    BY <2>1, <2>2 DEF Near
<1>3. CASE ds' = [ds EXCEPT !.weighted = ~@]
  <2>1. ds' \in Datastore
    BY <1>3, FieldTypes DEF Datastore
  <2>2. /\ ds'.present = ds.present /\ ds'.members = ds.members /\ ds'.groups = ds.groups
        /\ ds'.delegate = ds.delegate /\ ds'.delegations = ds.delegations /\ ds'.forbid = ds.forbid
    BY <1>3 DEF Datastore
  <2> QED
    BY <2>1, <2>2 DEF Near
<1>4. CASE ds' = [ds EXCEPT !.present = SymDiff(@, {Requester})]
  <2>1. SymDiff(ds.present, {Requester}) \in SUBSET Users
    BY FieldTypes, UsersAssumption DEF SymDiff
  <2>2. ds' \in Datastore
    BY <1>4, <2>1 DEF Datastore
  <2>3. /\ ds'.members = ds.members /\ ds'.groups = ds.groups /\ ds'.delegate = ds.delegate
        /\ ds'.delegations = ds.delegations /\ ds'.forbid = ds.forbid
    BY <1>4 DEF Datastore
  <2> QED
    BY <2>2, <2>3 DEF Near
<1>5. ASSUME NEW mu \in MeetingUsers, ds' = [ds EXCEPT !.members = SymDiff(@, {mu})]
      PROVE  ds' \in Datastore /\ Near(ds, ds')
  <2>1. SymDiff(ds.members, {mu}) \in SUBSET MeetingUsers
    BY FieldTypes DEF SymDiff
  <2>2. ds' \in Datastore
    BY <1>5, <2>1 DEF Datastore
  <2>3. /\ ds'.present = ds.present /\ ds'.groups = ds.groups /\ ds'.delegate = ds.delegate
        /\ ds'.delegations = ds.delegations /\ ds'.forbid = ds.forbid
    BY <1>5 DEF Datastore
  <2> QED
    BY <2>2, <2>3 DEF Near
<1>6. ASSUME NEW mu \in MeetingUsers, NEW g \in poll.entitledGroupIDs,
             ds' = [ds EXCEPT !.groups[mu] = SymDiff(@, {g})]
      PROVE  ds' \in Datastore /\ Near(ds, ds')
  <2>1. ds.groups \in [MeetingUsers -> SUBSET Groups] /\ g \in Groups
    BY FieldTypes DEF PollType
  <2> DEFINE groups == [ds.groups EXCEPT ![mu] = SymDiff(@, {g})]
  <2>2. groups \in [MeetingUsers -> SUBSET Groups]
    BY <2>1 DEF SymDiff
  <2>3. ds' = [ds EXCEPT !.groups = groups]
    BY <1>6
  <2> HIDE DEF groups
  <2>4. ds' \in Datastore
    BY <2>2, <2>3 DEF Datastore
  <2>5. /\ ds'.present = ds.present /\ ds'.members = ds.members /\ ds'.delegate = ds.delegate
        /\ ds'.delegations = ds.delegations /\ ds'.forbid = ds.forbid
    BY <2>3 DEF Datastore
  <2> QED
    BY <2>4, <2>5 DEF Near
<1>7. ASSUME NEW mu \in MeetingUsers, NEW to \in {None} \cup Colleagues(mu),
             ds' = [ds EXCEPT !.delegate[mu] = to]
      PROVE  ds' \in Datastore /\ Near(ds, ds')
  <2>1. ds.delegate \in [MeetingUsers -> MeetingUsers \cup {None}] /\ to \in MeetingUsers \cup {None}
    BY FieldTypes DEF Colleagues
  <2> DEFINE delegate == [ds.delegate EXCEPT ![mu] = to]
  <2>2. delegate \in [MeetingUsers -> MeetingUsers \cup {None}]
    BY <2>1
  <2>3. ds' = [ds EXCEPT !.delegate = delegate]
    BY <1>7
  <2> HIDE DEF delegate
  <2>4. ds' \in Datastore
    BY <2>2, <2>3 DEF Datastore
  <2>5. /\ ds'.present = ds.present /\ ds'.members = ds.members /\ ds'.groups = ds.groups
        /\ ds'.delegations = ds.delegations /\ ds'.forbid = ds.forbid
    BY <2>3 DEF Datastore
  <2> QED
    BY <2>4, <2>5 DEF Near
<1> QED
  BY <1>1, <1>2, <1>3, <1>4, <1>5, <1>6, <1>7 DEF Change

\* The user a vote is for is a number, whatever the payload holds.
LEMMA VoteForType ==
  ASSUME Given PROVE VoteFor \in Int
<1>1. CASE body.userID.kind = "absent"
  BY <1>1, UsersAssumption DEF VoteFor
<1>2. CASE body.userID.kind = "int"
  <2>1. body.userID.int \in Int
    BY <1>2 DEF Given, JSON, JScalars, JNull, JOther, JAbsent, JObject
  <2> QED
    BY <1>2, <2>1 DEF VoteFor, Number
<1>3. CASE body.userID.kind \notin {"absent", "int"}
  BY <1>3 DEF VoteFor, Number
<1> QED
  BY <1>1, <1>2, <1>3

\* The invariant holds at the beginning.
THEOREM Initially == Init => Inv
<1> SUFFICES ASSUME Init PROVE Inv
  OBVIOUS
<1> USE DEF Init
<1>1. PICK s \in Scenarios : poll = s.poll /\ ds = s.ds /\ body = s.body /\ budget = s.budget
  OBVIOUS
<1>2. Given /\ budget \in Nat
  BY <1>1, ScenariosAssumption DEF Given
<1>3. TypeOK
  <2>1. local \in LocalType
    BY ClearLocal
  <2> QED
    BY <1>2, <2>1 DEF TypeOK, Given, NoVotes, LocalType
<1>4. Known
  BY DEF Known, InVote, Decoded, Found, Delegating, Ensured
<1>5. Told
  BY DEF Told
<1>6. Adjacent
  BY DEF Adjacent, Near
<1> QED
  BY <1>2, <1>3, <1>4, <1>5, <1>6 DEF Inv
-----------------------------------------------------------------------------
(***************************************************************************)
(* The steps.                                                              *)
(***************************************************************************)
\* What has been seen stays seen.
LEMMA Stays ==
  ASSUME UNCHANGED <<poll, body>>, seen \subseteq seen'
  PROVE  /\ VoteFor' = VoteFor /\ ReadKeys' = ReadKeys
         /\ Unpacked' = Unpacked /\ Valid' = Valid
         /\ SeenPresent => SeenPresent'
         /\ SeenEntitled => SeenEntitled'
         /\ SeenDelegations => SeenDelegations'
         /\ SeenDelegation => SeenDelegation'
         /\ local'.mus = local.mus =>
              (VoterMus => VoterMus') /\ (RequesterMus => RequesterMus')
         /\ local'.activated = local.activated => (ReadActivated => ReadActivated')
         /\ local'.forbid = local.forbid => (ReadForbid => ReadForbid')
         /\ local'.delegation = local.delegation => (ReadDelegation => ReadDelegation')
         /\ local'.weight = local.weight => (ReadWeight => ReadWeight')
         /\ local'.voteMeetingUser = local.voteMeetingUser => (IsVoter => IsVoter')
<1>1. VoteFor' = VoteFor
  BY DEF VoteFor, Number
<1>2. ReadKeys' = ReadKeys
  BY <1>1 DEF ReadKeys
<1>3. Unpacked' = Unpacked /\ Valid' = Valid
  BY DEF Unpacked, Valid
<1>4. SeenPresent => SeenPresent'
  BY DEF SeenPresent
<1>5. SeenEntitled => SeenEntitled'
  BY <1>1 DEF SeenEntitled, Entitled
<1>6. SeenDelegations => SeenDelegations'
  BY DEF SeenDelegations
<1>7. SeenDelegation => SeenDelegation'
  BY <1>1, <1>6 DEF SeenDelegation, DelegatedTo
<1>8. local'.mus = local.mus => (VoterMus => VoterMus') /\ (RequesterMus => RequesterMus')
  BY <1>1 DEF VoterMus, RequesterMus
<1>9. local'.activated = local.activated => (ReadActivated => ReadActivated')
  BY DEF ReadActivated
<1>10. local'.forbid = local.forbid => (ReadForbid => ReadForbid')
  BY DEF ReadForbid
<1>11. local'.delegation = local.delegation => (ReadDelegation => ReadDelegation')
  BY <1>1 DEF ReadDelegation, DelegatedTo
<1>12. local'.weight = local.weight => (ReadWeight => ReadWeight')
  BY <1>1 DEF ReadWeight
<1>13. local'.voteMeetingUser = local.voteMeetingUser => (IsVoter => IsVoter')
  BY <1>1 DEF IsVoter
<1> QED
  BY <1>1, <1>2, <1>3, <1>4, <1>5, <1>6, <1>7, <1>8, <1>9, <1>10, <1>11, <1>12, <1>13

\* What is known stays known as long as the request does not go on.
LEMMA KnownStays ==
  ASSUME Known, UNCHANGED <<poll, body, local, pc, result, fetched>>, seen \subseteq seen'
  PROVE  Known'
<1>1. /\ VoteFor' = VoteFor /\ ReadKeys' = ReadKeys
      /\ Unpacked' = Unpacked /\ Valid' = Valid
      /\ SeenPresent => SeenPresent'
      /\ SeenEntitled => SeenEntitled'
      /\ SeenDelegations => SeenDelegations'
      /\ SeenDelegation => SeenDelegation'
      /\ (VoterMus => VoterMus') /\ (RequesterMus => RequesterMus')
      /\ (ReadActivated => ReadActivated') /\ (ReadForbid => ReadForbid')
      /\ (ReadDelegation => ReadDelegation') /\ (ReadWeight => ReadWeight')
      /\ (IsVoter => IsVoter')
  BY Stays
<1> QED
  BY <1>1 DEF Known, InVote, Decoded, Found, Delegating, Ensured

\* A change of the datastore keeps the invariant: what was seen stays seen, and
\* the new state is one change away from the last.
LEMMA ChangeKeeps ==
  ASSUME Inv, Change PROVE Inv'
<1>1. UNCHANGED <<poll, body, local, pc, result, fetched, votes, live, pollState, answer>>
      /\ seen' = seen \cup {ds'}
  BY DEF Change, backendVars
<1>2. ds' \in Datastore /\ Near(ds, ds')
  BY ChangesAreNear DEF Inv, TypeOK, Given
<1>3. TypeOK'
  <2>1. budget' \in Nat
    BY DEF Change, Inv, TypeOK
  <2> QED
    BY <1>1, <1>2, <2>1 DEF Inv, TypeOK
<1>4. Given'
  BY <1>1, <1>2 DEF Inv, Given
<1>5. Known'
  BY <1>1, KnownStays DEF Inv
<1>6. Told'
  <2>1. Told
    BY DEF Inv
  <2>2. pc' = "delegationsFrom" => RequesterMus'
    BY <1>1, <2>1, Stays DEF Told
  <2>3. pc' = "userIDs" => \A mu \in local.mus : \E d \in seen' : mu[1] \in delegators(d)
    BY <1>1, <2>1 DEF Told
  <2>4. pc' = "userIDs" =>
          \A u \in Users, m \in Meetings : stands(u, m)' => <<u, m>> \in local.mus
    <3>1. ASSUME NEW u, NEW m, stands(u, m)' PROVE stands(u, m)
      BY <1>1, <3>1 DEF stands
    <3> QED
      BY <1>1, <2>1, <3>1 DEF Told
  <2> QED
    BY <1>1, <2>1, <2>2, <2>3, <2>4 DEF Told
<1>7. Adjacent'
  <2> SUFFICES ASSUME NEW d \in seen', seen' \subseteq {d, ds'} PROVE Near(d, ds')
    BY DEF Adjacent
  <2>1. ds \in seen' /\ ds' # ds
    BY <1>1 DEF Inv, Given, Change
  <2>2. d = ds
    BY <2>1
  <2> QED
    BY <1>2, <2>2
<1> QED
  BY <1>3, <1>4, <1>5, <1>6, <1>7 DEF Inv

\* The facts about a step that leads on.
LEMMA Going ==
  ASSUME Inv, pc \in InVote, NEW label \in InVote, label # "live",
         NEW l \in LocalType, NEW keys \in SUBSET ReadKeys, Goto(label, l, keys),
         UNCHANGED <<environment, backendVars>>
  PROVE  /\ UNCHANGED <<poll, body, ds, seen>> /\ pc' = label /\ local' = l
         /\ TypeOK' /\ Given' /\ Told' /\ Adjacent'
         /\ result' = "none" /\ poll'.exists /\ fetched' \subseteq ReadKeys'
<1>1. /\ UNCHANGED <<poll, body, ds, seen, budget, answer, votes, live, pollState, result>>
      /\ pc' = label /\ local' = l /\ fetched' = fetched \cup keys
  BY DEF Goto, environment, backendVars
<1>2. result = "none" /\ poll.exists /\ fetched \subseteq ReadKeys
  BY DEF Inv, Known
<1>3. TypeOK'
  BY <1>1 DEF Inv, TypeOK, LocalType, InVote
<1>4. Given' /\ Adjacent'
  BY <1>1 DEF Inv, Given, Adjacent
<1>5. Told'
  BY <1>1, <1>2 DEF Told, InVote
<1>6. ReadKeys' = ReadKeys
  BY <1>1, Stays
<1> QED
  BY <1>1, <1>2, <1>3, <1>4, <1>5, <1>6

\* A vote that is not accepted keeps the invariant, saved or not.
LEMMA ReturnEnds ==
  ASSUME Inv, NEW kind \in {"not-exist", "not-allowed", "invalid", "double-vote", "stopped", "error"},
         Return(kind), UNCHANGED <<environment, pollState, live>>, DOMAIN votes' \subseteq Users
  PROVE  Inv'
<1>1. /\ UNCHANGED <<poll, body, ds, seen, budget, answer, live, pollState>>
      /\ pc' = "idle" /\ result' = kind /\ local' = [NoLocal EXCEPT !.voteUser = local.voteUser]
  BY DEF Return, environment
<1>2. local' \in LocalType
  <2>1. local \in LocalType
    BY DEF Inv, TypeOK, LocalType
  <2>2. local.voteUser \in Int
    BY <2>1 DEF LocalType
  <2> QED
    BY <1>1, <2>2, ClearLocal, SetVoteUser
<1>3. TypeOK'
  BY <1>1, <1>2 DEF Inv, TypeOK, LocalType
<1>4. Given' /\ Adjacent'
  BY <1>1 DEF Inv, Given, Adjacent
<1>5. Known'
  BY <1>1 DEF Known, InVote, Decoded, Found, Delegating, Ensured
<1>6. Told'
  BY <1>1 DEF Told
<1> QED
  BY <1>3, <1>4, <1>5, <1>6 DEF Inv

\* A rejected vote keeps the invariant.
LEMMA ReturnKeeps ==
  ASSUME Inv, NEW kind \in {"not-exist", "not-allowed", "invalid", "double-vote", "stopped", "error"},
         Return(kind), UNCHANGED <<environment, backendVars>>
  PROVE  Inv'
<1>1. UNCHANGED <<environment, pollState, live, votes>> /\ DOMAIN votes \subseteq Users
  BY DEF backendVars, Inv, TypeOK
<1> QED
  BY <1>1, ReturnEnds

\* The step property of ChecksHeld.
Verdict ==
  VoteReturns =>
    /\ result' = "ok" => poll.exists /\ Fits /\ MetInTurn
    /\ result' = "not-allowed" => Missed
    /\ result' = "invalid" => ~Fits

\* The local variables have their types.
LEMMA LocalTyped == ASSUME Inv PROVE local \in LocalType
BY DEF Inv, TypeOK, LocalType

\* ensurePresent has seen the requester present, or misses them.
LEMMA ensurePresentKeeps ==
  ASSUME Inv, ensurePresent PROVE Inv' /\ Verdict
<1>0. pc = "ensurePresent" /\ UNCHANGED <<environment, backendVars>>
  BY DEF ensurePresent
<1>1. CASE Requester \in ds.present
  <2> DEFINE keys == {UserKey("is_present", Requester)}
  <2>1. Goto("decode", local, keys)
    BY <1>1 DEF ensurePresent
  <2>2. keys \in SUBSET ReadKeys
    BY DEF ReadKeys
  <2> HIDE DEF keys
  <2>3. /\ UNCHANGED <<poll, body, ds, seen>> /\ pc' = "decode"
        /\ TypeOK' /\ Given' /\ Told' /\ Adjacent'
        /\ result' = "none" /\ poll'.exists /\ fetched' \subseteq ReadKeys'
    BY <1>0, <2>1, <2>2, LocalTyped, Going DEF InVote
  <2>4. SeenPresent'
    BY <1>1, <2>3 DEF SeenPresent, Inv, Given
  <2>5. Known'
    BY <2>3, <2>4 DEF Known, InVote, Decoded, Found, Delegating, Ensured
  <2> QED
    BY <1>0, <2>3, <2>5 DEF Inv, Verdict
<1>2. CASE Requester \notin ds.present
  <2>1. Return("not-allowed")
    BY <1>2 DEF ensurePresent
  <2>2. Inv'
    BY <1>0, <2>1, ReturnKeeps
  <2>3. Missed
    BY <1>2 DEF Missed, Inv, Given
  <2> QED
    BY <2>1, <2>2, <2>3 DEF Verdict, Return
<1> QED
  BY <1>1, <1>2

\* A ballot that cannot be decoded is not valid.
LEMMA NotDecodable ==
  ASSUME NEW p, NEW j, ~Decodable(j) PROVE ~ValidBallot(p, j)
<1>1. ~GlobalAnswer(p, j)
  BY DEF Decodable, GlobalAnswer, JString
<1>2. ~Distribution(p, j)
  BY DEF Decodable, Distribution, AllOf
<1>3. ~AnswerPerOption(p, j)
  <2> SUFFICES ASSUME AnswerPerOption(p, j) PROVE FALSE
    OBVIOUS
  <2>1. j.kind = "object" /\ \A o \in DOMAIN j.members : \E s : j.members[o] = JString(s)
    BY DEF AnswerPerOption
  <2>2. \A s : JString(s).kind = "string"
    BY DEF JString
  <2> QED
    BY <2>1, <2>2 DEF Decodable, AllOf
<1> QED
  BY <1>1, <1>2, <1>3 DEF ValidBallot

\* The decoded user is the one the payload names, or the requester; a payload
\* that cannot be decoded does not fit, and no one has the id 0.
LEMMA decodeKeeps ==
  ASSUME Inv, decode PROVE Inv' /\ Verdict
<1> DEFINE id == maybeInt(body.userID)
           voteUser == IF id.unmarshalled THEN id.value ELSE Requester
<1>0. pc = "decode" /\ UNCHANGED <<environment, backendVars>>
  BY DEF decode
<1>1. voteUser = VoteFor
  BY DEF maybeInt, VoteFor, Number
<1>2. VoteFor \in Int
  BY VoteForType DEF Inv
<1>3. IF ~DecodableUser(body.userID) \/ ~Decodable(body.value) THEN Return("invalid")
      ELSE IF VoteFor = 0 THEN Return("not-allowed")
      ELSE Goto("voteMeetingUsers", [local EXCEPT !.voteUser = VoteFor], {})
  BY <1>1 DEF decode
<1> HIDE DEF voteUser
<1>4. CASE ~DecodableUser(body.userID) \/ ~Decodable(body.value)
  <2>1. Return("invalid")
    BY <1>3, <1>4
  <2>2. Inv'
    BY <1>0, <2>1, ReturnKeeps
  <2>3. ~Fits
    BY <1>4, NotDecodable DEF Fits
  <2> QED
    BY <2>1, <2>2, <2>3 DEF Verdict, Return
<1>5. CASE Unpacked /\ VoteFor = 0
  <2>1. Return("not-allowed")
    BY <1>3, <1>5 DEF Unpacked
  <2>2. Inv'
    BY <1>0, <2>1, ReturnKeeps
  <2>3. Missed
    BY <1>5, UsersAssumption DEF Missed
  <2> QED
    BY <2>1, <2>2, <2>3 DEF Verdict, Return
<1>6. CASE Unpacked /\ VoteFor # 0
  <2> DEFINE l == [local EXCEPT !.voteUser = VoteFor]
  <2>1. Goto("voteMeetingUsers", l, {})
    BY <1>3, <1>6 DEF Unpacked
  <2>2. l \in LocalType /\ l.voteUser = VoteFor
    BY <1>2, LocalTyped, SetVoteUser
  <2> HIDE DEF l
  <2>3. /\ UNCHANGED <<poll, body, ds, seen>> /\ pc' = "voteMeetingUsers" /\ local' = l
        /\ TypeOK' /\ Given' /\ Told' /\ Adjacent'
        /\ result' = "none" /\ poll'.exists /\ fetched' \subseteq ReadKeys'
    BY <1>0, <2>1, <2>2, Going DEF InVote
  <2>4. SeenPresent' /\ Unpacked' /\ local'.voteUser = VoteFor'
    <3>1. SeenPresent
      BY <1>0 DEF Inv, Known, InVote
    <3> QED
      BY <1>6, <2>2, <2>3, <3>1, Stays
  <2>5. Known'
    BY <2>3, <2>4 DEF Known, InVote, Decoded, Found, Delegating, Ensured
  <2> QED
    BY <1>0, <2>3, <2>5 DEF Inv, Verdict, VoteReturns, Known, InVote
<1> QED
  BY <1>4, <1>5, <1>6 DEF Unpacked

\* What getMeetingUser finds.
LEMMA MeetingUserFound ==
  ASSUME Given, NEW u, \E d \in seen : local.mus = meeting_user_ids(d, u)
  PROVE  /\ \A mu \in meetingUserIn : mu = <<u, poll.meeting>> /\ mu \in MeetingUsers /\ u \in Users
         /\ meetingUserIn = {} => \E d \in seen : <<u, poll.meeting>> \notin d.members
         /\ \A mu \in local.mus : mu \in MeetingUsers /\ mu[1] = u
<1>1. PICK d \in seen : local.mus = {mu \in d.members : mu[1] = u}
  BY DEF meeting_user_ids
<1>2. d.members \subseteq MeetingUsers /\ ds \in seen /\ ds.members \subseteq MeetingUsers
  BY FieldTypes DEF Given
<1>3. \A mu \in MeetingUsers : mu = <<mu[1], mu[2]>> /\ mu[1] \in Users
  BY DEF MeetingUsers
<1>4. \A mu \in local.mus : mu \in MeetingUsers /\ mu[1] = u
  BY <1>1, <1>2
<1>5. \A mu \in meetingUserIn : mu = <<u, poll.meeting>> /\ mu \in MeetingUsers /\ u \in Users
  BY <1>3, <1>4 DEF meetingUserIn
<1>6. ASSUME meetingUserIn = {}, \A x \in seen : <<u, poll.meeting>> \in x.members PROVE FALSE
  <2>1. <<u, poll.meeting>> \in local.mus \cap ds.members
    BY <1>1, <1>2, <1>6
  <2>2. <<u, poll.meeting>> \in meetingUserIn
    BY <2>1 DEF meetingUserIn
  <2> QED
    BY <1>6, <2>2
<1> QED
  BY <1>4, <1>5, <1>6

\* Without a meeting user of the poll's meeting there is neither a group nor a
\* delegation to it.
LEMMA NoMember ==
  ASSUME NEW d \in Datastore, NEW u, Given
  PROVE  /\ <<u, poll.meeting>> \notin d.members => ~Entitled(d, u)
         /\ <<Requester, poll.meeting>> \notin d.members =>
              DelegatedTo(d, u) # <<Requester, poll.meeting>>
         /\ DelegatedTo(d, u) \in MeetingUsers \cup {None}
         /\ <<Requester, poll.meeting>> # None
<1>1. <<Requester, poll.meeting>> \in MeetingUsers
  BY UsersAssumption DEF Given, PollType, MeetingUsers
<1>2. <<Requester, poll.meeting>> # None
  BY <1>1, NoneIsNone
<1>3. d.members \subseteq MeetingUsers
  BY FieldTypes
<1> QED
  BY <1>2, <1>3 DEF Entitled, group_ids, DelegatedTo, vote_delegated_to_id

\* The meeting users that Vote remembers were those of the voter in some state.
LEMMA voteMeetingUserIDsKeeps ==
  ASSUME Inv, voteMeetingUserIDs PROVE Inv' /\ Verdict
<1> DEFINE l == [local EXCEPT !.mus = meeting_user_ids(ds, VoteFor)]
           keys == {UserKey("meeting_user_ids", VoteFor)}
<1>0. pc = "voteMeetingUsers" /\ UNCHANGED <<environment, backendVars>>
  BY DEF voteMeetingUserIDs, getMeetingUserIDs
<1>1. SeenPresent /\ Unpacked /\ local.voteUser = VoteFor /\ result = "none"
  BY <1>0 DEF Inv, Known, InVote, Decoded
<1>2. Goto("voteMeetings", l, keys)
  BY <1>1 DEF voteMeetingUserIDs, getMeetingUserIDs
<1>3. meeting_user_ids(ds, VoteFor) \in SUBSET MeetingUsers
  BY FieldTypes DEF meeting_user_ids, Inv, TypeOK
<1>4. l \in LocalType /\ l.voteUser = VoteFor /\ l.mus = meeting_user_ids(ds, VoteFor)
  BY <1>1, <1>3, LocalTyped, SetMus
<1>5. keys \in SUBSET ReadKeys
  BY DEF ReadKeys
<1> HIDE DEF l, keys
<1>6. /\ UNCHANGED <<poll, body, ds, seen>> /\ pc' = "voteMeetings" /\ local' = l
      /\ TypeOK' /\ Given' /\ Told' /\ Adjacent'
      /\ result' = "none" /\ poll'.exists /\ fetched' \subseteq ReadKeys'
  BY <1>0, <1>2, <1>4, <1>5, Going DEF InVote
<1>7. SeenPresent' /\ Unpacked' /\ local'.voteUser = VoteFor'
  BY <1>1, <1>4, <1>6, Stays
<1>8. VoterMus'
  <2>1. VoteFor' = VoteFor /\ ds \in seen
    BY <1>6, Stays DEF Inv, Given
  <2> QED
    BY <1>4, <1>6, <2>1 DEF VoterMus
<1>9. Known'
  BY <1>6, <1>7, <1>8 DEF Known, InVote, Decoded, Found, Delegating, Ensured
<1> QED
  BY <1>1, <1>6, <1>9 DEF Inv, Verdict, VoteReturns

\* The meeting user found is the voter's in the poll's meeting; if none is found
\* there was a state without it.
LEMMA voteMeetingsKeeps ==
  ASSUME Inv, voteMeetings PROVE Inv' /\ Verdict
<1>0. pc = "voteMeetings" /\ UNCHANGED <<environment, backendVars>>
  BY DEF voteMeetings
<1>1. SeenPresent /\ Unpacked /\ local.voteUser = VoteFor /\ VoterMus /\ result = "none"
  BY <1>0 DEF Inv, Known, InVote, Decoded
<1>2. /\ \A mu \in meetingUserIn :
            mu = <<VoteFor, poll.meeting>> /\ mu \in MeetingUsers /\ VoteFor \in Users
      /\ meetingUserIn = {} => \E d \in seen : <<VoteFor, poll.meeting>> \notin d.members
      /\ \A mu \in local.mus : mu \in MeetingUsers /\ mu[1] = VoteFor
  BY <1>1, MeetingUserFound DEF VoterMus, Inv
<1>3. CASE meetingUserIn = {} /\ Return("not-allowed")
  <2>1. Inv'
    BY <1>0, <1>3, ReturnKeeps
  <2>2. Missed
    BY <1>2, <1>3, NoMember DEF Missed, Inv, Given
  <2> QED
    BY <1>3, <2>1, <2>2 DEF Verdict, Return
<1>4. ASSUME NEW mu \in meetingUserIn,
             Goto("groups", [local EXCEPT !.voteMeetingUser = mu], meetingKeys)
      PROVE  Inv' /\ Verdict
  <2> DEFINE l == [local EXCEPT !.voteMeetingUser = mu]
  <2>1. mu = <<VoteFor, poll.meeting>> /\ mu \in MeetingUsers /\ VoteFor \in Users
    BY <1>2
  <2>2. l \in LocalType /\ l.voteMeetingUser = mu /\ l.voteUser = VoteFor
    BY <1>1, <2>1, LocalTyped, SetMeetingUser
  <2>3. meetingKeys \in SUBSET ReadKeys
    BY <1>2 DEF meetingKeys, ReadKeys
  <2>4. Goto("groups", l, meetingKeys)
    BY <1>4
  <2> HIDE DEF l
  <2>5. /\ UNCHANGED <<poll, body, ds, seen>> /\ pc' = "groups" /\ local' = l
        /\ TypeOK' /\ Given' /\ Told' /\ Adjacent'
        /\ result' = "none" /\ poll'.exists /\ fetched' \subseteq ReadKeys'
    BY <1>0, <2>2, <2>3, <2>4, Going DEF InVote
  <2>6. SeenPresent' /\ Unpacked' /\ VoteFor' = VoteFor
    BY <1>1, <2>5, Stays
  <2>7. IsVoter'
    BY <2>1, <2>2, <2>5, <2>6 DEF IsVoter
  <2>8. Known'
    BY <2>2, <2>5, <2>6, <2>7 DEF Known, InVote, Decoded, Found, Delegating, Ensured
  <2> QED
    BY <1>1, <2>5, <2>8 DEF Inv, Verdict, VoteReturns
<1> QED
  BY <1>3, <1>4 DEF voteMeetings

\* The voter was entitled in some state, or was not.
LEMMA ensureGroupKeeps ==
  ASSUME Inv, ensureGroup PROVE Inv' /\ Verdict
<1>0. pc = "groups" /\ UNCHANGED <<environment, backendVars>>
  BY DEF ensureGroup
<1>1. SeenPresent /\ Unpacked /\ local.voteUser = VoteFor /\ IsVoter /\ result = "none"
  BY <1>0 DEF Inv, Known, InVote, Decoded, Found
<1>2. /\ local.voteMeetingUser = <<VoteFor, poll.meeting>>
      /\ equalElement(group_ids(ds, local.voteMeetingUser), poll.entitledGroupIDs)
           <=> Entitled(ds, VoteFor)
      /\ ds \in seen
  BY <1>1 DEF IsVoter, equalElement, Entitled, Inv, Given
<1>3. CASE Entitled(ds, VoteFor)
  <2> DEFINE keys == {MuKey("group_ids", local.voteMeetingUser)}
  <2>1. Goto("activated", local, keys)
    BY <1>2, <1>3 DEF ensureGroup
  <2>2. keys \in SUBSET ReadKeys
    BY <1>2 DEF ReadKeys
  <2> HIDE DEF keys
  <2>3. /\ UNCHANGED <<poll, body, ds, seen>> /\ pc' = "activated" /\ local' = local
        /\ TypeOK' /\ Given' /\ Told' /\ Adjacent'
        /\ result' = "none" /\ poll'.exists /\ fetched' \subseteq ReadKeys'
    BY <1>0, <2>1, <2>2, LocalTyped, Going DEF InVote
  <2>4. SeenEntitled
    BY <1>2, <1>3 DEF SeenEntitled
  <2>5. SeenPresent' /\ Unpacked' /\ VoteFor' = VoteFor /\ IsVoter' /\ SeenEntitled'
    BY <1>1, <2>3, <2>4, Stays
  <2>6. Known'
    BY <1>1, <2>3, <2>5 DEF Known, InVote, Decoded, Found, Delegating, Ensured
  <2> QED
    BY <1>1, <2>3, <2>6 DEF Inv, Verdict, VoteReturns
<1>4. CASE ~Entitled(ds, VoteFor)
  <2>1. Return("not-allowed")
    BY <1>2, <1>4 DEF ensureGroup
  <2>2. Inv'
    BY <1>0, <2>1, ReturnKeeps
  <2>3. Missed
    BY <1>2, <1>4 DEF Missed
  <2> QED
    BY <2>1, <2>2, <2>3 DEF Verdict, Return
<1> QED
  BY <1>3, <1>4

\* The setting enable_vote_delegations was read in some state.
LEMMA delegationActivatedKeeps ==
  ASSUME Inv, delegationActivated PROVE Inv' /\ Verdict
<1> DEFINE l == [local EXCEPT !.activated = ds.delegations]
           keys == {MeetingKey("enable_vote_delegations")}
<1>0. pc = "activated" /\ UNCHANGED <<environment, backendVars>> /\ Goto("forbid", l, keys)
  BY DEF delegationActivated
<1>1. /\ SeenPresent /\ Unpacked /\ local.voteUser = VoteFor /\ IsVoter /\ SeenEntitled
      /\ result = "none"
  BY <1>0 DEF Inv, Known, InVote, Decoded, Found
<1>2. ds.delegations \in BOOLEAN
  BY FieldTypes DEF Inv, TypeOK
<1>3. /\ l \in LocalType /\ l.activated = ds.delegations
      /\ l.voteUser = local.voteUser /\ l.voteMeetingUser = local.voteMeetingUser
  BY <1>2, LocalTyped, SetActivated
<1>4. keys \in SUBSET ReadKeys
  BY DEF ReadKeys
<1> HIDE DEF l, keys
<1>5. /\ UNCHANGED <<poll, body, ds, seen>> /\ pc' = "forbid" /\ local' = l
      /\ TypeOK' /\ Given' /\ Told' /\ Adjacent'
      /\ result' = "none" /\ poll'.exists /\ fetched' \subseteq ReadKeys'
  BY <1>0, <1>3, <1>4, Going DEF InVote
<1>6. /\ SeenPresent' /\ Unpacked' /\ VoteFor' = VoteFor /\ IsVoter' /\ SeenEntitled'
      /\ local'.voteUser = VoteFor'
  BY <1>1, <1>3, <1>5, Stays
<1>7. ReadActivated'
  BY <1>3, <1>5 DEF ReadActivated, Given
<1>8. Known'
  BY <1>5, <1>6, <1>7 DEF Known, InVote, Decoded, Found, Delegating, Ensured
<1> QED
  BY <1>1, <1>5, <1>8 DEF Inv, Verdict, VoteReturns

\* The setting that forbids delegators to vote was read in some state.
LEMMA forbidDelegatorToVoteKeeps ==
  ASSUME Inv, forbidDelegatorToVote PROVE Inv' /\ Verdict
<1> DEFINE l == [local EXCEPT !.forbid = ds.forbid]
           keys == {MeetingKey("forbid_delegator")}
<1>0. pc = "forbid" /\ UNCHANGED <<environment, backendVars>> /\ Goto("delegation", l, keys)
  BY DEF forbidDelegatorToVote
<1>1. /\ SeenPresent /\ Unpacked /\ local.voteUser = VoteFor /\ IsVoter /\ SeenEntitled
      /\ ReadActivated /\ result = "none"
  BY <1>0 DEF Inv, Known, InVote, Decoded, Found
<1>2. ds.forbid \in BOOLEAN
  BY FieldTypes DEF Inv, TypeOK
<1>3. /\ l \in LocalType /\ l.forbid = ds.forbid /\ l.activated = local.activated
      /\ l.voteUser = local.voteUser /\ l.voteMeetingUser = local.voteMeetingUser
  BY <1>2, LocalTyped, SetForbid
<1>4. keys \in SUBSET ReadKeys
  BY DEF ReadKeys
<1> HIDE DEF l, keys
<1>5. /\ UNCHANGED <<poll, body, ds, seen>> /\ pc' = "delegation" /\ local' = l
      /\ TypeOK' /\ Given' /\ Told' /\ Adjacent'
      /\ result' = "none" /\ poll'.exists /\ fetched' \subseteq ReadKeys'
  BY <1>0, <1>3, <1>4, Going DEF InVote
<1>6. /\ SeenPresent' /\ Unpacked' /\ VoteFor' = VoteFor /\ IsVoter' /\ SeenEntitled'
      /\ local'.voteUser = VoteFor' /\ ReadActivated'
  BY <1>1, <1>3, <1>5, Stays
<1>7. ReadForbid'
  BY <1>3, <1>5 DEF ReadForbid, Given
<1>8. Known'
  BY <1>5, <1>6, <1>7 DEF Known, InVote, Decoded, Found, Delegating, Ensured
<1> QED
  BY <1>1, <1>5, <1>8 DEF Inv, Verdict, VoteReturns

\* Requesters who vote for themselves go on unless all of the two settings and the
\* delegation were seen; others go on with the delegation they have seen.
LEMMA ensureSelfKeeps ==
  ASSUME Inv, ensureSelf PROVE Inv' /\ Verdict
<1> DEFINE to == vote_delegated_to_id(ds, local.voteMeetingUser)
           keys == {MuKey("delegated_to", local.voteMeetingUser)}
<1>0. pc = "delegation" /\ UNCHANGED <<environment, backendVars>>
  BY DEF ensureSelf
<1>1. /\ SeenPresent /\ Unpacked /\ local.voteUser = VoteFor /\ IsVoter /\ SeenEntitled
      /\ ReadActivated /\ ReadForbid /\ result = "none"
  BY <1>0 DEF Inv, Known, InVote, Decoded, Found
<1>2. IF VoteFor = Requester /\ local.activated /\ local.forbid /\ to # None
      THEN Return("not-allowed")
      ELSE IF VoteFor = Requester THEN Goto("validate", local, keys)
      ELSE IF ~local.activated THEN Return("not-allowed")
      ELSE Goto("requestMeetingUsers", [local EXCEPT !.delegation = to], keys)
  BY <1>1 DEF ensureSelf
<1>3. /\ to = DelegatedTo(ds, VoteFor) /\ ds \in seen /\ ds \in Datastore
      /\ to \in MeetingUsers \cup {None} /\ keys \in SUBSET ReadKeys
  <2>1. to = DelegatedTo(ds, VoteFor) /\ ds \in seen /\ ds \in Datastore
    BY <1>1 DEF IsVoter, DelegatedTo, Inv, Given
  <2>2. keys \in SUBSET ReadKeys
    BY <1>1 DEF IsVoter, ReadKeys
  <2> QED
    BY <2>1, <2>2, NoMember DEF Inv
<1>4. /\ \E d \in seen : local.activated = d.delegations
      /\ \E d \in seen : local.forbid = d.forbid
      /\ local.activated \in BOOLEAN /\ local.forbid \in BOOLEAN
  BY <1>1, LocalTyped DEF ReadActivated, ReadForbid, LocalType
<1> HIDE DEF to, keys
<1>5. CASE /\ VoteFor = Requester /\ local.activated /\ local.forbid /\ to # None
  <2>1. Return("not-allowed")
    BY <1>2, <1>5
  <2>2. Inv'
    BY <1>0, <2>1, ReturnKeeps
  <2>3. Missed
    BY <1>3, <1>4, <1>5 DEF Missed
  <2> QED
    BY <2>1, <2>2, <2>3 DEF Verdict, Return
<1>6. CASE VoteFor = Requester /\ ~(local.activated /\ local.forbid /\ to # None)
  <2>1. Goto("validate", local, keys)
    BY <1>2, <1>6
  <2>2. /\ UNCHANGED <<poll, body, ds, seen>> /\ pc' = "validate" /\ local' = local
        /\ TypeOK' /\ Given' /\ Told' /\ Adjacent'
        /\ result' = "none" /\ poll'.exists /\ fetched' \subseteq ReadKeys'
    BY <1>0, <1>3, <2>1, LocalTyped, Going DEF InVote
  <2>3. SeenDelegation
    BY <1>3, <1>4, <1>6 DEF SeenDelegation
  <2>4. /\ SeenPresent' /\ Unpacked' /\ VoteFor' = VoteFor /\ IsVoter' /\ SeenEntitled'
        /\ SeenDelegation'
    BY <1>1, <2>2, <2>3, Stays
  <2>5. Known'
    BY <1>1, <2>2, <2>4 DEF Known, InVote, Decoded, Found, Delegating, Ensured
  <2> QED
    BY <1>1, <2>2, <2>5 DEF Inv, Verdict, VoteReturns
<1>7. CASE VoteFor # Requester /\ ~local.activated
  <2>1. Return("not-allowed")
    BY <1>2, <1>7
  <2>2. Inv'
    BY <1>0, <2>1, ReturnKeeps
  <2>3. Missed
    BY <1>4, <1>7 DEF Missed
  <2> QED
    BY <2>1, <2>2, <2>3 DEF Verdict, Return
<1>8. CASE VoteFor # Requester /\ local.activated
  <2> DEFINE l == [local EXCEPT !.delegation = to]
  <2>1. Goto("requestMeetingUsers", l, keys)
    BY <1>2, <1>8
  <2>2. /\ l \in LocalType /\ l.delegation = to
        /\ l.voteUser = local.voteUser /\ l.voteMeetingUser = local.voteMeetingUser
    BY <1>3, LocalTyped, SetDelegation
  <2> HIDE DEF l
  <2>3. /\ UNCHANGED <<poll, body, ds, seen>> /\ pc' = "requestMeetingUsers" /\ local' = l
        /\ TypeOK' /\ Given' /\ Told' /\ Adjacent'
        /\ result' = "none" /\ poll'.exists /\ fetched' \subseteq ReadKeys'
    BY <1>0, <1>3, <2>1, <2>2, Going DEF InVote
  <2>4. SeenDelegations
    BY <1>4, <1>8 DEF SeenDelegations
  <2>5. /\ SeenPresent' /\ Unpacked' /\ VoteFor' = VoteFor /\ IsVoter' /\ SeenEntitled'
        /\ local'.voteUser = VoteFor' /\ SeenDelegations'
    BY <1>1, <2>2, <2>3, <2>4, Stays
  <2>6. ReadDelegation'
    BY <1>3, <2>2, <2>3, <2>5 DEF ReadDelegation, DelegatedTo
  <2>7. Known'
    BY <1>8, <2>3, <2>5, <2>6 DEF Known, InVote, Decoded, Found, Delegating, Ensured
  <2> QED
    BY <1>1, <2>3, <2>7 DEF Inv, Verdict, VoteReturns
<1> QED
  BY <1>5, <1>6, <1>7, <1>8

\* The meeting users that Vote remembers were the requester's in some state.
LEMMA requestMeetingUserIDsKeeps ==
  ASSUME Inv, requestMeetingUserIDs PROVE Inv' /\ Verdict
<1> DEFINE l == [local EXCEPT !.mus = meeting_user_ids(ds, Requester)]
           keys == {UserKey("meeting_user_ids", Requester)}
<1>0. /\ pc = "requestMeetingUsers" /\ UNCHANGED <<environment, backendVars>>
      /\ Goto("requestMeetings", l, keys)
  BY DEF requestMeetingUserIDs, getMeetingUserIDs
<1>1. /\ SeenPresent /\ Unpacked /\ local.voteUser = VoteFor /\ IsVoter /\ SeenEntitled
      /\ VoteFor # Requester /\ SeenDelegations /\ ReadDelegation /\ result = "none"
  BY <1>0 DEF Inv, Known, InVote, Decoded, Found, Delegating
<1>2. meeting_user_ids(ds, Requester) \in SUBSET MeetingUsers
  BY FieldTypes DEF meeting_user_ids, Inv, TypeOK
<1>3. /\ l \in LocalType /\ l.mus = meeting_user_ids(ds, Requester)
      /\ l.voteUser = local.voteUser /\ l.voteMeetingUser = local.voteMeetingUser
      /\ l.delegation = local.delegation
  BY <1>2, LocalTyped, SetMus
<1>4. keys \in SUBSET ReadKeys
  BY <1>1 DEF ReadKeys
<1> HIDE DEF l, keys
<1>5. /\ UNCHANGED <<poll, body, ds, seen>> /\ pc' = "requestMeetings" /\ local' = l
      /\ TypeOK' /\ Given' /\ Told' /\ Adjacent'
      /\ result' = "none" /\ poll'.exists /\ fetched' \subseteq ReadKeys'
  BY <1>0, <1>3, <1>4, Going DEF InVote
<1>6. /\ SeenPresent' /\ Unpacked' /\ VoteFor' = VoteFor /\ IsVoter' /\ SeenEntitled'
      /\ local'.voteUser = VoteFor' /\ SeenDelegations' /\ ReadDelegation'
  BY <1>1, <1>3, <1>5, Stays
<1>7. RequesterMus'
  BY <1>3, <1>5 DEF RequesterMus, Given
<1>8. Known'
  BY <1>1, <1>5, <1>6, <1>7 DEF Known, InVote, Decoded, Found, Delegating, Ensured
<1> QED
  BY <1>1, <1>5, <1>8 DEF Inv, Verdict, VoteReturns

\* The voter had delegated to the requester in some state, or had not.
LEMMA ensureDelegateKeeps ==
  ASSUME Inv, ensureDelegate PROVE Inv' /\ Verdict
<1>0. pc = "requestMeetings" /\ UNCHANGED <<environment, backendVars>>
  BY DEF ensureDelegate
<1>1. /\ SeenPresent /\ Unpacked /\ local.voteUser = VoteFor /\ IsVoter /\ SeenEntitled
      /\ VoteFor # Requester /\ SeenDelegations /\ ReadDelegation /\ RequesterMus
      /\ result = "none"
  BY <1>0 DEF Inv, Known, InVote, Decoded, Found, Delegating
<1>2. /\ \A mu \in meetingUserIn : mu = <<Requester, poll.meeting>>
      /\ meetingUserIn = {} => \E d \in seen : <<Requester, poll.meeting>> \notin d.members
      /\ \A mu \in local.mus : mu \in MeetingUsers /\ mu[1] = Requester
  BY <1>1, MeetingUserFound DEF RequesterMus, Inv
<1>3. \E d \in seen : local.delegation = DelegatedTo(d, VoteFor)
  BY <1>1 DEF ReadDelegation
<1>4. CASE meetingUserIn = {} /\ Return("not-allowed")
  <2>1. Inv'
    BY <1>0, <1>4, ReturnKeeps
  <2>2. PICK d \in seen : <<Requester, poll.meeting>> \notin d.members
    BY <1>2, <1>4
  <2>3. DelegatedTo(d, VoteFor) # <<Requester, poll.meeting>>
    BY <2>2, NoMember DEF Inv, Given
  <2>4. Missed
    BY <1>1, <2>3 DEF Missed
  <2> QED
    BY <1>4, <2>1, <2>4 DEF Verdict, Return
<1>5. ASSUME NEW mu \in meetingUserIn, local.delegation # mu, Return("not-allowed")
      PROVE  Inv' /\ Verdict
  <2>1. Inv'
    BY <1>0, <1>5, ReturnKeeps
  <2>2. Missed
    BY <1>1, <1>2, <1>3, <1>5 DEF Missed
  <2> QED
    BY <1>5, <2>1, <2>2 DEF Verdict, Return
<1>6. ASSUME NEW mu \in meetingUserIn, local.delegation = mu, Goto("validate", local, meetingKeys)
      PROVE  Inv' /\ Verdict
  <2>1. meetingKeys \in SUBSET ReadKeys
    BY <1>1, <1>2 DEF meetingKeys, ReadKeys
  <2>2. /\ UNCHANGED <<poll, body, ds, seen>> /\ pc' = "validate" /\ local' = local
        /\ TypeOK' /\ Given' /\ Told' /\ Adjacent'
        /\ result' = "none" /\ poll'.exists /\ fetched' \subseteq ReadKeys'
    BY <1>0, <1>6, <2>1, LocalTyped, Going DEF InVote
  <2>3. SeenDelegation
    BY <1>1, <1>2, <1>3, <1>6 DEF SeenDelegation
  <2>4. /\ SeenPresent' /\ Unpacked' /\ VoteFor' = VoteFor /\ IsVoter' /\ SeenEntitled'
        /\ SeenDelegation'
    BY <1>1, <2>2, <2>3, Stays
  <2>5. Known'
    BY <1>1, <2>2, <2>4 DEF Known, InVote, Decoded, Found, Delegating, Ensured
  <2> QED
    BY <1>1, <2>2, <2>5 DEF Inv, Verdict, VoteReturns
<1> QED
  BY <1>4, <1>5, <1>6 DEF ensureDelegate

\* The ballot is valid or is rejected, whatever the order of the map.
LEMMA ValidateKeeps ==
  ASSUME Inv, Validate PROVE Inv' /\ Verdict
<1>0. pc = "validate" /\ UNCHANGED <<environment, backendVars>>
  BY DEF Validate
<1>1. /\ SeenPresent /\ Unpacked /\ local.voteUser = VoteFor /\ IsVoter /\ SeenEntitled
      /\ SeenDelegation /\ result = "none"
  BY <1>0 DEF Inv, Known, InVote, Decoded, Found, Ensured
<1>2. PICK order \in VisitOrders(UnmarshalJSON(body.value)) :
        IF validate(poll, UnmarshalJSON(body.value), order)
        THEN Goto("weight", local, {})
        ELSE Return("invalid")
  BY DEF Validate
<1>3. validate(poll, UnmarshalJSON(body.value), order) <=> ValidBallot(poll, body.value)
  <2>1. PollFields(poll) /\ JSON(body.value) /\ Decodable(body.value)
    BY <1>1 DEF Inv, Given, PollType, Unpacked
  <2> QED
    BY <2>1, ValidateDecides
<1>4. CASE Valid
  <2>1. Goto("weight", local, {})
    BY <1>2, <1>3, <1>4 DEF Valid
  <2>2. /\ UNCHANGED <<poll, body, ds, seen>> /\ pc' = "weight" /\ local' = local
        /\ TypeOK' /\ Given' /\ Told' /\ Adjacent'
        /\ result' = "none" /\ poll'.exists /\ fetched' \subseteq ReadKeys'
    BY <1>0, <2>1, LocalTyped, Going DEF InVote
  <2>3. /\ SeenPresent' /\ Unpacked' /\ VoteFor' = VoteFor /\ IsVoter' /\ SeenEntitled'
        /\ SeenDelegation' /\ Valid'
    BY <1>1, <1>4, <2>2, Stays
  <2>4. Known'
    BY <1>1, <2>2, <2>3 DEF Known, InVote, Decoded, Found, Delegating, Ensured
  <2> QED
    BY <1>1, <2>2, <2>4 DEF Inv, Verdict, VoteReturns
<1>5. CASE ~Valid
  <2>1. Return("invalid")
    BY <1>2, <1>3, <1>5 DEF Valid
  <2>2. Inv'
    BY <1>0, <2>1, ReturnKeeps
  <2>3. ~Fits
    BY <1>5 DEF Fits, Valid
  <2> QED
    BY <2>1, <2>2, <2>3 DEF Verdict, Return
<1> QED
  BY <1>4, <1>5

\* The weight was the voter's in some state.
LEMMA WeightKeeps ==
  ASSUME Inv, Weight PROVE Inv' /\ Verdict
<1> DEFINE w == voteWeight(ds, local.voteMeetingUser)
           l == [local EXCEPT !.weight = w]
           keys == {MeetingKey("enable_vote_weight"), MuKey("vote_weight", local.voteMeetingUser),
                    UserKey("default_vote_weight", local.voteUser)}
<1>0. pc = "weight" /\ UNCHANGED <<environment, backendVars>> /\ Goto("backend", l, keys)
  BY DEF Weight
<1>1. /\ SeenPresent /\ Unpacked /\ local.voteUser = VoteFor /\ IsVoter /\ SeenEntitled
      /\ SeenDelegation /\ Valid /\ result = "none"
  BY <1>0 DEF Inv, Known, InVote, Decoded, Found, Ensured
<1>2. w \in Int /\ w = voteWeight(ds, <<VoteFor, poll.meeting>>)
  <2>1. /\ local.voteMeetingUser = <<VoteFor, poll.meeting>> /\ VoteFor \in Users
        /\ <<VoteFor, poll.meeting>> \in MeetingUsers
    BY <1>1 DEF IsVoter, MeetingUsers, Inv, Given, PollType
  <2> DEFINE a == vote_weight(ds, <<VoteFor, poll.meeting>>)
             b == ds.defaultWeight[VoteFor]
  <2>2. a \in Int /\ b \in Int
    BY <2>1, FieldTypes DEF Inv, TypeOK, vote_weight
  <2>3. w = voteWeight(ds, <<VoteFor, poll.meeting>>)
    BY <2>1
  <2>4. voteWeight(ds, <<VoteFor, poll.meeting>>) =
          Default(IF ds.weighted THEN Default(a, b) ELSE 0, 1)
    BY DEF voteWeight
  <2> HIDE DEF a, b, w
  <2>5. Default(IF ds.weighted THEN Default(a, b) ELSE 0, 1) \in Int
    BY <2>2 DEF Default
  <2> QED
    BY <2>3, <2>4, <2>5
<1> HIDE DEF w
<1>3. /\ l \in LocalType /\ l.weight = w
      /\ l.voteUser = local.voteUser /\ l.voteMeetingUser = local.voteMeetingUser
  BY <1>2, LocalTyped, SetWeight
<1>4. keys \in SUBSET ReadKeys
  BY <1>1 DEF ReadKeys, IsVoter
<1> HIDE DEF l, keys
<1>5. /\ UNCHANGED <<poll, body, ds, seen>> /\ pc' = "backend" /\ local' = l
      /\ TypeOK' /\ Given' /\ Told' /\ Adjacent'
      /\ result' = "none" /\ poll'.exists /\ fetched' \subseteq ReadKeys'
  BY <1>0, <1>3, <1>4, Going DEF InVote
<1>6. /\ SeenPresent' /\ Unpacked' /\ VoteFor' = VoteFor /\ IsVoter' /\ SeenEntitled'
      /\ local'.voteUser = VoteFor' /\ SeenDelegation' /\ Valid'
  BY <1>1, <1>3, <1>5, Stays
<1>7. ReadWeight'
  BY <1>2, <1>3, <1>5, <1>6 DEF ReadWeight, Given
<1>8. Known'
  BY <1>5, <1>6, <1>7 DEF Known, InVote, Decoded, Found, Delegating, Ensured
<1> QED
  BY <1>1, <1>5, <1>8 DEF Inv, Verdict, VoteReturns

\* A saved object is entered for one more user and changes no other.
LEMMA Saves ==
  ASSUME votes' = Entered(votes, local.voteUser, voteData), local.voteUser \notin DOMAIN votes
  PROVE  /\ DOMAIN votes' = DOMAIN votes \cup {local.voteUser}
         /\ votes'[local.voteUser] = voteData
BY DEF Entered

\* A saved vote is one that passed all checks.
LEMMA BackendVoteKeeps ==
  ASSUME Inv, BackendVote PROVE Inv' /\ Verdict
<1>0. pc = "backend" /\ UNCHANGED <<environment, pollState, live>>
  BY DEF BackendVote
<1>1. /\ SeenPresent /\ Unpacked /\ local.voteUser = VoteFor /\ IsVoter /\ SeenEntitled
      /\ SeenDelegation /\ Valid /\ ReadWeight
      /\ result = "none" /\ poll.exists /\ fetched \subseteq ReadKeys
  BY <1>0 DEF Inv, Known, InVote, Decoded, Found, Ensured
<1>2. \/ votes' = votes
      \/ /\ local.voteUser \notin DOMAIN votes
         /\ votes' = Entered(votes, local.voteUser, voteData)
  BY DEF BackendVote
<1>3. DOMAIN votes' \subseteq Users
  <2>1. DOMAIN votes \subseteq Users /\ local.voteUser \in Users
    BY <1>1 DEF Inv, TypeOK, IsVoter
  <2> QED
    BY <1>2, <2>1, Saves
<1>4. ASSUME NEW kind \in {"not-exist", "stopped", "double-vote", "error"}, Return(kind)
      PROVE  Inv' /\ Verdict
  <2>1. Inv'
    BY <1>0, <1>3, <1>4, ReturnEnds
  <2>2. result' = kind
    BY <1>4 DEF Return
  <2> QED
    BY <2>1, <2>2 DEF Verdict
<1>5. CASE Goto("live", local, {})
  <2>1. /\ UNCHANGED <<poll, body, ds, seen, budget, answer, live, pollState, result, local, fetched>>
        /\ pc' = "live"
    BY <1>0, <1>5 DEF Goto, environment
  <2>2. TypeOK'
    BY <1>3, <2>1 DEF Inv, TypeOK
  <2>3. Given' /\ Adjacent'
    BY <2>1 DEF Inv, Given, Adjacent
  <2>4. Told'
    BY <2>1 DEF Told
  <2>5. /\ SeenPresent' /\ Unpacked' /\ VoteFor' = VoteFor /\ IsVoter' /\ SeenEntitled'
        /\ SeenDelegation' /\ Valid' /\ ReadWeight' /\ ReadKeys' = ReadKeys
    BY <1>1, <2>1, Stays
  <2>6. Known'
    BY <1>1, <2>1, <2>5 DEF Known, InVote, Decoded, Found, Delegating, Ensured
  <2> QED
    BY <2>1, <2>2, <2>3, <2>4, <2>6 DEF Inv, Verdict, VoteReturns
<1> QED
  BY <1>4, <1>5 DEF BackendVote

\* An accepted vote has passed all checks.
LEMMA LiveVoteKeeps ==
  ASSUME Inv, LiveVote PROVE Inv' /\ Verdict
<1>1. /\ pc = "live" /\ UNCHANGED <<poll, body, ds, seen, budget, answer, votes, pollState>>
      /\ pc' = "idle" /\ result' = "ok" /\ local' = [NoLocal EXCEPT !.voteUser = local.voteUser]
  BY DEF LiveVote, Return, environment
<1>2. /\ SeenPresent /\ Unpacked /\ local.voteUser = VoteFor /\ IsVoter /\ SeenEntitled
      /\ SeenDelegation /\ Valid /\ poll.exists
  BY <1>1 DEF Inv, Known, InVote, Decoded, Found, Ensured
<1>3. local' \in LocalType /\ local'.voteUser = local.voteUser
  <2>1. local.voteUser \in Int
    BY LocalTyped DEF LocalType
  <2> QED
    BY <1>1, <2>1, ClearLocal, SetVoteUser
<1>4. live' = live \cup {local.voteUser}
  BY DEF LiveVote
<1>5. TypeOK'
  <2>1. local.voteUser \in Users
    BY <1>2 DEF IsVoter
  <2> QED
    BY <1>1, <1>3, <1>4, <2>1 DEF Inv, TypeOK, LocalType
<1>6. Given' /\ Adjacent'
  BY <1>1 DEF Inv, Given, Adjacent
<1>7. Known'
  BY <1>1 DEF Known, InVote, Decoded, Found, Delegating, Ensured
<1>8. Told'
  BY <1>1 DEF Told
<1>9. Fits /\ MetInTurn
  BY <1>2 DEF Fits, Unpacked, Valid, MetInTurn, SeenPresent, SeenEntitled, SeenDelegation,
              SeenDelegations
<1> QED
  BY <1>1, <1>2, <1>5, <1>6, <1>7, <1>8, <1>9 DEF Inv, Verdict

\* A request begins with what it sees now.
LEMMA VoteKeeps ==
  ASSUME Inv, Vote PROVE Inv' /\ Verdict
<1>1. /\ UNCHANGED <<poll, body, ds, budget, answer, votes, live, pollState, local>>
      /\ seen' = {ds} /\ result = "none"
      /\ \/ poll.exists /\ pc' = "ensurePresent" /\ fetched' = {PollKey} /\ result' = "none"
         \/ pc' = "idle" /\ result' = "not-exist"
  BY DEF Vote, environment, backendVars
<1>2. TypeOK'
  BY <1>1 DEF Inv, TypeOK
<1>3. Given'
  BY <1>1 DEF Inv, Given
<1>4. Adjacent'
  BY <1>1 DEF Adjacent, Near
<1>5. Told'
  BY <1>1 DEF Told
<1>6. Known'
  <2>1. PollKey \in ReadKeys'
    BY DEF ReadKeys, PollKey
  <2> QED
    BY <1>1, <2>1 DEF Known, InVote, Decoded, Found, Delegating, Ensured
<1> QED
  BY <1>1, <1>2, <1>3, <1>4, <1>5, <1>6 DEF Inv, Verdict, VoteReturns

\* Voted begins with the meeting users of the requester.
LEMMA VotedKeeps ==
  ASSUME Inv, Voted PROVE Inv' /\ Verdict
<1> DEFINE l == [local EXCEPT !.mus = meeting_user_ids(ds, Requester)]
<1>1. /\ UNCHANGED <<poll, body, ds, budget, answer, votes, live, pollState, result>>
      /\ seen' = {ds} /\ pc' = "delegationsFrom" /\ local' = l
  BY DEF Voted, environment, backendVars
<1>2. meeting_user_ids(ds, Requester) \in SUBSET MeetingUsers
  BY FieldTypes DEF meeting_user_ids, Inv, TypeOK
<1>3. l \in LocalType /\ l.mus = meeting_user_ids(ds, Requester) /\ l.voteUser = local.voteUser
  BY <1>2, LocalTyped, SetMus
<1> HIDE DEF l
<1>4. TypeOK'
  BY <1>1, <1>3 DEF Inv, TypeOK, LocalType
<1>5. Given'
  BY <1>1 DEF Inv, Given
<1>6. Adjacent'
  BY <1>1 DEF Adjacent, Near
<1>7. Known'
  BY <1>1 DEF Known, InVote, Decoded, Found, Delegating, Ensured
<1>8. Told'
  BY <1>1, <1>3 DEF Told, Inv, RequesterMus
<1> QED
  BY <1>1, <1>4, <1>5, <1>6, <1>7, <1>8 DEF Inv, Verdict, VoteReturns

\* Every delegation that Voted remembers was one to the requester in some state,
\* and every one that stands all the time is remembered.
LEMMA delegationsFromKeeps ==
  ASSUME Inv, delegationsFrom PROVE Inv' /\ Verdict
<1> DEFINE from == UNION {vote_delegations_from_ids(ds, mu) : mu \in local.mus}
           l == [local EXCEPT !.mus = from]
<1>1. /\ UNCHANGED <<poll, body, ds, budget, answer, votes, live, pollState, result, seen>>
      /\ pc = "delegationsFrom" /\ pc' = "userIDs" /\ local' = l
  BY DEF delegationsFrom, environment, backendVars, history
<1>2. ds.members \subseteq MeetingUsers /\ ds \in seen /\ seen \subseteq Datastore
  BY FieldTypes DEF Inv, Given, TypeOK
<1>3. \A x \in from : x \in ds.members /\ \E mu \in local.mus : vote_delegated_to_id(ds, x) = mu
  BY DEF vote_delegations_from_ids
<1>4. l \in LocalType /\ l.mus = from /\ l.voteUser = local.voteUser
  <2>1. from \in SUBSET MeetingUsers
    BY <1>2, <1>3
  <2> HIDE DEF from
  <2> QED
    BY <2>1, LocalTyped, SetMus
<1>5. PICK d0 \in seen : local.mus = meeting_user_ids(d0, Requester)
  BY <1>1 DEF Inv, Told, RequesterMus
<1>6. d0.members \subseteq MeetingUsers
  BY <1>2, FieldTypes
<1>7. ASSUME NEW x \in from PROVE x[1] \in delegators(ds)
  <2>1. PICK mu \in local.mus : vote_delegated_to_id(ds, x) = mu
    BY <1>3
  <2>2. mu \in MeetingUsers /\ mu[1] = Requester
    BY <1>5, <1>6 DEF meeting_user_ids
  <2>3. mu \in ds.members
    BY <2>1, <2>2, NoneIsNone DEF vote_delegated_to_id
  <2>4. x \in vote_delegations_from_ids(ds, mu) /\ mu \in meeting_user_ids(ds, Requester)
    BY <1>3, <2>1, <2>2, <2>3 DEF vote_delegations_from_ids, meeting_user_ids
  <2> QED
    BY <2>4 DEF delegators
<1>8. ASSUME NEW u \in Users, NEW m \in Meetings, stands(u, m)
      PROVE  <<u, m>> \in from
  <2>1. <<Requester, m>> # None
    BY UsersAssumption, NoneIsNone DEF MeetingUsers
  <2>2. <<u, m>> \in ds.members /\ <<Requester, m>> \in d0.members
    BY <1>2, <1>8, <2>1 DEF vote_delegated_to_id, stands
  <2>3. <<Requester, m>> \in local.mus
    BY <1>5, <2>2 DEF meeting_user_ids
  <2>4. <<u, m>> \in vote_delegations_from_ids(ds, <<Requester, m>>)
    BY <1>2, <1>8, <2>2 DEF vote_delegations_from_ids, stands
  <2> QED
    BY <2>3, <2>4
<1> HIDE DEF from, l
<1>9. TypeOK'
  BY <1>1, <1>4 DEF Inv, TypeOK, LocalType
<1>10. Given' /\ Adjacent'
  BY <1>1 DEF Inv, Given, Adjacent
<1>11. Known'
  BY <1>1 DEF Known, InVote, Decoded, Found, Delegating, Ensured
<1>12. Told'
  <2>1. local'.mus = from /\ local'.voteUser = local.voteUser
    BY <1>1, <1>4
  <2>3. \A mu \in local'.mus : \E d \in seen' : mu[1] \in delegators(d)
    BY <1>1, <1>2, <1>7, <2>1
  <2>4. \A u \in Users, m \in Meetings : stands(u, m)' => <<u, m>> \in local'.mus
    <3>1. ASSUME NEW u, NEW m, stands(u, m)' PROVE stands(u, m)
      BY <1>1, <3>1 DEF stands
    <3> QED
      BY <1>8, <2>1, <3>1
  <2> QED
    BY <1>1, <2>3, <2>4 DEF Told
<1> QED
  BY <1>1, <1>9, <1>10, <1>11, <1>12 DEF Inv, Verdict, VoteReturns

\* The answer holds only users in liveVotes.
LEMMA votedUserIDsKeeps ==
  ASSUME Inv, votedUserIDs PROVE Inv' /\ Verdict
<1> DEFINE l == [local EXCEPT !.mus = {}]
<1>1. /\ UNCHANGED <<poll, body, ds, budget, votes, live, pollState, result, seen>>
      /\ pc' = "idle" /\ local' = l /\ answer' \subseteq live
  BY DEF votedUserIDs, backendVars, history
<1>2. l \in LocalType /\ l.voteUser = local.voteUser
  BY LocalTyped, SetMus
<1> HIDE DEF l
<1>3. TypeOK'
  BY <1>1, <1>2 DEF Inv, TypeOK, LocalType
<1>4. Given' /\ Adjacent'
  BY <1>1 DEF Inv, Given, Adjacent
<1>5. Known'
  BY <1>1 DEF Known, InVote, Decoded, Found, Delegating, Ensured
<1>6. Told'
  BY <1>1 DEF Told
<1> QED
  BY <1>1, <1>3, <1>4, <1>5, <1>6 DEF Inv, Verdict, VoteReturns

\* What does not concern the request itself keeps the invariant.
LEMMA RestKeeps ==
  ASSUME Inv, UNCHANGED <<poll, body, ds, answer, result, seen, pc, local, fetched>>,
         pollState' \in {"unknown", "started", "stopped"}, budget' \in Nat,
         DOMAIN votes' \subseteq Users, live' \subseteq Users
  PROVE  Inv' /\ Verdict
<1>1. TypeOK'
  BY DEF Inv, TypeOK
<1>2. Given' /\ Adjacent'
  BY DEF Inv, Given, Adjacent
<1>3. Known'
  BY KnownStays DEF Inv
<1>4. Told'
  <2>1. Told
    BY DEF Inv
  <2>2. RequesterMus' = RequesterMus
    BY DEF RequesterMus
  <2>3. pc = "userIDs" =>
          /\ \A mu \in local.mus : \E d \in seen : mu[1] \in delegators(d)
          /\ \A u \in Users, m \in Meetings : stands(u, m)' => <<u, m>> \in local.mus
    <3>1. ASSUME NEW u, NEW m, stands(u, m)' PROVE stands(u, m)
      BY <3>1 DEF stands
    <3> QED
      BY <2>1, <3>1 DEF Told
  <2> QED
    BY <2>1, <2>2, <2>3 DEF Told
<1> QED
  BY <1>1, <1>2, <1>3, <1>4 DEF Inv, Verdict, VoteReturns

\* What happens to the poll in the backend keeps the invariant.
LEMMA PollStepsKeep ==
  ASSUME Inv, Start \/ Stop \/ Clear PROVE Inv' /\ Verdict
<1>1. /\ UNCHANGED <<poll, body, ds, answer, live, result, seen, pc, local, fetched>>
      /\ pollState' \in {"unknown", "started", "stopped"}
      /\ votes' = votes \/ votes' = NoVotes
  BY DEF Start, Stop, Clear, history
<1>2. budget' \in Nat
  BY DEF Start, Stop, Clear, Inv, TypeOK
<1>3. DOMAIN votes \subseteq Users /\ live \subseteq Users /\ DOMAIN NoVotes = {}
  BY DEF Inv, TypeOK, NoVotes
<1> QED
  BY <1>1, <1>2, <1>3, RestKeeps

\* The vote that another request saves keeps the invariant.
LEMMA OtherVoteKeeps ==
  ASSUME Inv, OtherVote PROVE Inv' /\ Verdict
<1>1. /\ UNCHANGED <<poll, body, ds, budget, answer, live, result, seen, pc, local, fetched, pollState>>
      /\ pc = "backend" /\ local.voteUser \notin DOMAIN votes
      /\ votes' = Entered(votes, local.voteUser, voteData)
  BY DEF OtherVote, environment, history
<1>2. DOMAIN votes' = DOMAIN votes \cup {local.voteUser}
  BY <1>1, Saves
<1>3. local.voteUser \in Users
  BY <1>1 DEF Inv, Known, InVote, Decoded, Found, IsVoter
<1>4. /\ DOMAIN votes' \subseteq Users /\ live' \subseteq Users /\ budget' \in Nat
      /\ pollState' \in {"unknown", "started", "stopped"}
  BY <1>1, <1>2, <1>3 DEF Inv, TypeOK
<1> QED
  BY <1>1, <1>4, RestKeeps

\* What others write to liveVotes keeps the invariant.
LEMMA WriteLiveVotesKeeps ==
  ASSUME Inv, WriteLiveVotes PROVE Inv' /\ Verdict
<1>1. /\ UNCHANGED <<poll, body, ds, answer, result, seen, pc, local, fetched, votes, pollState>>
      /\ live' \subseteq Users
  BY DEF WriteLiveVotes, history
<1>2. /\ DOMAIN votes' \subseteq Users /\ budget' \in Nat
      /\ pollState' \in {"unknown", "started", "stopped"}
  BY <1>1 DEF WriteLiveVotes, Inv, TypeOK
<1> QED
  BY <1>1, <1>2, RestKeeps

\* Every step keeps the invariant, and a verdict is what ChecksHeld says.
LEMMA Inductive ==
  ASSUME Inv, [Next]_vars PROVE Inv' /\ Verdict
<1>1. CASE Next
  <2>1. CASE Change
    <3>1. result' = result
      BY <2>1 DEF Change
    <3> QED
      BY <2>1, <3>1, ChangeKeeps DEF Verdict, VoteReturns
  <2>2. CASE Step
    BY <2>2, ensurePresentKeeps, decodeKeeps, voteMeetingUserIDsKeeps, voteMeetingsKeeps,
       ensureGroupKeeps, delegationActivatedKeeps, forbidDelegatorToVoteKeeps, ensureSelfKeeps,
       requestMeetingUserIDsKeeps, ensureDelegateKeeps, ValidateKeeps, WeightKeeps,
       BackendVoteKeeps, LiveVoteKeeps, delegationsFromKeeps, votedUserIDsKeeps DEF Step
  <2> QED
    BY <1>1, <2>1, <2>2, VoteKeeps, VotedKeeps, PollStepsKeep, OtherVoteKeeps,
       WriteLiveVotesKeeps DEF Next
<1>2. CASE UNCHANGED vars
  <2>1. UNCHANGED <<poll, body, ds, budget, answer, live, result, seen, pc, local, fetched, votes, pollState>>
    BY <1>2 DEF vars, history, backendVars
  <2>2. /\ DOMAIN votes' \subseteq Users /\ live' \subseteq Users /\ budget' \in Nat
        /\ pollState' \in {"unknown", "started", "stopped"}
    BY <2>1 DEF Inv, TypeOK
  <2> QED
    BY <2>1, <2>2, RestKeeps
<1> QED
  BY <1>1, <1>2

\* The invariant holds: at every step of a request, what Vote and Voted have
\* found out was so in some state of the datastore since the request began.
THEOREM Invariance == Spec => []Inv
BY Initially, Inductive, PTL DEF Spec

\* The types; in particular the votes and liveVotes name users only.
THEOREM TypeCorrect == Spec => []TypeOK
<1>1. Inv => TypeOK
  BY DEF Inv
<1> QED
  BY <1>1, Invariance, PTL

\* However often the datastore changes during a request: ChecksHeld.
THEOREM VerdictsRest == Spec => ChecksHeld
<1>1. ASSUME Inv, [Next]_vars
      PROVE  [VoteReturns =>
                /\ result' = "ok" => poll.exists /\ Fits /\ MetInTurn
                /\ result' = "not-allowed" => Missed
                /\ result' = "invalid" => ~Fits]_vars
  BY <1>1, Inductive DEF Verdict
<1> QED
  BY <1>1, Invariance, PTL DEF Spec, ChecksHeld
-----------------------------------------------------------------------------
(***************************************************************************)
(* Which steps save, return and answer.                                    *)
(***************************************************************************)
\* Only a vote whose checks are done is saved.
LEMMA SavingStep ==
  ASSUME [Next]_vars, DOMAIN votes' \ DOMAIN votes # {}
  PROVE  /\ pc = "backend" /\ local.voteUser \notin DOMAIN votes
         /\ votes' = Entered(votes, local.voteUser, voteData)
<1>1. CASE BackendVote
  BY <1>1 DEF BackendVote
<1>2. CASE OtherVote
  BY <1>2 DEF OtherVote
<1>3. ASSUME UNCHANGED vars PROVE FALSE
  BY <1>3 DEF vars, backendVars
<1>4. ASSUME Vote \/ Voted \/ Start \/ Stop \/ Change \/ WriteLiveVotes PROVE FALSE
  BY <1>4 DEF Vote, Voted, Start, Stop, Change, WriteLiveVotes, backendVars
<1>6. ASSUME Clear PROVE FALSE
  BY <1>6 DEF Clear, NoVotes
<1>5. ASSUME Step, ~BackendVote PROVE FALSE
  BY <1>5 DEF Step, ensurePresent, decode, voteMeetingUserIDs, voteMeetings, ensureGroup,
       delegationActivated, forbidDelegatorToVote, ensureSelf, requestMeetingUserIDs,
       ensureDelegate, Validate, Weight, LiveVote, delegationsFrom, votedUserIDs, backendVars
<1> QED
  BY <1>1, <1>2, <1>3, <1>4, <1>5, <1>6 DEF Next

\* Vote returns ok after the vote was entered in liveVotes.
LEMMA AcceptingStep ==
  ASSUME [Next]_vars, VoteReturns, result' = "ok"
  PROVE  pc = "live"
<1>1. ASSUME UNCHANGED vars PROVE FALSE
  BY <1>1 DEF vars, VoteReturns
<1>2. ASSUME Vote \/ Voted \/ Start \/ Stop \/ Clear \/ Change \/ OtherVote \/ WriteLiveVotes PROVE FALSE
  BY <1>2 DEF Vote, Voted, Start, Stop, Clear, Change, OtherVote, WriteLiveVotes, VoteReturns
<1>3. ASSUME Step, ~LiveVote PROVE FALSE
  <2>1. ASSUME NEW kind, Return(kind), kind # "ok" PROVE FALSE
    BY <2>1 DEF Return
  <2>2. ASSUME NEW label, NEW l, NEW keys, Goto(label, l, keys) PROVE FALSE
    BY <2>2 DEF Goto, VoteReturns
  <2>3. ASSUME delegationsFrom \/ votedUserIDs PROVE FALSE
    BY <2>3 DEF delegationsFrom, votedUserIDs, VoteReturns
  <2>4. ASSUME ensurePresent \/ voteMeetingUserIDs \/ voteMeetings \/ ensureGroup PROVE FALSE
    BY <2>1, <2>2, <2>4
       DEF ensurePresent, voteMeetingUserIDs, getMeetingUserIDs, voteMeetings, ensureGroup
  <2>7. ASSUME decode PROVE FALSE
    <3> DEFINE id == maybeInt(body.userID)
               user == IF id.unmarshalled THEN id.value ELSE Requester
    <3>1. \/ Return("invalid") \/ Return("not-allowed")
          \/ Goto("voteMeetingUsers", [local EXCEPT !.voteUser = user], {})
      BY <2>7 DEF decode
    <3> QED
      BY <2>1, <2>2, <3>1
  <2>5. ASSUME delegationActivated \/ forbidDelegatorToVote \/ ensureSelf \/ requestMeetingUserIDs
        PROVE FALSE
    BY <2>1, <2>2, <2>5
       DEF delegationActivated, forbidDelegatorToVote, ensureSelf, requestMeetingUserIDs, getMeetingUserIDs
  <2>6. ASSUME ensureDelegate \/ Validate \/ Weight \/ BackendVote PROVE FALSE
    BY <2>1, <2>2, <2>6 DEF ensureDelegate, Validate, Weight, BackendVote
  <2> QED
    BY <1>3, <2>3, <2>4, <2>5, <2>6, <2>7 DEF Step
<1>4. CASE LiveVote
  BY <1>4 DEF LiveVote
<1> QED
  BY <1>1, <1>2, <1>3, <1>4 DEF Next

\* Voted answers in one step.
LEMMA AnsweringStep ==
  ASSUME [Next]_vars, pc = "userIDs", pc' = "idle"
  PROVE  votedUserIDs
<1>1. ASSUME UNCHANGED vars PROVE FALSE
  BY <1>1 DEF vars
<1>2. ASSUME Vote \/ Voted \/ Start \/ Stop \/ Clear \/ Change \/ OtherVote \/ WriteLiveVotes PROVE FALSE
  BY <1>2 DEF Vote, Voted, Start, Stop, Clear, Change, OtherVote, WriteLiveVotes
<1>3. CASE Step
  BY <1>3 DEF Step, ensurePresent, decode, voteMeetingUserIDs, getMeetingUserIDs, voteMeetings,
       ensureGroup, delegationActivated, forbidDelegatorToVote, ensureSelf, requestMeetingUserIDs,
       ensureDelegate, Validate, Weight, BackendVote, LiveVote, delegationsFrom
<1> QED
  BY <1>1, <1>2, <1>3 DEF Next
-----------------------------------------------------------------------------
(***************************************************************************)
(* The properties.                                                         *)
(***************************************************************************)
\* The weight that Vote computes is the first that is not zero.
LEMMA FirstWeight ==
  ASSUME Given, NEW d \in Datastore, NEW u \in Users
  PROVE  voteWeight(d, <<u, poll.meeting>>) = WeightOf(d, u)
<1> DEFINE a == vote_weight(d, <<u, poll.meeting>>)
           b == d.defaultWeight[u]
<1>1. a \in Int /\ b \in Int
  <2>1. <<u, poll.meeting>> \in MeetingUsers
    BY DEF MeetingUsers, Given, PollType
  <2> QED
    BY <2>1, FieldTypes DEF vote_weight
<1>2. <<u, poll.meeting>>[1] = u
  OBVIOUS
<1>3. voteWeight(d, <<u, poll.meeting>>) =
        IF d.weighted THEN IF a # 0 THEN a ELSE IF b # 0 THEN b ELSE 1 ELSE 1
  BY <1>1 DEF voteWeight, Default
<1>4. CASE d.weighted
  <2> DEFINE w == <<a, b, 1>>
             k == IF a # 0 THEN 1 ELSE IF b # 0 THEN 2 ELSE 3
             First(i) == w[i] # 0 /\ \A j \in 1 .. i - 1 : w[j] = 0
             c == CHOOSE i \in DOMAIN w : First(i)
  <2>1. WeightOf(d, u) = w[c]
    BY <1>4 DEF WeightOf
  <2>2. DOMAIN w = 1 .. 3 /\ w[1] = a /\ w[2] = b /\ w[3] = 1
    OBVIOUS
  <2> HIDE DEF w, a, b
  <2>3. k \in DOMAIN w /\ First(k)
    BY <1>1, <2>2
  <2>4. \A i \in DOMAIN w : First(i) => i = k
    BY <1>1, <2>2
  <2>5. w[k] = IF a # 0 THEN a ELSE IF b # 0 THEN b ELSE 1
    BY <2>2
  <2> HIDE DEF First, k
  <2>6. c = k
    BY <2>3, <2>4
  <2> HIDE DEF c
  <2> QED
    BY <1>3, <1>4, <2>1, <2>5, <2>6
<1>5. CASE ~d.weighted
  <2> DEFINE w == <<1>>
             First(i) == w[i] # 0 /\ \A j \in 1 .. i - 1 : w[j] = 0
             c == CHOOSE i \in DOMAIN w : First(i)
  <2>1. WeightOf(d, u) = w[c]
    BY <1>5 DEF WeightOf
  <2>2. DOMAIN w = {1} /\ w[1] = 1
    OBVIOUS
  <2>3. First(1)
    BY <2>2
  <2> HIDE DEF w, First
  <2>4. c = 1
    BY <2>2, <2>3
  <2> HIDE DEF c
  <2> QED
    BY <1>3, <1>5, <2>1, <2>2, <2>4
<1> QED
  BY <1>4, <1>5

\* For every poll, datastore and payload, and however often the datastore
\* changes: SavedObject.
THEOREM ObjectsSaved == Spec => SavedObject
<1>1. ASSUME Inv, [Next]_vars, NEW u \in DOMAIN votes' \ DOMAIN votes
      PROVE  /\ u = VoteFor
             /\ votes'[u].value = body.value
             /\ votes'[u].weight \in {WeightOf(d, u) : d \in seen}
             /\ poll.type # "named" => votes'[u].requestUser = 0 /\ votes'[u].voteUser = 0
  <2>1. /\ pc = "backend" /\ local.voteUser \notin DOMAIN votes
        /\ votes' = Entered(votes, local.voteUser, voteData)
    BY <1>1, SavingStep
  <2>2. local.voteUser = VoteFor /\ VoteFor \in Users /\ ReadWeight
    BY <1>1, <2>1 DEF Inv, Known, InVote, Decoded, Found, IsVoter
  <2>3. u = VoteFor /\ votes'[u] = voteData
    BY <1>1, <2>1, <2>2, Saves
  <2>4. /\ voteData.value = body.value /\ voteData.weight = local.weight
        /\ poll.type # "named" => voteData.requestUser = 0 /\ voteData.voteUser = 0
    BY DEF voteData
  <2>5. PICK d \in seen : local.weight = voteWeight(d, <<VoteFor, poll.meeting>>)
    BY <2>2 DEF ReadWeight
  <2>6. local.weight = WeightOf(d, VoteFor)
    BY <1>1, <2>2, <2>5, FirstWeight DEF Inv, Given
  <2> QED
    BY <2>3, <2>4, <2>5, <2>6
<1>2. ASSUME Inv, [Next]_vars
      PROVE  [\A u \in DOMAIN votes' \ DOMAIN votes :
                /\ u = VoteFor
                /\ votes'[u].value = body.value
                /\ votes'[u].weight \in {WeightOf(d, u) : d \in seen}
                /\ poll.type # "named" => votes'[u].requestUser = 0 /\ votes'[u].voteUser = 0]_vars
  BY <1>1, <1>2
<1> QED
  BY <1>2, Invariance, PTL DEF Spec, SavedObject

\* VotedAnswers: whom Voted tells of, however often the datastore changes
\* meanwhile and whatever others write to liveVotes.
THEOREM AnswersTold == Spec => VotedAnswers
<1>1. ASSUME Inv, [Next]_vars, pc = "userIDs", pc' = "idle"
      PROVE  /\ answer' \subseteq live \cap ({Requester} \cup UNION {delegators(d) : d \in seen})
             /\ \A u \in live : u = Requester \/ standing(u) => u \in answer'
  <2>1. answer' = live \cap ({Requester} \cup {mu[1] : mu \in local.mus \cap ds.members})
    BY <1>1, AnsweringStep DEF votedUserIDs
  <2>2. live \subseteq Users /\ ds \in seen
    BY <1>1 DEF Inv, TypeOK, Given
  <2>3. /\ \A mu \in local.mus : \E d \in seen : mu[1] \in delegators(d)
        /\ \A u \in Users, m \in Meetings : stands(u, m) => <<u, m>> \in local.mus
    BY <1>1 DEF Inv, Told
  <2>4. ASSUME NEW u \in answer', u # Requester PROVE u \in UNION {delegators(d) : d \in seen}
    <3>1. PICK mu \in local.mus : u = mu[1]
      BY <2>1, <2>4
    <3>2. PICK d \in seen : mu[1] \in delegators(d)
      BY <2>3
    <3> QED
      BY <3>1, <3>2
  <2>5. ASSUME NEW u \in live, standing(u)
        PROVE  u \in {mu[1] : mu \in local.mus \cap ds.members}
    <3>1. PICK m \in Meetings : stands(u, m)
      BY <2>5 DEF standing
    <3>2. <<u, m>> \in local.mus
      BY <2>2, <2>3, <3>1
    <3>3. <<Requester, m>> # None
      BY UsersAssumption, NoneIsNone DEF MeetingUsers
    <3>4. <<u, m>> \in ds.members
      BY <2>2, <3>1, <3>3 DEF vote_delegated_to_id, stands
    <3>5. <<u, m>>[1] = u
      OBVIOUS
    <3> QED
      BY <3>2, <3>4, <3>5
  <2> QED
    BY <2>1, <2>4, <2>5
<1>2. ASSUME Inv, [Next]_vars
      PROVE  [pc = "userIDs" /\ pc' = "idle" =>
                /\ answer' \subseteq live \cap ({Requester} \cup UNION {delegators(d) : d \in seen})
                /\ \A u \in live : u = Requester \/ standing(u) => u \in answer']_vars
  BY <1>1, <1>2
<1> QED
  BY <1>2, Invariance, PTL DEF Spec, VotedAnswers

\* PreloadCovers: whatever an accepted vote reads, preload has asked for.
THEOREM PreloadSuffices == Spec => PreloadCovers
<1>1. ASSUME Inv, [Next]_vars, VoteReturns, result' = "ok", seen = {ds},
             warm = {PollKey} \cup preload(ds)
      PROVE  fetched \subseteq warm \cup {MuKey("meeting_id", mu) : mu \in elsewhere}
  <2> DEFINE voter == <<VoteFor, poll.meeting>>
             requester == <<Requester, poll.meeting>>
             others == {MuKey("meeting_id", mu) : mu \in elsewhere}
  <2>1. pc = "live"
    BY <1>1, AcceptingStep
  <2>2. /\ fetched \subseteq ReadKeys /\ Entitled(ds, VoteFor) /\ Requester \in ds.present
        /\ VoteFor # Requester => DelegatedTo(ds, VoteFor) = requester
    BY <1>1, <2>1 DEF Inv, Known, InVote, Found, Decoded, Ensured, SeenPresent, SeenEntitled,
                      SeenDelegation
  <2>3. ds.members \subseteq MeetingUsers
    BY <1>1, FieldTypes DEF Inv, TypeOK
  <2>4. voter \in entitledMeetingUsers(ds) /\ voter[1] = VoteFor
    BY <2>2 DEF Entitled, group_ids, entitledMeetingUsers
  <2>5. VoteFor # Requester => requester \in delegates(ds)
    <3>1. requester # None
      BY <1>1, NoMember DEF Inv, TypeOK
    <3> QED
      BY <2>2, <2>4, <3>1 DEF delegates, DelegatedTo
  <2>6. requester[1] = Requester
    OBVIOUS
  <2>7. \A x \in MeetingUsers : x = <<x[1], x[2]>>
    BY DEF MeetingUsers
  <2> HIDE DEF voter, requester
  <2>8. {MeetingKey(f) : f \in {"enable_vote_weight", "enable_vote_delegations", "forbid_delegator"}}
          \subseteq preload(ds)
    BY DEF preload, round1
  <2>9. \A f \in {"group_ids", "delegated_to", "vote_weight", "meeting_id"} :
          MuKey(f, voter) \in preload(ds)
    BY <2>4 DEF preload, round2
  <2>10. \A f \in {"default_vote_weight", "meeting_user_ids", "is_present"} :
           UserKey(f, VoteFor) \in preload(ds)
    BY <2>4 DEF preload, round4
  <2>11. VoteFor # Requester =>
           /\ MuKey("meeting_id", requester) \in preload(ds)
           /\ UserKey("meeting_user_ids", Requester) \in preload(ds)
           /\ UserKey("is_present", Requester) \in preload(ds)
    BY <2>5, <2>6 DEF preload, round3, round4
  <2>12. \A x \in MeetingUsers :
           x = voter \/ x = requester \/ x[1] \notin {VoteFor, Requester} \/ x \in elsewhere
    BY <2>7 DEF voter, requester, elsewhere
  <2>13. ASSUME NEW x \in MeetingUsers, x[1] = VoteFor
         PROVE  MuKey("meeting_id", x) \in preload(ds) \cup others
    <3>1. x = voter \/ x \in elsewhere
      BY <2>7, <2>13 DEF voter, elsewhere
    <3> QED
      BY <2>9, <3>1
  <2>14. ASSUME NEW x \in MeetingUsers, x[1] = Requester, VoteFor # Requester
         PROVE  MuKey("meeting_id", x) \in preload(ds) \cup others
    <3>1. x = requester \/ x \in elsewhere
      BY <2>7, <2>14 DEF requester, elsewhere
    <3> QED
      BY <2>11, <2>14, <3>1
  <2> HIDE DEF others
  <2>15. ReadKeys \subseteq {PollKey} \cup preload(ds) \cup others
    <3> SUFFICES ASSUME NEW key \in ReadKeys PROVE key \in {PollKey} \cup preload(ds) \cup others
      OBVIOUS
    <3>1. CASE key \in {PollKey, UserKey("is_present", Requester),
                        UserKey("meeting_user_ids", VoteFor), UserKey("default_vote_weight", VoteFor)}
      BY <2>10, <2>11, <3>1
    <3>2. CASE key \in {MeetingKey(f) : f \in {"enable_vote_weight", "enable_vote_delegations",
                                               "forbid_delegator"}}
      BY <2>8, <3>2
    <3>3. CASE key \in {MuKey(f, <<VoteFor, poll.meeting>>) :
                          f \in {"group_ids", "delegated_to", "vote_weight"}}
      BY <2>9, <3>3 DEF voter
    <3>4. CASE key \in {MuKey("meeting_id", mu) : mu \in {x \in MeetingUsers : x[1] = VoteFor}}
      BY <2>13, <3>4
    <3>5. CASE /\ VoteFor # Requester
               /\ key \in {UserKey("meeting_user_ids", Requester)} \cup
                    {MuKey("meeting_id", mu) : mu \in {x \in MeetingUsers : x[1] = Requester}}
      BY <2>11, <2>14, <3>5
    <3> QED
      BY <3>1, <3>2, <3>3, <3>4, <3>5 DEF ReadKeys
  <2> QED
    BY <1>1, <2>2, <2>15 DEF others
<1>2. ASSUME Inv, [Next]_vars
      PROVE  [VoteReturns /\ result' = "ok"
               /\ seen = {ds} /\ warm = {PollKey} \cup preload(ds)
              => fetched \subseteq warm \cup {MuKey("meeting_id", mu) : mu \in elsewhere}]_vars
  BY <1>1, <1>2
<1> QED
  BY <1>2, Invariance, PTL DEF Spec, PreloadCovers

\* VerdictOfSomeState: one change of the datastore touches at most one of the
\* four things that MayVote asks for, so that what Vote has read in both states
\* is what one of them says.
THEOREM VerdictsCoherent == Spec => VerdictOfSomeState
<1>1. ASSUME Inv, [Next]_vars, VoteReturns,
             NEW d \in seen, seen \subseteq {d, ds}, d.members = ds.members
      PROVE  /\ result' = "ok" => \E e \in seen : Acceptable(e)
             /\ result' \in {"not-allowed", "invalid"} => \E e \in seen : ~Acceptable(e)
  <2> DEFINE P(e) == Requester \in e.present
             E(e) == Entitled(e, VoteFor)
             D(e) == DelegatedTo(e, VoteFor)
  <2>1. Near(d, ds) /\ ds \in seen
    BY <1>1 DEF Inv, Adjacent, Given
  <2>2. d.groups = ds.groups => (E(d) <=> E(ds))
    BY <1>1 DEF Entitled, group_ids
  <2>3. d.delegate = ds.delegate => D(d) = D(ds)
    BY <1>1 DEF DelegatedTo, vote_delegated_to_id
  <2>4. \/ /\ E(d) <=> E(ds)
           /\ D(d) = D(ds) /\ d.delegations = ds.delegations /\ d.forbid = ds.forbid
        \/ /\ P(d) <=> P(ds)
           /\ D(d) = D(ds) /\ d.delegations = ds.delegations /\ d.forbid = ds.forbid
        \/ /\ P(d) <=> P(ds)
           /\ E(d) <=> E(ds)
           /\ d.delegations = ds.delegations /\ d.forbid = ds.forbid
        \/ /\ P(d) <=> P(ds)
           /\ E(d) <=> E(ds)
           /\ D(d) = D(ds) /\ d.forbid = ds.forbid
        \/ /\ P(d) <=> P(ds)
           /\ E(d) <=> E(ds)
           /\ D(d) = D(ds) /\ d.delegations = ds.delegations
    <3> HIDE DEF E, D
    <3> QED
      BY <2>1, <2>2, <2>3 DEF Near
  <2>5. /\ result' = "ok" => poll.exists /\ Fits /\ MetInTurn
        /\ result' = "not-allowed" => Missed
        /\ result' = "invalid" => ~Fits
    BY <1>1, Inductive DEF Verdict
  <2>6. result' = "ok" => VoteFor \in Users
    BY <1>1, AcceptingStep DEF Inv, Known, InVote, Decoded, Found, IsVoter
  <2>7. \A e : Acceptable(e) <=>
          /\ poll.exists /\ Fits /\ VoteFor \in Users /\ P(e) /\ E(e)
          /\ IF VoteFor = Requester THEN ~(e.delegations /\ e.forbid /\ D(e) # None)
             ELSE e.delegations /\ D(e) = <<Requester, poll.meeting>>
    BY DEF Acceptable, MayVote
  <2>8. MetInTurn <=>
          /\ P(d) \/ P(ds)
          /\ E(d) \/ E(ds)
          /\ IF VoteFor = Requester
             THEN \/ ~d.delegations \/ ~d.forbid \/ D(d) = None
                  \/ ~ds.delegations \/ ~ds.forbid \/ D(ds) = None
             ELSE /\ d.delegations \/ ds.delegations
                  /\ D(d) = <<Requester, poll.meeting>> \/ D(ds) = <<Requester, poll.meeting>>
    BY <1>1, <2>1 DEF MetInTurn
  <2>9. Missed <=>
          \/ VoteFor \notin Users
          \/ ~P(d) \/ ~P(ds) \/ ~E(d) \/ ~E(ds)
          \/ IF VoteFor = Requester
             THEN /\ d.delegations \/ ds.delegations
                  /\ d.forbid \/ ds.forbid
                  /\ D(d) # None \/ D(ds) # None
             ELSE \/ ~d.delegations \/ D(d) # <<Requester, poll.meeting>>
                  \/ ~ds.delegations \/ D(ds) # <<Requester, poll.meeting>>
    BY <1>1, <2>1 DEF Missed
  <2> HIDE DEF P, E, D
  <2>10. result' = "ok" => Acceptable(d) \/ Acceptable(ds)
    BY <2>4, <2>5, <2>6, <2>7, <2>8
  <2>11. result' = "not-allowed" => ~Acceptable(d) \/ ~Acceptable(ds)
    BY <2>4, <2>5, <2>7, <2>9
  <2>12. result' = "invalid" => ~Acceptable(ds)
    BY <2>5, <2>7
  <2> QED
    BY <2>1, <2>10, <2>11, <2>12
<1>2. ASSUME Inv, [Next]_vars
      PROVE  [VoteReturns /\ (\E d \in seen : seen \subseteq {d, ds} /\ d.members = ds.members) =>
                /\ result' = "ok" => \E d \in seen : Acceptable(d)
                /\ result' \in {"not-allowed", "invalid"} => \E d \in seen : ~Acceptable(d)]_vars
  BY <1>1, <1>2
<1> QED
  BY <1>2, Invariance, PTL DEF Spec, VerdictOfSomeState
=============================================================================
