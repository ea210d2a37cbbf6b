--------------------------- MODULE MCVoteRequest ---------------------------
(***************************************************************************)
(* Instances of VoteRequest for TLC: user 1 sends the request, user 2 may  *)
(* have delegated to them, and both may belong to a second meeting.        *)
(* The scenarios: every arrangement of members, groups, delegations and    *)
(* settings with a plain ballot, where the datastore may change once; some *)
(* of them where it may change twice; weights, poll types and user ids;    *)
(* and every poll with every ballot for a user who may vote.               *)
(***************************************************************************)
EXTENDS VoteRequest

Here(u) == <<u, "m1">>
There(u) == <<u, "m2">>

PlainPoll ==
  [exists |-> TRUE, meeting |-> "m1", type |-> "named", entitledGroupIDs |-> {"g1"},
   pollmethod |-> "Y", optionIDs |-> {1, 2}, global |-> {"Y"},
   minVotesAmount |-> 0, maxVotesAmount |-> 0, maxVotesPerOption |-> 0]

PlainDatastore ==
  [present |-> {1}, members |-> {Here(1), Here(2)},
   groups |-> [mu \in MeetingUsers |-> IF mu = Here(1) \/ mu = Here(2) THEN {"g1"} ELSE {}],
   delegate |-> [mu \in MeetingUsers |-> None],
   delegations |-> TRUE, forbid |-> FALSE, weighted |-> FALSE,
   weight |-> [mu \in MeetingUsers |-> 0], defaultWeight |-> [u \in Users |-> 0]]

Payload(userID, value) == [userID |-> userID, value |-> value]

\* Members, groups, delegations and settings.
Datastores ==
  {[PlainDatastore EXCEPT
      !.present = present, !.members = members \cup away,
      !.groups = [mu \in MeetingUsers |-> IF mu \in entitled THEN {"g1"} ELSE {"g2"}],
      !.delegate = [mu \in MeetingUsers |-> IF mu = Here(2) THEN to2
                                            ELSE IF mu = Here(1) THEN to1
                                            ELSE IF mu = There(2) THEN There(1) ELSE None],
      !.delegations = delegations, !.forbid = forbid] :
     present \in {{}, {1}}, members \in SUBSET {Here(1), Here(2)},
     away \in {{}, {There(1), There(2)}}, entitled \in SUBSET {Here(1), Here(2)},
     to1 \in {None, Here(2)}, to2 \in {None, Here(1)},
     delegations \in BOOLEAN, forbid \in BOOLEAN}

Eligibility ==
  {[poll |-> PlainPoll, ds |-> d, body |-> Payload(u, JString("Y")), budget |-> 1] :
     d \in Datastores, u \in {JAbsent, JInt(2)}}

\* Two changes during one request.
Unsteady ==
  {[poll |-> PlainPoll,
    ds |-> [PlainDatastore EXCEPT !.delegate = [mu \in MeetingUsers |->
                                    IF mu[1] = by THEN <<3 - by, mu[2]>> ELSE None],
                                  !.delegations = delegations, !.forbid = ~delegations],
    body |-> Payload(JInt(u), JString("Y")), budget |-> 2] :
     by \in {1, 2}, delegations \in BOOLEAN, u \in {1, 2}}

\* User ids, weights, poll types and polls that do not exist.
Objects ==
  {[poll |-> [PlainPoll EXCEPT !.type = type, !.exists = exists],
    ds |-> [PlainDatastore EXCEPT !.delegate[Here(2)] = Here(1), !.weighted = weighted,
                                  !.weight[Here(2)] = w, !.defaultWeight[2] = dw],
    body |-> Payload(u, JString("Y")), budget |-> 1] :
     u \in {JNull, JString("2"), JInt(0), JInt(1), JInt(2), JInt(3)},
     type \in {"named", "pseudoanonymous", "analog"}, exists \in BOOLEAN,
     weighted \in BOOLEAN, w \in {0, 2}, dw \in {0, 3}}

Members == {JInt(n) : n \in -1 .. 2} \cup {JString(s) : s \in {"Y", "A", "X"}} \cup {JNull}

Values ==
  {JString(s) : s \in {"Y", "A", "X", ""}} \cup {JNull, JAbsent, JOther}
    \cup {JObject(f) : f \in UNION {[S -> Members] : S \in SUBSET {1, 2}}}

Polls ==
  {[PlainPoll EXCEPT !.pollmethod = method, !.optionIDs = options, !.global = global,
                     !.minVotesAmount = min, !.maxVotesAmount = max, !.maxVotesPerOption = per] :
     method \in {"Y", "N", "YN", "YNA", "X"}, options \in {{1}, {1, 2}},
     global \in {{}, {"Y", "N", "A"}}, min \in {0, 2}, max \in 0 .. 2, per \in {0, 2}}

Ballots ==
  {[poll |-> p, ds |-> PlainDatastore, body |-> Payload(JAbsent, v), budget |-> 0] :
     p \in Polls, v \in Values}

MCScenarios == Eligibility \cup Unsteady \cup Objects \cup Ballots
=============================================================================
