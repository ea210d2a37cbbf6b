------------------------------- MODULE Ballot -------------------------------
(***************************************************************************)
(* The ballot of a vote request: how its "value" is decoded and when it    *)
(* fits the poll (ballotValue and validate of vote/vote.go).               *)
(*                                                                         *)
(* A JSON value is a record with its kind: a string, null, an object from  *)
(* option ids to members, or "other" for what no ballot can be (a number,  *)
(* a list, an object whose keys are not numbers).  A field that is not in  *)
(* the payload has the kind "absent".  A poll is a record of the fields    *)
(* that validate reads.  The messages of rejected ballots are left out.    *)
(***************************************************************************)
EXTENDS Integers, Sequences, FiniteSetsExt

JString(s) == [kind |-> "string", str |-> s]
JInt(n) == [kind |-> "int", int |-> n]
JNull == [kind |-> "null"]
JObject(members) == [kind |-> "object", members |-> members]
JOther == [kind |-> "other"]
JAbsent == [kind |-> "absent"]

\* The payloads: a string, a number, null, something else, nothing, or an object
\* of which only the numbers, the strings and null are told apart.
JScalars == [kind : {"string"}, str : STRING] \cup [kind : {"int"}, int : Int] \cup {JNull, JOther}
JSON(j) ==
  \/ j \in JScalars \cup {JAbsent}
  \/ /\ j = JObject(j.members)
     /\ IsFiniteSet(DOMAIN j.members)
     /\ \A o \in DOMAIN j.members : j.members[o] \in JScalars

\* The fields of a poll that validate reads; global is the set of the answers
\* that may be given to all options at once.
PollFields(poll) ==
  /\ poll.pollmethod \in STRING
  /\ IsFiniteSet(poll.optionIDs)
  /\ poll.global \subseteq {"Y", "N", "A"}
  /\ {poll.minVotesAmount, poll.maxVotesAmount, poll.maxVotesPerOption} \subseteq Nat

\* Go maps from option ids; the nil map is not the empty map.
NilMap == [nil |-> TRUE, map |-> <<>>]
GoMap(f) == [nil |-> FALSE, map |-> f]

ballotValue == [str |-> "", optionAmount |-> NilMap, optionYNA |-> NilMap]

\* All members of the object have this kind.  A null member leaves the zero
\* value of the map's element.
AllOf(j, kind) ==
  j.kind = "object" /\ \A o \in DOMAIN j.members : j.members[o].kind \in {kind, "null"}

Amounts(j) ==
  [o \in DOMAIN j.members |-> IF j.members[o] = JNull THEN 0 ELSE j.members[o].int]
Answers(j) ==
  [o \in DOMAIN j.members |-> IF j.members[o] = JNull THEN "" ELSE j.members[o].str]

Decodable(j) == j.kind \in {"string", "null", "absent"} \/ AllOf(j, "int") \/ AllOf(j, "string")

\* The first target that fits: a string (null fits too and changes nothing),
\* then the amounts, then the answers.
UnmarshalJSON(j) ==
  IF j.kind = "string" THEN [ballotValue EXCEPT !.str = j.str]
  ELSE IF j.kind \in {"null", "absent"} THEN ballotValue
  ELSE IF AllOf(j, "int") THEN [ballotValue EXCEPT !.optionAmount = GoMap(Amounts(j))]
  ELSE [ballotValue EXCEPT !.optionYNA = GoMap(Answers(j))]

Type(v) ==
  IF v.str # "" THEN "String"
  ELSE IF ~v.optionAmount.nil THEN "OptionAmount"
  ELSE IF ~v.optionYNA.nil THEN "OptionString"
  ELSE "Unknown"

DecodableUser(j) == j.kind \in {"int", "null", "absent"}

\* A user_id of null is decoded as 0, which is not the same as none at all.
maybeInt(j) ==
  [value |-> IF j.kind = "int" THEN j.int ELSE 0, unmarshalled |-> j.kind # "absent"]

Default(n, d) == IF n = 0 THEN d ELSE n

\* One round of the loop over the amounts; it returns at the first bad entry.
Visit(poll, amounts, acc, o) ==
  IF acc.returned THEN acc
  ELSE IF amounts[o] < 0 \/ amounts[o] > Default(poll.maxVotesPerOption, 1) \/ o \notin poll.optionIDs
  THEN [returned |-> TRUE, sum |-> acc.sum]
  ELSE [returned |-> FALSE, sum |-> acc.sum + amounts[o]]

\* The loop, in the order the map happens to have.
AmountsFit(poll, amounts, order) ==
  LET end == MapThenFoldSet(LAMBDA o, acc : Visit(poll, amounts, acc, o),
                            [returned |-> FALSE, sum |-> 0],
                            LAMBDA i : order[i], Max, DOMAIN order)
  IN
  /\ ~end.returned
  /\ Default(poll.minVotesAmount, 1) <= end.sum
  /\ end.sum <= Default(poll.maxVotesAmount, 1)

AnswersFit(poll, answers) ==
  LET selected == Cardinality(DOMAIN answers) IN
  /\ Default(poll.minVotesAmount, 1) <= selected
  /\ selected <= Default(poll.maxVotesAmount, Cardinality(poll.optionIDs))
  /\ \A o \in DOMAIN answers :
       /\ o \in poll.optionIDs
       /\ answers[o] \in {"Y", "N"} \/ (answers[o] = "A" /\ poll.pollmethod = "YNA")

\* The keys of the decoded amounts, which validate visits in any order.
Orders(S) == Bijection(1 .. Cardinality(S), S)
VisitOrders(v) == Orders(DOMAIN v.optionAmount.map)

validate(poll, v, order) ==
  \/ /\ poll.pollmethod \in {"Y", "N", "YN", "YNA"}
     /\ Type(v) = "String"
     /\ v.str \in poll.global
  \/ /\ poll.pollmethod \in {"Y", "N"}
     /\ Type(v) = "OptionAmount"
     /\ AmountsFit(poll, v.optionAmount.map, order)
  \/ /\ poll.pollmethod \in {"YN", "YNA"}
     /\ Type(v) = "OptionString"
     /\ AnswersFit(poll, v.optionYNA.map)
-----------------------------------------------------------------------------
(***************************************************************************)
(* What a valid ballot is, said of the JSON value alone.                   *)
(***************************************************************************)
Number(m) == IF m.kind = "int" THEN m.int ELSE 0

GlobalAnswer(poll, j) ==
  /\ poll.pollmethod \in {"Y", "N", "YN", "YNA"}
  /\ \E s \in {"Y", "N", "A"} \cap poll.global : j = JString(s)

\* A distribution of votes over options of the poll, within the poll's limits.
Distribution(poll, j) ==
  /\ poll.pollmethod \in {"Y", "N"}
  /\ j.kind = "object"
  /\ DOMAIN j.members \subseteq poll.optionIDs
  /\ \A o \in DOMAIN j.members :
       /\ j.members[o].kind \in {"int", "null"}
       /\ Number(j.members[o]) \in 0 .. Default(poll.maxVotesPerOption, 1)
  /\ MapThenSumSet(LAMBDA o : Number(j.members[o]), DOMAIN j.members)
       \in Default(poll.minVotesAmount, 1) .. Default(poll.maxVotesAmount, 1)

\* An answer for each of some options of the poll.
AnswerPerOption(poll, j) ==
  LET answers == IF poll.pollmethod = "YNA" THEN {"Y", "N", "A"} ELSE {"Y", "N"} IN
  /\ poll.pollmethod \in {"YN", "YNA"}
  /\ j.kind = "object"
  /\ DOMAIN j.members \subseteq poll.optionIDs
  /\ \A o \in DOMAIN j.members : \E s \in answers : j.members[o] = JString(s)
  /\ Cardinality(DOMAIN j.members) \in
       Default(poll.minVotesAmount, 1)
         .. Default(poll.maxVotesAmount, Cardinality(poll.optionIDs))

ValidBallot(poll, j) ==
  GlobalAnswer(poll, j) \/ Distribution(poll, j) \/ AnswerPerOption(poll, j)
=============================================================================
