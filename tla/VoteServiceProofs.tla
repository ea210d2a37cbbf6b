------------------------- MODULE VoteServiceProofs -------------------------
(***************************************************************************)
(* A single instance shows every vote that its backends hold, for every    *)
(* number of polls, users, voters and managers, whatever their requests    *)
(* overlap with, across restarts and whatever backend the datastore gives  *)
(* a poll, save the votes that were dropped on the way: SavedVotesShown.   *)
(*                                                                         *)
(* SavedVotesShown is not inductive.  The swap of the first load is safe   *)
(* because nothing is served before it, the memory backend is empty, and   *)
(* what it lacks of the long backend is among the dropped votes; and no    *)
(* load comes later.                                                       *)
(***************************************************************************)
EXTENDS ShownVotes, TLAPS

NoOrphans ==
  \A b \in Backends, p \in Polls : state[b][p] = "unknown" => votes[b][p] = {}

LoadedOnce == \A i \in Instances : serving[i] => loader[i].pc = "sleep"

\* While the instance starts.
Starting ==
  \A i \in Instances : ~serving[i] =>
    /\ \A c \in Clients : pc[c] = "idle"
    /\ \A p \in Polls : votes["fast"][p] = {}
    /\ loader[i].pc = "swap" => 
         \A p \in Polls : votes["long"][p] \subseteq loader[i].data[p] \cup missed[p]

IInv ==
  /\ TypeOK
  /\ NoOrphans
  /\ LoadedOnce
  /\ Starting
  /\ SavedVotesShown
-----------------------------------------------------------------------------
\* The fields of a request by its operation.
LEMMA RequestType ==
  ASSUME TypeOK, NEW c \in Clients, pc[c] # "idle"
  PROVE  /\ req[c].op \in {"start", "stop", "vote", "clear", "clearAll"}
         /\ req[c].at \in Instances
         /\ req[c].op # "clearAll" => req[c].poll \in Polls
         /\ req[c].op \in {"start", "stop", "vote"} => req[c].to \in Backends
         /\ req[c].op = "vote" => req[c].user \in Users /\ c \in Voters
         /\ req[c].op # "vote" => c \in Managers
<1>1. req[c] \in RequestsOf(c)
  BY DEF TypeOK
<1>2. CASE c \in Voters
  BY <1>1, <1>2 DEF RequestsOf
<1>3. CASE c \notin Voters
  <2>1. c \in Managers
    BY <1>3 DEF Clients
  <2>2. \/ req[c] \in [op : {"start", "stop"}, poll : Polls, at : Instances, to : Backends]
        \/ req[c] \in [op : {"clear"}, poll : Polls, at : Instances]
        \/ req[c] \in [op : {"clearAll"}, at : Instances]
    BY <1>1, <1>3 DEF RequestsOf
  <2> QED
    BY <2>1, <2>2
<1> QED
  BY <1>2, <1>3

\* A step of c that only moves its own request along.
LEMMA CallType ==
  ASSUME TypeOK, NEW c \in Clients, pc[c] # "idle",
         \/ Return(c)
         \/ \E l \in {"begin", "long", "live"} : Goto(c, l)
  PROVE  /\ pc' \in [Clients -> {"idle", "begin", "long", "live"}]
         /\ DOMAIN req' = Clients
         /\ \A d \in Clients : req'[d] \in IF pc'[d] = "idle" THEN {NoRequest} ELSE RequestsOf(d)
  BY DEF TypeOK, Return, Goto

\* Writing one poll of one backend.
LEMMA StoreType ==
  ASSUME NEW S, NEW f \in [Backends -> [Polls -> S]], NEW b \in Backends, NEW p, NEW x \in S
  PROVE  [f EXCEPT ![b][p] = x] \in [Backends -> [Polls -> S]]
<1>1. [f[b] EXCEPT ![p] = x] \in [Polls -> S]
  OBVIOUS
<1> QED
  BY <1>1

LoaderSet == [pc : {"sleep", "list", "fast", "swap"},
              todo : SUBSET Polls, data : [Polls -> SUBSET Users]]

LEMMA InitType == Init => TypeOK
  BY DEF Init, TypeOK, EmptyMap, Loading, Backends

LEMMA InitIInv == HInit => IInv
<1> SUFFICES ASSUME Init PROVE IInv
  BY DEF HInit
<1>1. TypeOK
  BY InitType
<1>2. NoOrphans /\ LoadedOnce /\ SavedVotesShown
  BY DEF Init, NoOrphans, LoadedOnce, SavedVotesShown, saved, Backends
<1>3. Starting
  BY DEF Init, Starting, Loading, Backends
<1> QED
  BY <1>1, <1>2, <1>3 DEF IInv

\* Every step keeps the types.
LEMMA TypeStep == TypeOK /\ [Next]_vars => TypeOK'
<1> SUFFICES ASSUME TypeOK, [Next]_vars PROVE TypeOK'
  OBVIOUS
<1> USE DEF stores, instances, calls
<1>b. "fast" \in Backends /\ "long" \in Backends
  BY DEF Backends
<1>e. EmptyMap \in [Polls -> SUBSET Users] /\ Loading \in LoaderSet /\ Asleep \in LoaderSet
  BY DEF EmptyMap, Loading, Asleep, LoaderSet
<1>1. ASSUME NEW c \in Clients, Invoke(c) PROVE TypeOK'
  BY <1>1 DEF TypeOK, Invoke
<1>2. ASSUME NEW c \in Clients, Reject(c) \/ Fail(c) PROVE TypeOK'
  <2>1. pc[c] # "idle" /\ Return(c) /\ UNCHANGED <<stores, instances>>
    BY <1>2 DEF Reject, Fail
  <2> QED
    BY <2>1, CallType DEF TypeOK
<1>3. ASSUME NEW c \in Clients, Start(c) \/ Stop(c) PROVE TypeOK'
  <2>1. /\ pc[c] # "idle" /\ Return(c) /\ UNCHANGED <<votes, fast, instances>>
        /\ req[c].to \in Backends /\ req[c].poll \in Polls
    BY <1>3, RequestType DEF Start, Stop, At
  <2>2. PICK x \in {"unknown", "started", "stopped"} :
          state' = [state EXCEPT ![req[c].to][req[c].poll] = x]
    <3>1. state[req[c].to][req[c].poll] \in {"unknown", "started", "stopped"}
      BY <2>1 DEF TypeOK
    <3> DEFINE old == state[req[c].to][req[c].poll]
               new == IF req[c].op = "start"
                      THEN IF old = "stopped" THEN old ELSE "started"
                      ELSE IF old = "unknown" THEN old ELSE "stopped"
    <3>2. new \in {"unknown", "started", "stopped"}
      BY <3>1
    <3>3. state' = [state EXCEPT ![req[c].to][req[c].poll] = new]
      <4>1. CASE Start(c)
        BY <4>1 DEF Start, At
      <4>2. CASE Stop(c)
        BY <4>2 DEF Stop, At
      <4> QED
        BY <1>3, <4>1, <4>2
    <3> HIDE DEF new
    <3> QED
      BY <3>2, <3>3
  <2>3. state' \in [Backends -> [Polls -> {"unknown", "started", "stopped"}]]
    BY <2>1, <2>2, StoreType DEF TypeOK
  <2> QED
    BY <2>1, <2>3, CallType DEF TypeOK
<1>4. ASSUME NEW c \in Clients, VoteBackend(c) PROVE TypeOK'
  <2>1. /\ pc[c] # "idle" /\ UNCHANGED <<state, fast, instances>>
        /\ req[c].to \in Backends /\ req[c].poll \in Polls /\ req[c].user \in Users
    BY <1>4, RequestType DEF VoteBackend, At
  <2>2. Return(c) \/ Goto(c, "live")
    BY <1>4 DEF VoteBackend
  <2>3. votes' \in [Backends -> [Polls -> SUBSET Users]]
    <3> DEFINE x == votes[req[c].to][req[c].poll] \cup {req[c].user}
    <3>1. x \in SUBSET Users
      BY <2>1 DEF TypeOK
    <3>2. votes' = votes \/ votes' = [votes EXCEPT ![req[c].to][req[c].poll] = x]
      BY <1>4 DEF VoteBackend
    <3>3. votes \in [Backends -> [Polls -> SUBSET Users]]
      BY DEF TypeOK
    <3> HIDE DEF x
    <3>4. [votes EXCEPT ![req[c].to][req[c].poll] = x] \in [Backends -> [Polls -> SUBSET Users]]
      BY <2>1, <3>1, <3>3, StoreType
    <3> QED
      BY <3>2, <3>3, <3>4
  <2> QED
    BY <2>1, <2>2, <2>3, CallType DEF TypeOK
<1>5. ASSUME NEW c \in Clients, VoteLive(c) \/ ClearLive(c) \/ ClearAllLive(c) PROVE TypeOK'
  <2>1. /\ pc[c] # "idle" /\ Return(c) /\ UNCHANGED <<stores, serving, loader>>
        /\ req[c].at \in Instances
    BY <1>5, RequestType DEF VoteLive, ClearLive, ClearAllLive, At
  <2>2. \A i \in Instances : liveVotes[i] \in [Polls -> SUBSET Users]
    BY DEF TypeOK
  <2>3. PICK f \in [Polls -> SUBSET Users] : liveVotes' = [liveVotes EXCEPT ![req[c].at] = f]
    <3>1. CASE VoteLive(c)
      <4> DEFINE x == liveVotes[req[c].at][req[c].poll] \cup {req[c].user}
      <4>1. req[c].poll \in Polls /\ req[c].user \in Users
        BY <3>1, RequestType DEF VoteLive, At
      <4>2. x \in SUBSET Users
        BY <2>1, <2>2, <4>1
      <4>3. liveVotes' = [liveVotes EXCEPT ![req[c].at][req[c].poll] = x]
        BY <3>1 DEF VoteLive
      <4> HIDE DEF x
      <4>4. [liveVotes[req[c].at] EXCEPT ![req[c].poll] = x] \in [Polls -> SUBSET Users]
        BY <2>1, <2>2, <4>2
      <4> QED
        BY <4>3, <4>4
    <3>2. CASE ClearLive(c)
      <4>1. [liveVotes[req[c].at] EXCEPT ![req[c].poll] = {}] \in [Polls -> SUBSET Users]
        BY <2>1, <2>2
      <4> QED
        BY <3>2, <4>1 DEF ClearLive
    <3>3. CASE ClearAllLive(c)
      BY <3>3, <1>e DEF ClearAllLive
    <3> QED
      BY <1>5, <3>1, <3>2, <3>3
  <2> QED
    BY <2>1, <2>3, CallType DEF TypeOK
<1>6. ASSUME NEW c \in Clients,
             \/ ClearFast(c) \/ ClearLong(c) \/ ClearAllFast(c) \/ ClearAllLong(c)
      PROVE  TypeOK'
  <2>1. /\ pc[c] # "idle" /\ (Goto(c, "long") \/ Goto(c, "live"))
        /\ UNCHANGED <<fast, instances>>
    BY <1>6 DEF ClearFast, ClearLong, ClearAllFast, ClearAllLong, At, ClearPoll, ClearBackend
  <2>2. PICK b \in Backends : ClearPoll(b, req[c].poll) \/ ClearBackend(b)
    BY <1>6, <1>b DEF ClearFast, ClearLong, ClearAllFast, ClearAllLong
  <2>3. /\ state' \in [Backends -> [Polls -> {"unknown", "started", "stopped"}]]
        /\ votes' \in [Backends -> [Polls -> SUBSET Users]]
    <3>1. CASE ClearPoll(b, req[c].poll)
      BY <3>1, StoreType DEF TypeOK, ClearPoll
    <3>2. CASE ClearBackend(b)
      BY <3>2 DEF TypeOK, ClearBackend
    <3> QED
      BY <2>2, <3>1, <3>2
  <2> QED
    BY <2>1, <2>3, CallType DEF TypeOK
<1>7. ASSUME NEW i \in Instances, NEW l \in LoaderSet, SetLoader(i, l),
             UNCHANGED <<stores, liveVotes, serving, calls>>
      PROVE  TypeOK'
  BY <1>7 DEF TypeOK, SetLoader, LoaderSet
<1>8. ASSUME NEW i \in Instances, WakeUp(i) \/ LoadFail(i) PROVE TypeOK'
  BY <1>7, <1>8, <1>e DEF WakeUp, LoadFail
<1>l. \A i \in Instances : loader[i] \in LoaderSet
  BY DEF TypeOK, LoaderSet
<1>9. ASSUME NEW i \in Instances, FastList(i) PROVE TypeOK'
  <2>1. [loader[i] EXCEPT !.pc = "fast", !.todo = {p \in Polls : state["fast"][p] # "unknown"}]
          \in LoaderSet
    BY <1>l DEF LoaderSet
  <2> QED
    BY <1>7, <1>9, <2>1 DEF FastList
<1>10. ASSUME NEW i \in Instances, FastRead(i) PROVE TypeOK'
  <2>1. PICK p \in loader[i].todo :
          SetLoader(i, [loader[i] EXCEPT !.todo = @ \ {p}, !.data[p] = votes["fast"][p]])
    BY <1>10 DEF FastRead
  <2>2. p \in Polls /\ votes["fast"][p] \in SUBSET Users
    BY <1>l, <1>b DEF LoaderSet, TypeOK
  <2>3. [loader[i].data EXCEPT ![p] = votes["fast"][p]] \in [Polls -> SUBSET Users]
    BY <1>l, <2>2 DEF LoaderSet
  <2>4. [loader[i] EXCEPT !.todo = @ \ {p}, !.data = [loader[i].data EXCEPT ![p] = votes["fast"][p]]]
          \in LoaderSet
    BY <1>l, <2>3 DEF LoaderSet
  <2>5. [loader[i] EXCEPT !.todo = @ \ {p}, !.data[p] = votes["fast"][p]] \in LoaderSet
    BY <1>l, <2>4 DEF LoaderSet
  <2> QED
    BY <1>7, <1>10, <2>1, <2>5 DEF FastRead
<1>11. ASSUME NEW i \in Instances, LongRead(i) \/ LongReadShort(i) PROVE TypeOK'
  <2>1. PICK rows : SetLoader(i, [loader[i] EXCEPT !.pc = "swap", !.data = withRows(i, rows)])
    BY <1>11 DEF LongRead, LongReadShort
  <2>2. withRows(i, rows) \in [Polls -> SUBSET Users]
    BY <1>l, <1>b DEF LoaderSet, TypeOK, withRows
  <2>3. [loader[i] EXCEPT !.pc = "swap", !.data = withRows(i, rows)] \in LoaderSet
    BY <1>l, <2>2 DEF LoaderSet
  <2> QED
    BY <1>7, <1>11, <2>1, <2>3 DEF LongRead, LongReadShort
<1>12. ASSUME NEW i \in Instances, Swap(i) PROVE TypeOK'
  <2>1. loader[i].data \in [Polls -> SUBSET Users]
    BY <1>l DEF LoaderSet
  <2> QED
    BY <1>12, <1>e, <2>1 DEF Swap, SetLoader, TypeOK, LoaderSet
<1>13. ASSUME NEW i \in Instances, Restart(i) PROVE TypeOK'
  <2>1. /\ state' \in [Backends -> [Polls -> {"unknown", "started", "stopped"}]]
        /\ votes' \in [Backends -> [Polls -> SUBSET Users]]
        /\ fast' = fast
    <3>1. ClearBackend("fast") \/ UNCHANGED stores
      BY <1>13 DEF Restart
    <3>2. CASE ClearBackend("fast")
      BY <3>2, <1>b DEF TypeOK, ClearBackend
    <3>3. CASE UNCHANGED stores
      BY <3>3 DEF TypeOK
    <3> QED
      BY <3>1, <3>2, <3>3
  <2>2. /\ liveVotes' \in [Instances -> [Polls -> SUBSET Users]]
        /\ serving' \in [Instances -> BOOLEAN]
        /\ loader' \in [Instances -> LoaderSet]
    BY <1>13, <1>e DEF Restart, TypeOK, SetLoader, LoaderSet
  <2>3. /\ pc' \in [Clients -> {"idle", "begin", "long", "live"}]
        /\ DOMAIN req' = Clients
        /\ \A d \in Clients : req'[d] \in IF pc'[d] = "idle" THEN {NoRequest} ELSE RequestsOf(d)
    BY <1>13 DEF Restart, TypeOK
  <2> QED
    BY <2>1, <2>2, <2>3 DEF TypeOK, LoaderSet
<1>14. ASSUME NEW p \in Polls, Reconfigure(p) PROVE TypeOK'
  BY <1>14 DEF Reconfigure, TypeOK
<1>15. CASE UNCHANGED vars
  BY <1>15 DEF vars, TypeOK
<1> QED
  BY <1>1, <1>2, <1>3, <1>4, <1>5, <1>6, <1>8, <1>9, <1>10, <1>11, <1>12, <1>13, <1>14, <1>15
  DEF Next, Step, Load
-----------------------------------------------------------------------------
\* A request is served only by an instance that has loaded.
LEMMA Active ==
  ASSUME SingleInstance, IInv, NEW c \in Clients, pc[c] # "idle", NEW i \in Instances
  PROVE  serving[i] /\ req[c].at = i
<1>1. req[c].at \in Instances
  BY RequestType DEF IInv
<1> QED
  BY <1>1, SingleInstanceAssumption DEF IInv, Starting

\* The steps of a request, of the loader, and of the environment.
RequestStep(c) == Reject(c) \/ Step(c) \/ Fail(c)
LoaderStep(i) == Load(i) \/ LongReadShort(i) \/ LoadFail(i)

LEMMA Frame ==
  /\ \A c \in Clients : RequestStep(c) => pc[c] # "idle" /\ UNCHANGED <<serving, loader>>
  /\ \A c \in Clients : Invoke(c) => UNCHANGED <<stores, instances>>
  /\ \A i \in Instances : LoaderStep(i) => UNCHANGED <<stores, calls>>
  /\ \A p \in Polls : Reconfigure(p) => UNCHANGED <<state, votes, instances, calls>>
<1> USE DEF stores, instances, calls
<1>1. ASSUME NEW c \in Clients, RequestStep(c) PROVE pc[c] # "idle" /\ UNCHANGED <<serving, loader>>
  BY <1>1 DEF RequestStep, Reject, Step, Fail, At, Start, Stop, VoteBackend, VoteLive, ClearFast,
              ClearLong, ClearLive, ClearAllFast, ClearAllLong, ClearAllLive
<1>2. ASSUME NEW i \in Instances, LoaderStep(i) PROVE UNCHANGED <<stores, calls>>
  BY <1>2 DEF LoaderStep, Load, LoadFail, LongReadShort, WakeUp, FastList, FastRead, LongRead, Swap
<1> QED
  BY <1>1, <1>2 DEF Invoke, Reconfigure

LEMMA NextSteps ==
  ASSUME [Next]_vars
  PROVE  \/ \E c \in Clients : Invoke(c) \/ RequestStep(c)
         \/ \E i \in Instances : LoaderStep(i) \/ Restart(i)
         \/ \E p \in Polls : Reconfigure(p)
         \/ UNCHANGED vars
  BY DEF Next, RequestStep, LoaderStep

\* The dropped votes are remembered as long as they are saved.
Kept == \A p \in Polls : missed[p] \cap saved(p)' \subseteq missed'[p]

\* The steps with the history, and that they are steps of the service.
LEMMA HistorySteps ==
  ASSUME [HNext]_allVars
  PROVE  \/ \E c \in Clients : DropAnswer(c) /\ Kept
         \/ \E c \in Clients : DropShown(c) /\ Kept
         \/ \E c \in Clients : KeepStep(c) /\ Kept
         \/ \E i \in Instances : (Load(i) \/ LoadFail(i)) /\ Kept
         \/ \E i \in Instances : DropRows(i)
         \/ \E i \in Instances : Restart(i)
         \/ (\E p \in Polls : Reconfigure(p)) /\ Kept
         \/ UNCHANGED vars /\ Kept
<1>1. ASSUME NEW f, Record(missed, f) PROVE Kept
  BY <1>1 DEF Record, Kept
<1>2. ASSUME NEW c \in Clients, DropAnswer(c) \/ DropShown(c) PROVE Kept
  BY <1>1, <1>2 DEF DropAnswer, DropShown
<1>3. CASE Keep
  BY <1>1, <1>3 DEF Keep
<1>4. CASE UNCHANGED allVars
  BY <1>4 DEF allVars, Kept
<1> QED
  BY <1>2, <1>3, <1>4 DEF HNext, StartAgain

LEMMA HNextNext == ASSUME [HNext]_allVars PROVE [Next]_vars
  BY HistorySteps DEF DropAnswer, DropShown, KeepStep, DropRows, Next, Step

LEMMA LoadedOnceStep == ASSUME SingleInstance, IInv, [Next]_vars PROVE LoadedOnce'
<1> SUFFICES ASSUME NEW j \in Instances, serving'[j] PROVE loader'[j].pc = "sleep"
  BY DEF LoadedOnce
<1> USE DEF stores, instances, calls
<1>t. serving \in [Instances -> BOOLEAN] /\ DOMAIN loader = Instances
  BY DEF IInv, TypeOK
<1>0. serving[j] => loader[j].pc = "sleep"
  BY DEF IInv, LoadedOnce
<1>1. ASSUME UNCHANGED <<serving, loader>> PROVE loader'[j].pc = "sleep"
  BY <1>0, <1>1
<1>2. ASSUME NEW i \in Instances, LoaderStep(i) PROVE loader'[j].pc = "sleep"
  <2>1. i = j
    BY SingleInstanceAssumption
  <2>2. CASE Swap(i)
    BY <1>t, <2>1, <2>2 DEF Swap, SetLoader, Asleep
  <2>3. CASE ~Swap(i)
    <3>1. serving' = serving /\ loader[i].pc # "sleep"
      BY <1>2, <2>3 DEF LoaderStep, Load, LoadFail, LongReadShort, WakeUp, FastList, FastRead, LongRead
    <3> QED
      BY <1>0, <2>1, <3>1
  <2> QED
    BY <2>2, <2>3
<1>3. ASSUME NEW i \in Instances, Restart(i) PROVE loader'[j].pc = "sleep"
  BY <1>3, <1>t, SingleInstanceAssumption DEF Restart
<1> QED
  BY <1>1, <1>2, <1>3, NextSteps, Frame DEF vars

\* What one step may do to a poll in a backend.
StoreStep(b, p) ==
  \/ state'[b][p] = state[b][p] /\ votes'[b][p] = votes[b][p]
  \/ state'[b][p] # "unknown" /\ votes'[b][p] = votes[b][p]
  \/ state'[b][p] = state[b][p] /\ state[b][p] = "started"
  \/ state'[b][p] = "unknown" /\ votes'[b][p] = {}

LEMMA StoreSteps ==
  ASSUME TypeOK, [Next]_vars, NEW b \in Backends, NEW p \in Polls
  PROVE  StoreStep(b, p)
<1> USE DEF stores, instances, calls
<1>t. /\ state \in [Backends -> [Polls -> {"unknown", "started", "stopped"}]]
      /\ votes \in [Backends -> [Polls -> SUBSET Users]]
  BY DEF TypeOK
<1>0. ASSUME UNCHANGED <<state, votes>> PROVE StoreStep(b, p)
  BY <1>0 DEF StoreStep
<1>1. ASSUME NEW c \in Clients, Start(c) PROVE StoreStep(b, p)
  BY <1>1, <1>t DEF Start, StoreStep
<1>2. ASSUME NEW c \in Clients, Stop(c) PROVE StoreStep(b, p)
  BY <1>2, <1>t DEF Stop, StoreStep
<1>3. ASSUME NEW c \in Clients, VoteBackend(c) PROVE StoreStep(b, p)
  <2>1. CASE UNCHANGED votes
    BY <1>0, <1>3, <2>1 DEF VoteBackend
  <2>2. CASE /\ state[req[c].to][req[c].poll] = "started"
             /\ votes' = [votes EXCEPT ![req[c].to][req[c].poll] = @ \cup {req[c].user}]
    BY <1>3, <1>t, <2>2 DEF VoteBackend, StoreStep
  <2> QED
    BY <1>3, <2>1, <2>2 DEF VoteBackend
<1>4. ASSUME NEW a \in Backends, NEW q, ClearPoll(a, q) PROVE StoreStep(b, p)
  BY <1>4, <1>t DEF ClearPoll, StoreStep
<1>5. ASSUME NEW a \in Backends, ClearBackend(a) PROVE StoreStep(b, p)
  BY <1>5, <1>t DEF ClearBackend, StoreStep
<1>6. ASSUME NEW c \in Clients, RequestStep(c) PROVE StoreStep(b, p)
  <2>1. "fast" \in Backends /\ "long" \in Backends
    BY DEF Backends
  <2>2. CASE ClearFast(c) \/ ClearLong(c)
    BY <1>4, <2>1, <2>2 DEF ClearFast, ClearLong
  <2>3. CASE ClearAllFast(c) \/ ClearAllLong(c)
    BY <1>5, <2>1, <2>3 DEF ClearAllFast, ClearAllLong
  <2>4. CASE Reject(c) \/ Fail(c) \/ VoteLive(c) \/ ClearLive(c) \/ ClearAllLive(c)
    BY <1>0, <2>4 DEF Reject, Fail, VoteLive, ClearLive, ClearAllLive
  <2> QED
    BY <1>1, <1>2, <1>3, <1>6, <2>2, <2>3, <2>4 DEF RequestStep, Step
<1>7. ASSUME NEW i \in Instances, Restart(i) PROVE StoreStep(b, p)
  <2>1. "fast" \in Backends /\ (ClearBackend("fast") \/ UNCHANGED stores)
    BY <1>7 DEF Restart, Backends
  <2> QED
    BY <1>0, <1>5, <2>1
<1> QED
  BY <1>0, <1>6, <1>7, NextSteps, Frame DEF vars

LEMMA NoOrphansStep == ASSUME IInv, [Next]_vars PROVE NoOrphans'
<1> SUFFICES ASSUME NEW b \in Backends, NEW p \in Polls, state'[b][p] = "unknown"
             PROVE  votes'[b][p] = {}
  BY DEF NoOrphans
<1>1. StoreStep(b, p)
  BY StoreSteps DEF IInv
<1> QED
  BY <1>1 DEF StoreStep, IInv, NoOrphans

LEMMA StartingStep == ASSUME SingleInstance, IInv, [HNext]_allVars PROVE Starting'
<1> SUFFICES ASSUME NEW j \in Instances, ~serving'[j]
             PROVE  /\ \A c \in Clients : pc'[c] = "idle"
                    /\ \A p \in Polls : votes'["fast"][p] = {}
                    /\ loader'[j].pc = "swap" =>
                         \A p \in Polls : votes'["long"][p] \subseteq loader'[j].data[p] \cup missed'[p]
  BY DEF Starting
<1> USE DEF stores, instances, calls
<1> DEFINE Goal == /\ \A c \in Clients : pc'[c] = "idle"
                   /\ \A p \in Polls : votes'["fast"][p] = {}
                   /\ loader'[j].pc = "swap" =>
                        \A p \in Polls : votes'["long"][p] \subseteq loader'[j].data[p] \cup missed'[p]
<1>t. /\ serving \in [Instances -> BOOLEAN] /\ DOMAIN loader = Instances
      /\ votes \in [Backends -> [Polls -> SUBSET Users]] /\ DOMAIN pc = Clients
      /\ loader[j] \in LoaderSet /\ "fast" \in Backends /\ "long" \in Backends
  BY DEF IInv, TypeOK, LoaderSet, Backends
<1>s. ~serving[j] =>
        /\ \A c \in Clients : pc[c] = "idle"
        /\ \A p \in Polls : votes["fast"][p] = {}
        /\ loader[j].pc = "swap" =>
             \A p \in Polls : votes["long"][p] \subseteq loader[j].data[p] \cup missed[p]
  BY DEF IInv, Starting
<1>1. ASSUME UNCHANGED <<votes, serving, loader, pc>>, Kept PROVE Goal
  BY <1>1, <1>s DEF Kept, saved
<1>2. ASSUME NEW c \in Clients, RequestStep(c) PROVE Goal
  BY <1>2, Active, Frame
<1>3. ASSUME NEW c \in Clients, Invoke(c) PROVE Goal
  <2>1. PICK r \in RequestsOf(c) : serving[r.at]
    BY <1>3 DEF Invoke
  <2>2. r.at \in Instances
    BY DEF RequestsOf
  <2>3. serving[j] /\ serving' = serving
    BY <1>3, <2>1, <2>2, SingleInstanceAssumption DEF Invoke
  <2> QED
    BY <2>3
<1>4. ASSUME NEW i \in Instances, Load(i) \/ LoadFail(i) PROVE Goal
  <2>1. i = j /\ UNCHANGED <<votes, pc>>
    BY <1>4, SingleInstanceAssumption, Frame DEF LoaderStep
  <2>2. CASE Swap(i)
    BY <1>t, <2>1, <2>2 DEF Swap
  <2>3. CASE LongRead(i)
    <3> DEFINE f == withRows(i, longPolls)
    <3>1. serving' = serving /\ loader' = [loader EXCEPT ![i] = [loader[i] EXCEPT !.pc = "swap", !.data = f]]
      BY <2>3 DEF LongRead, SetLoader
    <3>2. \A p \in Polls : votes["long"][p] \subseteq f[p]
      BY <1>t DEF IInv, NoOrphans, withRows, longPolls
    <3> HIDE DEF f
    <3>3. loader'[j].data = f
      BY <1>t, <2>1, <3>1 DEF LoaderSet
    <3> QED
      BY <1>s, <2>1, <3>1, <3>2, <3>3
  <2>4. CASE FastList(i) \/ FastRead(i)
    <3>1. CASE FastList(i)
      BY <1>s, <1>t, <2>1, <3>1 DEF FastList, SetLoader, LoaderSet
    <3>2. CASE FastRead(i)
      <4>1. PICK p : loader' = [loader EXCEPT ![i] = [loader[i] EXCEPT
                                  !.todo = @ \ {p}, !.data[p] = votes["fast"][p]]]
        BY <3>2 DEF FastRead, SetLoader
      <4>2. loader'[j].pc = "fast"
        BY <1>t, <2>1, <3>2, <4>1 DEF FastRead, LoaderSet
      <4> QED
        BY <1>s, <2>1, <3>2, <4>2 DEF FastRead
    <3> QED
      BY <2>4, <3>1, <3>2
  <2>5. CASE LoadFail(i)
    <3>1. serving' = serving /\ loader'[j].pc # "swap"
      BY <1>t, <2>1, <2>5 DEF LoadFail, SetLoader, Asleep, Loading
    <3> QED
      BY <1>s, <2>1, <3>1
  <2> QED
    BY <1>4, <2>2, <2>3, <2>4, <2>5 DEF Load, WakeUp
<1>5. ASSUME NEW i \in Instances, DropRows(i) PROVE Goal
  <2>1. i = j /\ UNCHANGED <<votes, pc, serving>>
    BY <1>5, SingleInstanceAssumption DEF DropRows, LongReadShort
  <2>2. \A p \in Polls : missed'[p] =
          (missed[p] \cup (votes["long"][p] \ loader'[j].data[p]))
            \cap (votes'["fast"][p] \cup votes'["long"][p])
    BY <1>5, <2>1 DEF DropRows, Record, saved
  <2>3. \A p \in Polls : votes'["long"][p] \subseteq loader'[j].data[p] \cup missed'[p]
    BY <2>1, <2>2
  <2> QED
    BY <1>s, <2>1, <2>3
<1>6. ASSUME NEW i \in Instances, Restart(i) PROVE Goal
  <2>1. i = j
    BY SingleInstanceAssumption
  <2>2. \A c \in Clients : pc'[c] = "idle"
    BY <1>6, <2>1, Active DEF Restart
  <2>3. \A p \in Polls : votes'["fast"][p] = {}
    BY <1>6, <1>t DEF Restart, ClearBackend
  <2>4. loader'[j].pc = "list"
    BY <1>6, <1>t, <2>1 DEF Restart, SetLoader, Loading
  <2> QED
    BY <2>2, <2>3, <2>4
<1>7. ASSUME NEW c \in Clients, DropAnswer(c) \/ DropShown(c) \/ KeepStep(c) PROVE Goal
  BY <1>2, <1>3, <1>7 DEF DropAnswer, DropShown, KeepStep, RequestStep, Step
<1> QED
  BY <1>1, <1>4, <1>5, <1>6, <1>7, HistorySteps, Frame DEF vars

\* A step of c leaves the requests of the others alone.
LEMMA OthersUnchanged ==
  ASSUME TypeOK, NEW c \in Clients, Invoke(c) \/ RequestStep(c), NEW d \in Clients, c # d
  PROVE  pc'[d] = pc[d] /\ req'[d] = req[d]
<1>t. DOMAIN pc = Clients /\ DOMAIN req = Clients
  BY DEF TypeOK
<1>1. Invoke(c) \/ Return(c) \/ \E l \in {"long", "live"} : Goto(c, l)
  BY DEF RequestStep, Reject, Step, Fail, Start, Stop, VoteBackend, VoteLive, ClearFast,
         ClearLong, ClearLive, ClearAllFast, ClearAllLong, ClearAllLive
<1> QED
  BY <1>1, <1>t DEF Invoke, Return, Goto

\* No vote is saved that is neither shown nor about to be nor dropped.
LEMMA ShownStep == ASSUME SingleInstance, IInv, [HNext]_allVars PROVE SavedVotesShown'
<1> USE DEF stores, instances, calls
<1> SUFFICES ASSUME NEW j \in Instances, NEW p \in Polls, serving'[j],
                    NEW u \in votes'["fast"][p] \cup votes'["long"][p]
             PROVE  \/ u \in liveVotes'[j][p]
                    \/ \E v \in Voters : At(v, "vote", "live")' /\ req'[v].poll = p /\ req'[v].user = u
                    \/ u \in missed'[p]
  BY DEF SavedVotesShown, saved
<1> DEFINE Pending == \E v \in Voters : At(v, "vote", "live") /\ req[v].poll = p /\ req[v].user = u
           Shown == u \in liveVotes'[j][p] \/ Pending' \/ u \in missed'[p]
<1>t. /\ TypeOK /\ DOMAIN pc = Clients /\ DOMAIN req = Clients
      /\ liveVotes \in [Instances -> [Polls -> SUBSET Users]]
      /\ votes \in [Backends -> [Polls -> SUBSET Users]]
      /\ serving \in [Instances -> BOOLEAN]
      /\ "fast" \in Backends /\ "long" \in Backends /\ Voters \subseteq Clients
  BY DEF IInv, TypeOK, Backends, Clients
<1>s. serving[j] /\ u \in votes["fast"][p] \cup votes["long"][p]
        => u \in liveVotes[j][p] \/ Pending \/ u \in missed[p]
  BY DEF IInv, SavedVotesShown, saved
<1>k. Kept /\ u \in missed[p] => u \in missed'[p]
  BY DEF Kept, saved
\* A step that saves no vote, hides none and does not end a vote.
<1>0. ASSUME serving[j], \A b \in Backends : votes'[b][p] \subseteq votes[b][p],
             liveVotes[j][p] \subseteq liveVotes'[j][p], Kept,
             \A v \in Voters : At(v, "vote", "live") =>
               pc'[v] = pc[v] /\ req'[v] = req[v]
      PROVE  Shown
  <2>1. u \in liveVotes[j][p] \/ Pending \/ u \in missed[p]
    BY <1>0, <1>s, <1>t
  <2>2. Pending => Pending'
    BY <1>0 DEF At
  <2> QED
    BY <1>0, <1>k, <2>1, <2>2
<1>1. ASSUME UNCHANGED <<votes, liveVotes, serving, pc, req>>, Kept PROVE Shown
  BY <1>0, <1>1
<1>2. ASSUME NEW c \in Clients, Invoke(c) \/ RequestStep(c), ~At(c, "vote", "live"), Kept,
             UNCHANGED liveVotes, \A b \in Backends : votes'[b][p] \subseteq votes[b][p]
      PROVE  Shown
  <2>1. \A v \in Voters : At(v, "vote", "live") => pc'[v] = pc[v] /\ req'[v] = req[v]
    BY <1>2, <1>t, OthersUnchanged
  <2>2. serving' = serving
    BY <1>2, Frame
  <2> QED
    BY <1>0, <1>2, <2>1, <2>2
<1>3. ASSUME NEW c \in Clients, Reject(c) \/ Start(c) \/ Stop(c), Kept PROVE Shown
  <2>1. ~At(c, "vote", "live")
    BY <1>3 DEF Reject, Start, Stop, At
  <2>2. UNCHANGED <<liveVotes, votes>>
    BY <1>3 DEF Reject, Start, Stop
  <2> QED
    BY <1>2, <1>3, <2>1, <2>2 DEF RequestStep, Step
<1>4. ASSUME NEW c \in Clients, VoteBackend(c), Kept PROVE Shown
  <2>1. /\ ~At(c, "vote", "live") /\ liveVotes' = liveVotes /\ RequestStep(c)
        /\ req[c].op = "vote" /\ pc[c] # "idle"
    BY <1>4 DEF VoteBackend, At, RequestStep, Step
  <2>2. CASE votes' = votes
    BY <1>2, <1>4, <2>1, <2>2
  <2>3. CASE /\ votes' = [votes EXCEPT ![req[c].to][req[c].poll] = @ \cup {req[c].user}]
             /\ Goto(c, "live")
    <3>1. c \in Voters /\ req[c].to \in Backends
      BY <1>t, <2>1, RequestType
    <3>2. CASE req[c].poll = p /\ req[c].user = u
      <4>1. pc'[c] = "live" /\ req' = req
        BY <1>t, <2>3 DEF Goto
      <4> QED
        BY <2>1, <3>1, <3>2, <4>1 DEF At
    <3>3. CASE ~(req[c].poll = p /\ req[c].user = u)
      <4>1. u \in votes["fast"][p] \cup votes["long"][p]
        BY <1>t, <2>3, <3>1, <3>3
      <4>2. serving[j]
        BY <2>1, Active
      <4>3. u \in liveVotes[j][p] \/ Pending \/ u \in missed[p]
        BY <1>s, <4>1, <4>2
      <4>4. Pending => Pending'
        BY <1>t, <2>1, OthersUnchanged DEF At
      <4> QED
        BY <1>4, <1>k, <2>1, <4>3, <4>4
    <3> QED
      BY <3>2, <3>3
  <2> QED
    BY <1>4, <2>2, <2>3 DEF VoteBackend
<1>5. ASSUME NEW c \in Clients, VoteLive(c), Kept PROVE Shown
  <2>1. /\ RequestStep(c) /\ pc[c] # "idle" /\ votes' = votes /\ req[c].op = "vote"
        /\ liveVotes' = [liveVotes EXCEPT ![req[c].at][req[c].poll] = @ \cup {req[c].user}]
    BY <1>5 DEF VoteLive, At, RequestStep, Step
  <2>2. req[c].at = j /\ serving[j] /\ req[c].poll \in Polls
    BY <1>t, <2>1, Active, RequestType
  <2>3. liveVotes'[j][p] = IF req[c].poll = p THEN liveVotes[j][p] \cup {req[c].user}
                                              ELSE liveVotes[j][p]
    BY <1>t, <2>1, <2>2
  <2>4. u \in liveVotes[j][p] \/ Pending \/ u \in missed[p]
    BY <1>s, <2>1, <2>2
  <2>5. CASE u \in liveVotes[j][p]
    BY <2>3, <2>5
  <2>6. CASE Pending
    <3>1. PICK v \in Voters : At(v, "vote", "live") /\ req[v].poll = p /\ req[v].user = u
      BY <2>6
    <3>2. CASE v = c
      BY <2>3, <3>1, <3>2
    <3>3. CASE v # c
      <4>1. pc'[v] = pc[v] /\ req'[v] = req[v]
        BY <1>t, <2>1, <3>3, OthersUnchanged
      <4> QED
        BY <3>1, <4>1 DEF At
    <3> QED
      BY <3>2, <3>3
  <2> QED
    BY <1>5, <1>k, <2>4, <2>5, <2>6
<1>6. ASSUME NEW c \in Clients, Kept,
             \/ ClearFast(c) \/ ClearLong(c) \/ ClearAllFast(c) \/ ClearAllLong(c)
      PROVE  Shown
  <2>1. /\ ~At(c, "vote", "live") /\ liveVotes' = liveVotes /\ RequestStep(c)
    BY <1>6 DEF ClearFast, ClearLong, ClearAllFast, ClearAllLong, At, RequestStep, Step
  <2>2. PICK a \in Backends : ClearPoll(a, req[c].poll) \/ ClearBackend(a)
    BY <1>6, <1>t DEF ClearFast, ClearLong, ClearAllFast, ClearAllLong
  <2>3. ASSUME NEW b \in Backends PROVE votes'[b][p] \subseteq votes[b][p]
    <3>1. CASE ClearPoll(a, req[c].poll)
      BY <1>t, <3>1 DEF ClearPoll
    <3>2. CASE ClearBackend(a)
      BY <1>t, <3>2 DEF ClearBackend
    <3> QED
      BY <2>2, <3>1, <3>2
  <2> QED
    BY <1>2, <1>6, <2>1, <2>3
<1>7. ASSUME NEW c \in Clients, DropShown(c), Kept PROVE Shown
  <2>1. /\ pc[c] = "live" /\ req[c].op \in {"clear", "clearAll"} /\ votes' = votes
        /\ RequestStep(c)
    BY <1>7 DEF DropShown, ClearLive, ClearAllLive, At, RequestStep, Step
  <2>2. req[c].at = j /\ serving[j]
    BY <2>1, Active
  <2>3. u \in liveVotes[j][p] \/ Pending \/ u \in missed[p]
    BY <1>s, <2>1, <2>2
  <2>4. u \in liveVotes[j][p] => u \in liveVotes'[j][p] \/ u \in missed'[p]
    <3>1. u \in saved(p)'
      BY DEF saved
    <3>2. CASE req[c].op = "clearAll" \/ req[c].poll = p
      BY <1>7, <2>2, <3>1, <3>2 DEF DropShown, Record
    <3>3. CASE ~(req[c].op = "clearAll" \/ req[c].poll = p)
      <4>1. ClearLive(c)
        BY <1>7, <3>3 DEF DropShown, ClearAllLive, At
      <4> QED
        BY <1>t, <2>2, <3>3, <4>1 DEF ClearLive
    <3> QED
      BY <3>2, <3>3
  <2>5. Pending => Pending'
    BY <1>t, <2>1, OthersUnchanged DEF At
  <2> QED
    BY <1>7, <1>k, <2>3, <2>4, <2>5
<1>8. ASSUME NEW c \in Clients, Invoke(c), Kept PROVE Shown
  BY <1>2, <1>8 DEF Invoke, At
<1>9. ASSUME NEW c \in Clients, DropAnswer(c), Kept PROVE Shown
  <2>1. UNCHANGED <<votes, liveVotes>> /\ pc[c] # "idle" /\ RequestStep(c)
    BY <1>9 DEF DropAnswer, Fail, RequestStep
  <2>2. serving[j]
    BY <2>1, Active
  <2>3. u \in liveVotes[j][p] \/ Pending \/ u \in missed[p]
    BY <1>s, <2>1, <2>2
  <2>4. CASE Pending
    <3>1. PICK v \in Voters : At(v, "vote", "live") /\ req[v].poll = p /\ req[v].user = u
      BY <2>4
    <3>2. CASE v = c
      <4>1. u \in saved(p)'
        BY DEF saved
      <4> QED
        BY <1>9, <3>1, <3>2, <4>1 DEF DropAnswer, Record
    <3>3. CASE v # c
      <4>1. pc'[v] = pc[v] /\ req'[v] = req[v]
        BY <1>t, <2>1, <3>3, OthersUnchanged
      <4> QED
        BY <3>1, <4>1 DEF At
    <3> QED
      BY <3>2, <3>3
  <2> QED
    BY <1>9, <1>k, <2>1, <2>3, <2>4
<1>10. ASSUME NEW i \in Instances, Swap(i), Kept PROVE Shown
  <2>1. i = j /\ votes' = votes
    BY <1>10, SingleInstanceAssumption DEF Swap
  <2>2. loader[j].pc = "swap" /\ liveVotes'[j] = loader[j].data
    BY <1>10, <1>t, <2>1 DEF Swap
  <2>3. ~serving[j]
    BY <2>2 DEF IInv, LoadedOnce
  <2>4. votes["fast"][p] = {} /\ votes["long"][p] \subseteq loader[j].data[p] \cup missed[p]
    BY <2>2, <2>3 DEF IInv, Starting
  <2> QED
    BY <1>10, <1>k, <2>1, <2>2, <2>4
<1>11. ASSUME NEW i \in Instances, Load(i) \/ LoadFail(i), ~Swap(i), Kept PROVE Shown
  <2>1. UNCHANGED <<votes, liveVotes, serving, pc, req>>
    BY <1>11 DEF Load, LoadFail, WakeUp, FastList, FastRead, LongRead
  <2> QED
    BY <1>1, <1>11, <2>1
\* An instance that loads or starts again does not serve.
<1>12. ASSUME NEW i \in Instances, DropRows(i) PROVE Shown
  <2>1. i = j /\ serving' = serving /\ loader[j].pc = "fast"
    BY <1>12, SingleInstanceAssumption DEF DropRows, LongReadShort
  <2> QED
    BY <2>1 DEF IInv, LoadedOnce
<1>13. ASSUME NEW i \in Instances, Restart(i) PROVE Shown
  BY <1>13, <1>t, SingleInstanceAssumption DEF Restart
<1>14. ASSUME NEW c \in Clients, KeepStep(c), Kept PROVE Shown
  BY <1>3, <1>4, <1>5, <1>6, <1>8, <1>14 DEF KeepStep
<1> QED
  BY <1>1, <1>7, <1>9, <1>10, <1>11, <1>12, <1>13, <1>14, HistorySteps, Frame DEF vars

\* In a single instance every saved vote is shown as soon as its request is
\* done, whatever manager calls overlap and backend calls fail, unless it was
\* dropped in one of the three ways that the history records.
THEOREM SingleInstanceShows ==
  ASSUME SingleInstance
  PROVE  HSpec => []SavedVotesShown
<1>1. IInv /\ [HNext]_allVars => IInv'
  BY HNextNext, TypeStep, NoOrphansStep, LoadedOnceStep, StartingStep, ShownStep DEF IInv
<1>2. IInv => SavedVotesShown
  BY DEF IInv
<1> QED
  BY <1>1, <1>2, InitIInv, PTL DEF HSpec

\* The types, for any number of instances and any errors.
THEOREM TypeCorrect == Spec => []TypeOK
  BY InitType, TypeStep, PTL DEF Spec
=============================================================================
