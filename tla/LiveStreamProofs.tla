-------------------------- MODULE LiveStreamProofs --------------------------
(***************************************************************************)
(* The difference protocol of handleAllVotedIDs for any polls and users: a *)
(* receiver that merges the lines has what the handler remembers.          *)
(*                                                                         *)
(* ReceiverInSync is inductive together with the types.  Its core is one   *)
(* round of one poll (RoundInSync): where the handler remembers a nil map  *)
(* it writes nothing into it, for otherwise it would have panicked, and in *)
(* every other case the line is the difference between what the handler    *)
(* remembered and what it remembers afterwards.                            *)
(***************************************************************************)
EXTENDS LiveStream, TLAPS

Entries == {None, Nil} \cup Maps

\* A map is its set of voters with a vote each.
IsMap(e) ==
  /\ e = Map(e.votes) /\ VotersOf(e) \subseteq Users
  /\ e.votes \in [VotersOf(e) -> {"object", "nil"}]

LEMMA MapType ==
  /\ \A e \in Maps : IsMap(e)
  /\ \A S \in SUBSET Users : \A f \in [S -> {"object", "nil"}] : Map(f) \in Maps
<1>1. ASSUME NEW e \in Maps PROVE IsMap(e)
  <2>1. PICK S \in SUBSET Users : \E f \in [S -> {"object", "nil"}] : e = Map(f)
    BY DEF Maps
  <2>2. PICK f \in [S -> {"object", "nil"}] : e = Map(f)
    BY <2>1
  <2> QED
    BY <2>2 DEF IsMap, Map, VotersOf
<1>2. ASSUME NEW S \in SUBSET Users, NEW f \in [S -> {"object", "nil"}] PROVE Map(f) \in Maps
  BY DEF Maps
<1> QED
  BY <1>1, <1>2

\* The tags of the three kinds of entry.
LEMMA EntryTags ==
  /\ None # Nil /\ VotersOf(None) = {} /\ VotersOf(Nil) = {}
  /\ \A e \in Maps : e.tag = "map" /\ e # None /\ e # Nil
  /\ None.tag # "map" /\ Nil.tag # "map"
<1>1. \A e \in Maps : e.tag = "map"
  BY MapType DEF IsMap, Map
<1>2. VotersOf(None) = {} /\ VotersOf(Nil) = {}
  BY DEF None, Nil, VotersOf
<1> QED
  BY <1>1, <1>2 DEF None, Nil

LEMMA MergeType ==
  ASSUME NEW old \in Entries, NEW new \in Entries
  PROVE  /\ Merge(old, new) \in Maps
         /\ VotersOf(Merge(old, new)) = VotersOf(old) \cup VotersOf(new)
         /\ \A u \in VotersOf(old) \cup VotersOf(new) :
              Merge(old, new).votes[u] = IF u \in VotersOf(new) THEN new.votes[u] ELSE old.votes[u]
<1> DEFINE S == VotersOf(old) \cup VotersOf(new)
           f == [u \in S |-> IF u \in VotersOf(new) THEN new.votes[u] ELSE old.votes[u]]
<1>1. ASSUME NEW e \in Entries
      PROVE  VotersOf(e) \subseteq Users /\ \A u \in VotersOf(e) : e.votes[u] \in {"object", "nil"}
  <2>1. CASE e \in {None, Nil}
    BY <2>1, EntryTags
  <2>2. CASE e \in Maps
    BY <2>2, MapType DEF IsMap
  <2> QED
    BY <2>1, <2>2 DEF Entries
<1>2. S \in SUBSET Users /\ f \in [S -> {"object", "nil"}]
  BY <1>1
<1>3. Map(f) \in Maps
  BY <1>2, MapType
<1>4. Merge(old, new) = Map(f)
  BY DEF Merge
<1> QED
  BY <1>3, <1>4 DEF Map, VotersOf

\* Two maps with the same votes are equal.
LEMMA MapEqual ==
  ASSUME NEW a \in Maps, NEW b \in Maps, VotersOf(a) = VotersOf(b),
         \A u \in VotersOf(a) : a.votes[u] = b.votes[u]
  PROVE  a = b
<1>1. a.votes = b.votes
  BY MapType DEF IsMap, VotersOf
<1> QED
  BY <1>1, MapType DEF IsMap
\* The map of some voters of an entry.
LEMMA PartType ==
  ASSUME NEW new \in Entries, NEW S \in SUBSET VotersOf(new)
  PROVE  /\ Map([u \in S |-> new.votes[u]]) \in Maps
         /\ VotersOf(Map([u \in S |-> new.votes[u]])) = S
         /\ \A u \in S : Map([v \in S |-> new.votes[v]]).votes[u] = new.votes[u]
<1> DEFINE f == [u \in S |-> new.votes[u]]
<1>1. S \in SUBSET Users /\ f \in [S -> {"object", "nil"}]
  <2>1. CASE new \in {None, Nil}
    BY <2>1, EntryTags
  <2>2. CASE new \in Maps
    BY <2>2, MapType DEF IsMap
  <2> QED
    BY <2>1, <2>2 DEF Entries
<1>2. Map(f) \in Maps
  BY <1>1, MapType
<1> QED
  BY <1>2 DEF Map, VotersOf
-----------------------------------------------------------------------------
Image(memory) == IF memory = Nil THEN None ELSE memory

\* One round of one poll: what it was given (new), what was remembered (old)
\* and what the receiver has.  A nil map that is remembered is not written.
LEMMA RoundInSync ==
  ASSUME NEW old \in Entries, NEW new \in Entries, old = Nil => VotersOf(new) = {}
  PROVE  /\ Remember(old, new) \in Entries
         /\ Receive(Image(old), Diff(old, new)) \in {None} \cup Maps
         /\ Receive(Image(old), Diff(old, new)) = Image(Remember(old, new))
<1> DEFINE has == Image(old)
           line == Diff(old, new)
           next == Remember(old, new)
           Goal == /\ next \in Entries
                   /\ Receive(has, line) \in {None} \cup Maps
                   /\ Receive(has, line) = Image(next)
<1>1. CASE old = None
  <2>1. line = new /\ next = new /\ has = None
    BY <1>1, EntryTags DEF Diff, Remember, Image
  <2>2. CASE new \in {None, Nil}
    BY <2>1, <2>2, EntryTags DEF Receive, Image, Entries
  <2>3. CASE new \in Maps
    <3>1. Receive(has, line) = Merge(None, new)
      BY <2>1, <2>3, EntryTags DEF Receive
    <3>2. Merge(None, new) = new
      <4>1. /\ Merge(None, new) \in Maps
            /\ VotersOf(Merge(None, new)) = VotersOf(new)
            /\ \A u \in VotersOf(new) : Merge(None, new).votes[u] = new.votes[u]
        BY <2>3, MergeType, EntryTags DEF Entries
      <4> QED
        BY <2>3, <4>1, MapEqual
    <3>3. Image(next) = new
      BY <2>1, <2>3, EntryTags DEF Image
    <3> QED
      BY <2>1, <2>3, <3>1, <3>2, <3>3
  <2> QED
    BY <2>2, <2>3 DEF Entries
<1>2. CASE old # None /\ new = None
  <2>1. line = Nil /\ next = None
    BY <1>2 DEF Diff, Remember
  <2> QED
    BY <2>1, EntryTags DEF Receive, Image, Entries
<1>3. CASE old = Nil /\ new # None
  <2>1. line = None /\ next = Nil /\ has = None
    BY <1>3, EntryTags DEF Diff, Remember, Image
  <2> QED
    BY <2>1, EntryTags DEF Receive, Image, Entries
<1>4. CASE old \in Maps /\ new # None
  <2> DEFINE added == VotersOf(new) \ VotersOf(old)
  <2>1. /\ next = Merge(new, old) /\ has = old
        /\ line = IF added = {} THEN None ELSE Map([u \in added |-> new.votes[u]])
    BY <1>4, EntryTags DEF Diff, Remember, Image
  <2>2. /\ next \in Maps /\ VotersOf(next) = VotersOf(new) \cup VotersOf(old)
        /\ \A u \in VotersOf(new) \cup VotersOf(old) :
             next.votes[u] = IF u \in VotersOf(old) THEN old.votes[u] ELSE new.votes[u]
    BY <2>1, MergeType
  <2>3. Image(next) = next /\ next \in Entries
    BY <2>2, EntryTags DEF Image, Entries
  <2>4. CASE added = {}
    <3>1. Receive(has, line) = old
      BY <2>1, <2>4, EntryTags DEF Receive
    <3>2. next = old
      <4> HIDE DEF next
      <4>1. VotersOf(next) = VotersOf(old)
        BY <2>2, <2>4
      <4>2. \A u \in VotersOf(next) : next.votes[u] = old.votes[u]
        BY <2>2, <4>1
      <4> QED
        BY <1>4, <2>2, <4>1, <4>2, MapEqual
    <3> QED
      BY <1>4, <2>3, <3>1, <3>2
  <2>5. CASE added # {}
    <3>1. /\ line \in Maps /\ VotersOf(line) = added
          /\ \A u \in added : line.votes[u] = new.votes[u]
      BY <2>1, <2>5, PartType
    <3>2. Receive(has, line) = Merge(old, line)
      BY <2>1, <3>1, EntryTags DEF Receive
    <3>3. /\ Merge(old, line) \in Maps /\ VotersOf(Merge(old, line)) = VotersOf(old) \cup added
          /\ \A u \in VotersOf(old) \cup added :
               Merge(old, line).votes[u] = IF u \in added THEN line.votes[u] ELSE old.votes[u]
      BY <3>1, MergeType DEF Entries
    <3>4. Merge(old, line) = next
      <4> DEFINE merged == Merge(old, line)
      <4> HIDE DEF line, next, merged
      <4>1. VotersOf(merged) = VotersOf(next)
        BY <2>2, <3>3 DEF merged
      <4>2. \A u \in VotersOf(merged) : merged.votes[u] = next.votes[u]
        BY <2>2, <3>1, <3>3 DEF merged
      <4>3. merged \in Maps /\ next \in Maps
        BY <2>2, <3>3 DEF merged
      <4>4. merged = next
        BY <4>1, <4>2, <4>3, MapEqual
      <4> QED
        BY <4>4 DEF merged
    <3> QED
      BY <2>3, <3>2, <3>3, <3>4
  <2> QED
    BY <2>4, <2>5
<1> QED
  BY <1>1, <1>2, <1>3, <1>4 DEF Entries
-----------------------------------------------------------------------------
LEMMA AllLiveVotesType ==
  ASSUME TypeOK, NEW p \in Polls
  PROVE  AllLiveVotes(p) \in Entries
<1> DEFINE live == liveVotes[p]
<1>1. live \in Entries
  BY DEF TypeOK, Entries
<1>2. CASE live = None \/ p \in unreadable
  <2>1. AllLiveVotes(p) = None
    BY <1>2 DEF AllLiveVotes
  <2> QED
    BY <2>1 DEF Entries
<1>3. CASE live # None /\ p \notin unreadable
  <2>1. AllLiveVotes(p) =
         CASE ~WithObjects(p) -> Map([u \in VotersOf(liveVotes[p]) |-> "nil"])
           [] WithObjects(p) /\ HasVote(p, "nil") -> Nil
           [] WithObjects(p) /\ ~HasVote(p, "nil") -> Map(liveVotes[p].votes)
    BY <1>3 DEF AllLiveVotes
  <2>2. CASE ~WithObjects(p)
    <3>1. VotersOf(live) \in SUBSET Users
      BY <1>1, MapType, EntryTags DEF Entries, IsMap
    <3>2. Map([u \in VotersOf(live) |-> "nil"]) \in Maps
      BY <3>1, MapType
    <3> QED
      BY <2>1, <2>2, <3>2 DEF Entries
  <2>3. CASE WithObjects(p) /\ HasVote(p, "nil")
    BY <2>1, <2>3 DEF Entries
  <2>4. CASE WithObjects(p) /\ ~HasVote(p, "nil")
    <3>1. VotersOf(live) \in SUBSET Users /\ live.votes \in [VotersOf(live) -> {"object", "nil"}]
      <4>1. CASE live \in Maps
        BY <4>1, MapType DEF IsMap
      <4>2. CASE live = Nil
        BY <4>2, EntryTags DEF Nil, VotersOf
      <4> QED
        BY <1>1, <1>3, <4>1, <4>2 DEF Entries
    <3>2. Map(live.votes) \in Maps
      BY <3>1, MapType
    <3> QED
      BY <2>1, <2>4, <3>2 DEF Entries
  <2> QED
    BY <2>2, <2>3, <2>4
<1> QED
  BY <1>2, <1>3

LEMMA LoadVotedType ==
  ASSUME config \in [Polls -> Configs], saved \in [Polls -> SUBSET Users]
  PROVE  LoadVoted \in [Polls -> {None} \cup Maps]
<1>1. ASSUME NEW p \in Polls
      PROVE  Map([u \in saved[p] |-> IF config[p].fast THEN "object" ELSE "nil"]) \in Maps
  <2>1. [u \in saved[p] |-> IF config[p].fast THEN "object" ELSE "nil"] \in [saved[p] -> {"object", "nil"}]
    OBVIOUS
  <2> QED
    BY <2>1, MapType
<1> QED
  BY <1>1 DEF LoadVoted

LEMMA InitInv == Init => TypeOK /\ ReceiverInSync
<1> SUFFICES ASSUME Init PROVE TypeOK /\ ReceiverInSync
  OBVIOUS
<1>1. LoadVoted \in [Polls -> {None} \cup Maps]
  BY LoadVotedType DEF Init
<1>2. NoEntries \in [Polls -> {None} \cup Maps]
  BY DEF NoEntries
<1>3. TypeOK
  BY <1>1, <1>2 DEF Init, TypeOK
<1>4. ReceiverInSync
  BY EntryTags DEF Init, ReceiverInSync, NoEntries
<1> QED
  BY <1>3, <1>4

LEMMA InvStep == TypeOK /\ ReceiverInSync /\ [Next]_vars => (TypeOK /\ ReceiverInSync)'
<1> SUFFICES ASSUME TypeOK, ReceiverInSync, [Next]_vars PROVE (TypeOK /\ ReceiverInSync)'
  OBVIOUS
<1> USE DEF service, connection
<1>e. NoEntries \in [Polls -> {None} \cup Maps]
  BY DEF NoEntries
<1>f. \A p \in Polls : NoEntries[p] = None
  BY DEF NoEntries
\* A step that leaves the connection alone.
<1>0. ASSUME UNCHANGED connection PROVE ReceiverInSync'
  BY <1>0 DEF ReceiverInSync
<1>1. ASSUME NEW p \in Polls, Start(p) PROVE TypeOK'
  BY <1>1 DEF Start, TypeOK
<1>2. ASSUME NEW p \in Polls, NEW u \in Users, NEW here, Vote(p, u, here) PROVE TypeOK'
  <2> DEFINE vote == Map([v \in {u} |-> IF config[p].named THEN "object" ELSE "nil"])
  <2>1. vote \in Maps
    <3>1. [v \in {u} |-> IF config[p].named THEN "object" ELSE "nil"] \in [{u} -> {"object", "nil"}]
      OBVIOUS
    <3> QED
      BY <3>1, MapType
  <2>2. Merge(liveVotes[p], vote) \in Maps
    BY <2>1, MergeType DEF TypeOK, Entries
  <2>3. /\ p \in known
        /\ saved' = [saved EXCEPT ![p] = @ \cup {u}]
        /\ liveVotes' = [liveVotes EXCEPT ![p] = IF here THEN Merge(@, vote) ELSE @]
        /\ UNCHANGED <<config, unreadable, known, loaded, connection>>
    BY <1>2 DEF Vote
  <2> HIDE DEF vote
  <2>4. liveVotes' \in [Polls -> {None, Nil} \cup Maps]
    BY <2>2, <2>3 DEF TypeOK
  <2>5. saved' \in [Polls -> SUBSET Users] /\ \A q \in Polls \ known' : saved'[q] = {}
    BY <2>3 DEF TypeOK
  <2> QED
    BY <2>3, <2>4, <2>5 DEF TypeOK
<1>3. ASSUME NEW p \in Polls, NEW here, Clear(p, here) PROVE TypeOK'
  <2>1. liveVotes' \in [Polls -> {None, Nil} \cup Maps]
    BY <1>3 DEF Clear, TypeOK
  <2>2. saved' \in [Polls -> SUBSET Users] /\ \A q \in Polls \ known' : saved'[q] = {}
    BY <1>3 DEF Clear, TypeOK
  <2> QED
    BY <1>3, <2>1, <2>2 DEF Clear, TypeOK
<1>4. ASSUME NEW here, ClearAll(here) PROVE TypeOK'
  <2>1. liveVotes' \in [Polls -> {None, Nil} \cup Maps]
    BY <1>4, <1>e DEF ClearAll, TypeOK
  <2> QED
    BY <1>4, <2>1 DEF ClearAll, TypeOK
<1>5. ASSUME LoadRead PROVE TypeOK'
  <2>1. LoadVoted \in [Polls -> {None} \cup Maps]
    BY LoadVotedType DEF TypeOK
  <2> QED
    BY <1>5, <2>1 DEF LoadRead, TypeOK
<1>6. ASSUME LoadSwap PROVE TypeOK'
  <2>1. loaded[1] \in [Polls -> {None} \cup Maps]
    BY <1>6 DEF LoadSwap, TypeOK
  <2>2. liveVotes' \in [Polls -> {None, Nil} \cup Maps] /\ loaded' = <<>>
    BY <1>6, <2>1 DEF LoadSwap
  <2> QED
    BY <1>6, <2>2 DEF LoadSwap, TypeOK
<1>7. ASSUME NEW p \in Polls, Datastore(p) PROVE TypeOK'
  BY <1>7 DEF Datastore, TypeOK
<1>8. CASE Connect \/ Panic \/ Disconnect
  <2>1. /\ UNCHANGED service /\ stream' \in {"closed", "new", "open", "broken"}
        /\ voterMemory' = NoEntries /\ received' = NoEntries
    BY <1>8 DEF Connect, Panic, Disconnect
  <2>2. TypeOK'
    BY <1>e, <2>1 DEF TypeOK
  <2>3. ReceiverInSync'
    BY <1>f, <2>1, EntryTags DEF ReceiverInSync
  <2> QED
    BY <2>2, <2>3
<1>9. CASE Tick
  <2>1. ASSUME NEW p \in Polls
        PROVE  /\ voterMemory[p] \in Entries /\ AllLiveVotes(p) \in Entries
               /\ voterMemory[p] = Nil => VotersOf(AllLiveVotes(p)) = {}
               /\ received[p] = Image(voterMemory[p])
    BY <1>9, AllLiveVotesType DEF TypeOK, Entries, Tick, MemoryPanics, ReceiverInSync, Image
  <2>2. ASSUME NEW p \in Polls
        PROVE  /\ voterMemory'[p] \in Entries
               /\ received'[p] \in {None} \cup Maps
               /\ received'[p] = Image(voterMemory'[p])
    <3>1. /\ voterMemory'[p] = Remember(voterMemory[p], AllLiveVotes(p))
          /\ received'[p] = Receive(Image(voterMemory[p]), Diff(voterMemory[p], AllLiveVotes(p)))
      BY <1>9, <2>1 DEF Tick
    <3> QED
      BY <2>1, <3>1, RoundInSync
  <2>3. voterMemory' \in [Polls -> {None, Nil} \cup Maps] /\ received' \in [Polls -> {None} \cup Maps]
    <3>1. /\ voterMemory' = [p \in Polls |-> voterMemory'[p]]
          /\ received' = [p \in Polls |-> received'[p]]
      BY <1>9 DEF Tick
    <3> QED
      BY <2>2, <3>1 DEF Entries
  <2>4. TypeOK'
    BY <1>9, <2>3 DEF Tick, TypeOK
  <2>5. ReceiverInSync'
    BY <2>2 DEF ReceiverInSync, Image
  <2> QED
    BY <2>4, <2>5
<1>10. CASE UNCHANGED vars
  BY <1>10 DEF vars, TypeOK, ReceiverInSync
<1>11. ASSUME \/ \E p \in Polls : Start(p)
              \/ \E p \in Polls, u \in Users, here \in Here : Vote(p, u, here)
              \/ \E p \in Polls, here \in Here : Clear(p, here)
              \/ \E here \in Here : ClearAll(here)
              \/ LoadRead \/ LoadSwap
              \/ \E p \in Polls : Datastore(p)
       PROVE  (TypeOK /\ ReceiverInSync)'
  <2>1. UNCHANGED connection
    BY <1>11 DEF Start, Vote, Clear, ClearAll, LoadRead, LoadSwap, Datastore
  <2>2. TypeOK'
    BY <1>1, <1>2, <1>3, <1>4, <1>5, <1>6, <1>7, <1>11
  <2> QED
    BY <1>0, <2>1, <2>2
<1> QED
  BY <1>8, <1>9, <1>10, <1>11 DEF Next

\* The receiver of a stream has at every moment what the handler takes for sent,
\* for any polls and users: no voter is lost between voterMemory and the lines.
THEOREM StreamInSync == Spec => []ReceiverInSync
BY InitInv, InvStep, PTL DEF Spec

\* The types: a receiver has no nil map, and only a known poll has votes.
THEOREM TypeCorrect == Spec => []TypeOK
BY InitInv, InvStep, PTL DEF Spec
=============================================================================
