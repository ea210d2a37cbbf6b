--------------------------- MODULE PostgresProofs ---------------------------
(***************************************************************************)
(* The postgres backend keeps who has voted and the votes consistent, for  *)
(* every number of polls, users and concurrent calls, with errors and      *)
(* cancelled contexts.                                                     *)
(*                                                                         *)
(* The inductive invariant joins three facts that need each other: the     *)
(* types (what is stored is a list of bytes only because what was read is  *)
(* a list of ids), the consistency of the rows (a commit preserves it only *)
(* because its snapshot is the current row) and the snapshots (which stay  *)
(* current only because every commit marks the others as stale).           *)
(***************************************************************************)
EXTENDS PostgresBackend, SequenceTheorems, WellFoundedInduction, TLAPS

-----------------------------------------------------------------------------
(***************************************************************************)
(* What the operations on user_ids compute, for lists of every length.     *)
(***************************************************************************)
\* An id is a number.
LEMMA Int32IsNat == \A x \in Int32 : x \in Nat
  BY SMT DEF Int32

\* sort.Search finds an index: the elements before it are less than u and the
\* one at it, if there is one, is not.
LEMMA SearchSpec ==
  ASSUME NEW s \in Seq(Int32), NEW u \in Int32
  PROVE  /\ Search(s, u) \in 1..(Len(s) + 1)
         /\ Search(s, u) <= Len(s) => s[Search(s, u)] >= u
         /\ \A j \in 1..(Search(s, u) - 1) : s[j] < u
<1> DEFINE T == {i \in 1..(Len(s) + 1) : i <= Len(s) => s[i] >= u}
<1>1. Len(s) \in Nat /\ \A i \in 1..Len(s) : s[i] \in Int32
  BY LenProperties, ElementOfSeq
<1>2. Len(s) + 1 \in T
  BY <1>1
<1>3. T \subseteq Nat /\ T # {}
  BY <1>1, <1>2
<1>4. \E i \in T : \A j \in T : ~(<<j, i>> \in OpToRel(<, Nat))
  <2> HIDE DEF T
  <2> QED BY <1>3, NatLessThanWellFounded, WFMin, Zenon
<1>5. PICK i \in T : \A j \in T : ~(j < i)
  BY <1>3, <1>4 DEF OpToRel
<1>6. \A j \in 1..(i - 1) : s[j] < u
  <2> SUFFICES ASSUME NEW j \in 1..(i - 1) PROVE s[j] < u
    OBVIOUS
  <2>1. j \in 1..Len(s) /\ j < i
    BY <1>1, <1>5
  <2>2. j \notin T
    BY <1>5, <2>1
  <2> QED BY <1>1, <2>1, <2>2, Int32IsNat
<1> QED
  BY <1>5, <1>6 DEF Search

\* In a sorted list, contains finds exactly the members.
LEMMA ContainsSpec ==
  ASSUME NEW s \in Seq(Int32), NEW u \in Int32, StrictlySorted(s)
  PROVE  contains(s, u) <=> u \in Range(s)
<1> DEFINE i == Search(s, u)
<1>1. Len(s) \in Nat /\ DOMAIN s = 1..Len(s) /\ \A k \in 1..Len(s) : s[k] \in Int32
  BY LenProperties, ElementOfSeq
<1>2. /\ i \in 1..(Len(s) + 1)
      /\ i <= Len(s) => s[i] >= u
      /\ \A j \in 1..(i - 1) : s[j] < u
  BY SearchSpec
<1> HIDE DEF i
<1>3. ASSUME i <= Len(s), s[i] = u
      PROVE  u \in Range(s)
  BY <1>1, <1>2, <1>3 DEF Range
<1>4. ASSUME u \in Range(s)
      PROVE  i <= Len(s) /\ s[i] = u
  <2>1. PICK k \in 1..Len(s) : s[k] = u
    BY <1>1, <1>4 DEF Range
  <2>2. i <= k
    <3> SUFFICES ASSUME k < i PROVE FALSE
      BY <1>1, <1>2
    <3>1. s[k] < u
      BY <1>1, <1>2
    <3> QED BY <2>1, <3>1, Int32IsNat
  <2>3. i <= Len(s) /\ s[i] \in Int32
    BY <1>1, <1>2, <2>1, <2>2
  <2>4. ~(i < k)
    <3> SUFFICES ASSUME i < k PROVE FALSE
      OBVIOUS
    <3>1. s[i] < s[k]
      BY <1>2, <2>1, <2>3 DEF StrictlySorted
    <3> QED BY <1>2, <2>1, <2>3, <3>1, Int32IsNat
  <2> QED BY <1>2, <2>1, <2>2, <2>3, <2>4
<1> QED
  BY <1>3, <1>4 DEF contains, i

\* add inserts exactly the new user and keeps the list sorted.
LEMMA AddSpec ==
  ASSUME NEW s \in Seq(Int32), NEW u \in Int32, StrictlySorted(s), u \notin Range(s)
  PROVE  /\ add(s, u) \in Seq(Int32)
         /\ StrictlySorted(add(s, u))
         /\ Range(add(s, u)) = Range(s) \cup {u}
<1> DEFINE i == Search(s, u)
           t == add(s, u)
<1>1. Len(s) \in Nat /\ DOMAIN s = 1..Len(s) /\ \A k \in 1..Len(s) : s[k] \in Int32
  BY LenProperties, ElementOfSeq
<1>2. /\ i \in 1..(Len(s) + 1)
      /\ i <= Len(s) => s[i] >= u
      /\ \A j \in 1..(i - 1) : s[j] < u
  BY SearchSpec
<1>3. t = (SubSeq(s, 1, i - 1) \o <<u>>) \o SubSeq(s, i, Len(s))
  BY DEF add
<1> HIDE DEF i, t
<1>4. /\ SubSeq(s, 1, i - 1) \in Seq(Int32)
      /\ Len(SubSeq(s, 1, i - 1)) = i - 1
      /\ \A k \in 1..(i - 1) : SubSeq(s, 1, i - 1)[k] = s[k]
  <2>1. \A k \in 1..(i - 1) : s[k] \in Int32
    BY <1>1, <1>2
  <2> QED BY <1>2, <2>1, SubSeqProperties
<1>5. /\ SubSeq(s, i, Len(s)) \in Seq(Int32)
      /\ Len(SubSeq(s, i, Len(s))) = Len(s) + 1 - i
      /\ \A k \in 1..(Len(s) + 1 - i) : SubSeq(s, i, Len(s))[k] = s[i + k - 1]
  <2>1. \A k \in i..Len(s) : s[k] \in Int32
    BY <1>1, <1>2
  <2> QED BY <1>1, <1>2, <2>1, SubSeqProperties
<1>6. /\ SubSeq(s, 1, i - 1) \o <<u>> \in Seq(Int32)
      /\ Len(SubSeq(s, 1, i - 1) \o <<u>>) = i
      /\ \A k \in 1..i : (SubSeq(s, 1, i - 1) \o <<u>>)[k] = IF k < i THEN s[k] ELSE u
  <2>1. <<u>> \in Seq(Int32) /\ Len(<<u>>) = 1 /\ <<u>>[1] = u
    OBVIOUS
  <2> QED BY <1>2, <1>4, <2>1, ConcatProperties
<1>7. /\ t \in Seq(Int32)
      /\ Len(t) = Len(s) + 1
      /\ \A k \in 1..(Len(s) + 1) :
           t[k] = IF k < i THEN s[k] ELSE IF k = i THEN u ELSE s[k - 1]
  <2> DEFINE a == SubSeq(s, 1, i - 1) \o <<u>>
             b == SubSeq(s, i, Len(s))
  <2>1. a \in Seq(Int32) /\ Len(a) = i /\ \A k \in 1..i : a[k] = IF k < i THEN s[k] ELSE u
    BY <1>6
  <2>2. /\ b \in Seq(Int32) /\ Len(b) = Len(s) + 1 - i
        /\ \A k \in 1..(Len(s) + 1 - i) : b[k] = s[i + k - 1]
    BY <1>5
  <2>3. t = a \o b
    BY <1>3
  <2> HIDE DEF a, b
  <2>4. /\ t \in Seq(Int32)
        /\ Len(t) = Len(a) + Len(b)
        /\ \A k \in 1..(Len(a) + Len(b)) : t[k] = IF k <= Len(a) THEN a[k] ELSE b[k - Len(a)]
    BY <2>1, <2>2, <2>3, ConcatProperties
  <2>5. ASSUME NEW k \in 1..(Len(s) + 1)
        PROVE  t[k] = IF k < i THEN s[k] ELSE IF k = i THEN u ELSE s[k - 1]
    <3>1. CASE k <= i
      BY <1>1, <1>2, <2>1, <2>2, <2>4, <3>1
    <3>2. CASE k > i
      <4>1. k - i \in 1..(Len(s) + 1 - i) /\ i + (k - i) - 1 = k - 1
        BY <1>1, <1>2, <3>2
      <4> QED BY <1>1, <1>2, <2>1, <2>2, <2>4, <3>2, <4>1
    <3> QED BY <1>1, <1>2, <3>1, <3>2
  <2> QED BY <1>1, <1>2, <2>1, <2>2, <2>4, <2>5
<1>8. \A k \in i..Len(s) : u < s[k]
  <2> SUFFICES ASSUME NEW k \in i..Len(s) PROVE u < s[k]
    OBVIOUS
  <2>1. /\ i \in 1..Len(s) /\ k \in 1..Len(s)
        /\ i = k \/ i < k
    BY <1>1, <1>2
  <2>2. u \in Nat /\ s[i] \in Nat /\ s[k] \in Nat
    BY <1>1, <2>1, Int32IsNat
  <2>3. s[i] >= u
    BY <1>1, <1>2, <2>1
  <2>4. i < k => s[i] < s[k]
    BY <2>1 DEF StrictlySorted
  <2>5. s[k] # u
    BY <1>1, <2>1 DEF Range
  <2> QED BY <2>1, <2>2, <2>3, <2>4, <2>5
<1>9. StrictlySorted(t)
  <2> SUFFICES ASSUME NEW j \in 1..Len(t), NEW k \in 1..Len(t), j < k
               PROVE  t[j] < t[k]
    BY DEF StrictlySorted
  <2>1. CASE k < i
    BY <1>1, <1>2, <1>7, <2>1 DEF StrictlySorted
  <2>2. CASE k = i
    BY <1>1, <1>2, <1>7, <2>2
  <2>3. CASE k > i /\ j > i
    BY <1>1, <1>2, <1>7, <2>3 DEF StrictlySorted
  <2>4. CASE k > i /\ j = i
    BY <1>1, <1>2, <1>7, <1>8, <2>4
  <2>5. CASE k > i /\ j < i
    BY <1>1, <1>2, <1>7, <2>5 DEF StrictlySorted
  <2> QED BY <1>1, <1>2, <1>7, <2>1, <2>2, <2>3, <2>4, <2>5
<1>10. Range(t) = Range(s) \cup {u}
  <2>1. DOMAIN t = 1..(Len(s) + 1)
    BY <1>7, LenProperties
  <2>2. ASSUME NEW k \in DOMAIN t PROVE t[k] \in Range(s) \cup {u}
    BY <1>1, <1>2, <1>7, <2>1 DEF Range
  <2>3. ASSUME NEW k \in DOMAIN s PROVE s[k] \in Range(t)
    <3>1. CASE k < i
      BY <1>1, <1>2, <1>7, <2>1, <3>1 DEF Range
    <3>2. CASE ~(k < i)
      <4>1. k + 1 \in DOMAIN t /\ t[k + 1] = s[k]
        BY <1>1, <1>2, <1>7, <2>1, <3>2
      <4> QED BY <4>1 DEF Range
    <3> QED BY <3>1, <3>2
  <2>4. u \in Range(t)
    <3>1. i \in DOMAIN t /\ t[i] = u
      BY <1>1, <1>2, <1>7, <2>1
    <3> QED BY <3>1 DEF Range
  <2> QED BY <2>2, <2>3, <2>4 DEF Range
<1> QED
  BY <1>7, <1>9, <1>10 DEF t

\* Four bytes determine an int32.
LEMMA LittleEndianSpec ==
  ASSUME NEW x \in Int32
  PROVE  /\ \A k \in 1..4 : LittleEndian(x)[k] \in Byte
         /\ int32At(LittleEndian(x), 1) = x
<1> DEFINE a == x \div 256
           b == a \div 256
           d == b \div 256
<1>1. x \in Nat /\ x <= 2147483647
  BY SMT DEF Int32
<1>2. a \in Nat /\ x = 256 * a + (x % 256) /\ x % 256 \in Byte
  BY <1>1 DEF Byte
<1>3. x \div 65536 = b /\ x \div 16777216 = d
  BY <1>1, SMT
<1>4. b \in Nat /\ a = 256 * b + (a % 256) /\ a % 256 \in Byte
  BY <1>2 DEF Byte
<1>5. d \in Nat /\ b = 256 * d + (b % 256) /\ b % 256 \in Byte
  BY <1>4 DEF Byte
<1>6. d < 256
  BY <1>1, <1>2, <1>4, <1>5, SMT DEF Byte
<1>7. d % 256 = d /\ d \in Byte
  BY <1>5, <1>6 DEF Byte
<1>8. LittleEndian(x) = <<x % 256, a % 256, b % 256, d>>
  BY <1>3, <1>7, SMT DEF LittleEndian
<1> HIDE DEF a, b, d
<1>9. \A k \in 1..4 : LittleEndian(x)[k] \in Byte
  BY <1>2, <1>4, <1>5, <1>7, <1>8
<1>10. x = (x % 256) + 256 * (a % 256) + 65536 * (b % 256) + 16777216 * d
  BY <1>1, <1>2, <1>4, <1>5, SMT DEF Byte
<1>11. int32At(LittleEndian(x), 1) = (x % 256) + 256 * (a % 256) + 65536 * (b % 256) + 16777216 * d
  BY <1>8, SMT DEF int32At
<1> QED
  BY <1>9, <1>10, <1>11, SMT

\* What is written to user_ids is read back.
LEMMA RoundTrip ==
  ASSUME NEW s \in Seq(Int32)
  PROVE  /\ toBytes(s) \in Seq(Byte)
         /\ userIDListFromBytes(toBytes(s)) = s
<1> DEFINE n == Len(s)
           t == toBytes(s)
<1>1. n \in Nat /\ DOMAIN s = 1..n /\ s = [i \in 1..n |-> s[i]] /\ \A i \in 1..n : s[i] \in Int32
  BY LenProperties, ElementOfSeq
<1>2. ASSUME NEW i \in 1..(4 * n)
      PROVE  /\ 1 + ((i - 1) \div 4) \in 1..n
             /\ 1 + ((i - 1) % 4) \in 1..4
  BY <1>1
<1>3. t = [i \in 1..(4 * n) |-> LittleEndian(s[1 + ((i - 1) \div 4)])[1 + ((i - 1) % 4)]]
  BY DEF toBytes
<1> HIDE DEF n, t
<1>4. \A i \in 1..(4 * n) : t[i] \in Byte
  BY <1>1, <1>2, <1>3, LittleEndianSpec
<1>5. 4 * n \in Nat
  BY <1>1
<1>6. t \in Seq(Byte) /\ Len(t) = 4 * n
  <2>1. t \in [1..(4 * n) -> Byte]
    BY <1>3, <1>4
  <2> QED BY <1>5, <2>1
<1>7. ASSUME NEW i \in 1..n
      PROVE  int32At(t, 4*i - 3) = s[i]
  <2>1. /\ 4*i - 3 \in 1..(4 * n) /\ 4*i - 2 \in 1..(4 * n)
        /\ 4*i - 1 \in 1..(4 * n) /\ 4*i \in 1..(4 * n)
    BY <1>1
  <2>2. /\ 1 + ((4*i - 3 - 1) \div 4) = i /\ 1 + ((4*i - 2 - 1) \div 4) = i
        /\ 1 + ((4*i - 1 - 1) \div 4) = i /\ 1 + ((4*i - 1) \div 4) = i
    <3>1. i \in Int
      BY <1>1
    <3>2. 1 + ((4*i - 3 - 1) \div 4) = i
      BY <3>1
    <3>3. 1 + ((4*i - 2 - 1) \div 4) = i
      BY <3>1
    <3>4. 1 + ((4*i - 1 - 1) \div 4) = i
      BY <3>1
    <3>5. 1 + ((4*i - 1) \div 4) = i
      BY <3>1
    <3> QED BY <3>2, <3>3, <3>4, <3>5
  <2>3. /\ 1 + ((4*i - 3 - 1) % 4) = 1 /\ 1 + ((4*i - 2 - 1) % 4) = 2
        /\ 1 + ((4*i - 1 - 1) % 4) = 3 /\ 1 + ((4*i - 1) % 4) = 4
    BY <1>1
  <2>4. /\ t[4*i - 3] = LittleEndian(s[i])[1] /\ t[4*i - 2] = LittleEndian(s[i])[2]
        /\ t[4*i - 1] = LittleEndian(s[i])[3] /\ t[4*i] = LittleEndian(s[i])[4]
    BY <1>3, <2>1, <2>2, <2>3
  <2>5. 4*i - 3 + 1 = 4*i - 2 /\ 4*i - 3 + 2 = 4*i - 1 /\ 4*i - 3 + 3 = 4*i
    BY <1>1
  <2>6. int32At(t, 4*i - 3) = int32At(LittleEndian(s[i]), 1)
    BY <2>4, <2>5, SMT DEF int32At
  <2> QED BY <1>1, <2>6, LittleEndianSpec
<1>8. Len(t) \div 4 = n
  BY <1>1, <1>6
<1>9. userIDListFromBytes(t) = [i \in 1..n |-> s[i]]
  BY <1>7, <1>8 DEF userIDListFromBytes
<1> QED
  BY <1>1, <1>6, <1>9 DEF t
-----------------------------------------------------------------------------
(***************************************************************************)
(* The rows and the transactions.                                          *)
(***************************************************************************)
IInv == TypeOK /\ RowsConsistent /\ SnapshotIsCurrent

-----------------------------------------------------------------------------
\* The fields of a request by its operation.
LEMMA RequestType ==
  ASSUME TypeOK, NEW c \in Clients, pc[c] # "idle"
  PROVE  /\ req[c].op \in Op
         /\ req[c].op = "vote" => req[c].poll \in Polls /\ req[c].user \in Users /\ req[c].object \in Objects
         /\ req[c].op \in {"start", "stop", "clear"} => req[c].poll \in Polls
<1>1. req[c] \in VoteRequest \/ req[c] \in PollRequest \/ req[c] \in ClearAllRequest
  BY DEF TypeOK, RequestsOf
<1> QED
  BY <1>1 DEF VoteRequest, PollRequest, ClearAllRequest, Op

\* A transaction has a poll.
LEMMA TransactionPoll ==
  ASSUME TypeOK, SnapshotIsCurrent, NEW c \in Clients, pc[c] \in {"update", "locked"}
  PROVE  req[c].poll \in Polls
  BY RequestType DEF SnapshotIsCurrent, TransactionOK

\* The stored bytes decode to a sorted list of ids.
LEMMA StoredList ==
  ASSUME TypeOK, RowsConsistent, NEW p \in Polls
  PROVE  /\ userIDListFromBytes(row[p].user_ids) \in Seq(Int32)
         /\ StrictlySorted(userIDListFromBytes(row[p].user_ids))
         /\ Range(userIDListFromBytes(row[p].user_ids)) \subseteq Users
<1> DEFINE raw == row[p].user_ids
           uIDs == userIDListFromBytes(raw)
           n == Len(raw) \div 4
<1>1. raw \in Seq(Byte)
  BY DEF TypeOK, Row
<1>2. n \in Nat
  <2>1. Len(raw) \in Nat
    BY <1>1, LenProperties
  <2> HIDE DEF raw
  <2> QED BY <2>1
<1>3. StrictlySorted(uIDs) /\ Range(uIDs) = {x[1] : x \in objects[p]}
  BY DEF RowsConsistent
<1>4. Range(uIDs) \subseteq Users
  BY <1>3 DEF TypeOK
<1>5. DOMAIN uIDs = 1..n /\ uIDs = [i \in 1..n |-> uIDs[i]]
  BY DEF userIDListFromBytes
<1> HIDE DEF uIDs, n
<1>6. \A i \in 1..n : uIDs[i] \in Int32
  BY <1>4, <1>5, UsersAssumption DEF Range
<1>7. uIDs \in [1..n -> Int32]
  BY <1>5, <1>6
<1>8. uIDs \in Seq(Int32)
  BY <1>2, <1>7
<1> QED
  BY <1>3, <1>4, <1>8 DEF uIDs

\* What a vote writes back: the list with the voter, of a user that was not
\* listed.
LEMMA WrittenList ==
  ASSUME IInv, NEW c \in Clients, At(c, "vote", "locked"),
         NEW p, p = req[c].poll, NEW u, u = req[c].user
  PROVE  LET old == userIDListFromBytes(row[p].user_ids)
             new == toBytes(add(userIDListFromBytes(snap[c].row.user_ids), u))
         IN
         /\ p \in Polls /\ u \in Users
         /\ row[p].exists /\ ~row[p].stopped
         /\ u \notin Range(old)
         /\ new \in Seq(Byte)
         /\ StrictlySorted(userIDListFromBytes(new))
         /\ Range(userIDListFromBytes(new)) = Range(old) \cup {u}
<1> DEFINE old == userIDListFromBytes(row[p].user_ids)
<1>1. p \in Polls /\ u \in Users
  BY RequestType DEF IInv, At
<1>2. /\ snap[c] = [row |-> row[p], objects |-> objects[p]]
      /\ row[p].exists /\ ~row[p].stopped
      /\ ~contains(old, u)
  BY DEF IInv, SnapshotIsCurrent, TransactionOK, At
<1>3. old \in Seq(Int32) /\ StrictlySorted(old) /\ u \in Int32
  BY <1>1, StoredList, UsersAssumption DEF IInv
<1>4. userIDListFromBytes(snap[c].row.user_ids) = old
  BY <1>2
<1> HIDE DEF old
<1>5. u \notin Range(old)
  BY <1>2, <1>3, ContainsSpec
<1>6. /\ add(old, u) \in Seq(Int32)
      /\ StrictlySorted(add(old, u))
      /\ Range(add(old, u)) = Range(old) \cup {u}
  BY <1>3, <1>5, AddSpec
<1>7. /\ toBytes(add(old, u)) \in Seq(Byte)
      /\ userIDListFromBytes(toBytes(add(old, u))) = add(old, u)
  BY <1>6, RoundTrip
<1> QED
  BY <1>1, <1>2, <1>4, <1>5, <1>6, <1>7 DEF old
-----------------------------------------------------------------------------
\* The empty database satisfies the invariant.
LEMMA InitIInv == Init => IInv
<1> SUFFICES ASSUME Init PROVE IInv
  OBVIOUS
<1>1. TypeOK
  BY DEF Init, TypeOK, Row, NoRow, NoSnapshot, NoRequest, Answer, AnswerSet, Kind
<1>2. RowsConsistent
  <2> SUFFICES ASSUME NEW p \in Polls
               PROVE  LET uIDs == userIDListFromBytes(row[p].user_ids) IN
                      /\ StrictlySorted(uIDs)
                      /\ Range(uIDs) = {x[1] : x \in objects[p]}
                      /\ \A x, y \in objects[p] : x[1] = y[1] => x = y
                      /\ ~row[p].exists => row[p] = NoRow /\ objects[p] = {}
    BY DEF RowsConsistent
  <2>1. row[p] = NoRow /\ objects[p] = {} /\ row[p].user_ids = <<>>
    BY DEF Init, NoRow
  <2>2. userIDListFromBytes(<<>>) = <<>>
    BY DEF userIDListFromBytes
  <2> QED BY <2>1, <2>2 DEF StrictlySorted, Range
<1>3. SnapshotIsCurrent
  BY DEF Init, SnapshotIsCurrent
<1> QED
  BY <1>1, <1>2, <1>3 DEF IInv
-----------------------------------------------------------------------------
\* The steps that only move a call along leave the tables alone.
LEMMA TablesUnchanged ==
  ASSUME NEW c \in Clients,
         \/ Invoke(c) \/ voteSelect(c) \/ stopSelect(c) \/ Update(c)
         \/ UndefinedTable(c) \/ Return(c) \/ Fail(c) \/ LoopExit(c)
  PROVE  UNCHANGED <<schema, row, objects>>
  BY DEF Invoke, voteSelect, stopSelect, Update, UndefinedTable, Return, Fail, LoopExit,
         Finish, TakeSnapshot, tables

\* Every step keeps the types.
LEMMA TypeStep == IInv /\ [Next]_vars => TypeOK'
<1> SUFFICES ASSUME IInv, [Next]_vars PROVE TypeOK'
  OBVIOUS
<1> USE DEF IInv
<1>r. \A kind \in Kind : Answer(kind) \in AnswerSet
  BY DEF Answer, AnswerSet
<1>n. NoRow \in Row /\ NoSnapshot \in [row : Row, objects : SUBSET (Users \X Objects)]
  BY DEF NoSnapshot, NoRow, Row
<1>1. ASSUME NEW c \in Clients, Invoke(c) PROVE TypeOK'
  <2>1. PICK r \in RequestsOf(c) : req' = [req EXCEPT ![c] = r]
    BY <1>1 DEF Invoke
  <2> QED BY <1>1, <2>1 DEF TypeOK, Invoke, tables, tx, RequestsOf
<1>2. ASSUME NEW c \in Clients, Start(c) PROVE TypeOK'
  <2>1. req[c].poll \in Polls
    BY <1>2, RequestType DEF Start, At
  <2> QED BY <1>2, <1>r, <2>1 DEF TypeOK, Start, At, Reply, tx, Row, NewRow, Kind
<1>3. ASSUME NEW c \in Clients, TakeSnapshot(c), pc[c] # "idle", req[c].poll \in Polls PROVE TypeOK'
  BY <1>3 DEF TypeOK, TakeSnapshot, tables
<1>4. ASSUME NEW c \in Clients, NEW kind \in Kind, pc[c] # "idle",
             Reply(c, Answer(kind)), UNCHANGED <<tables, tx>>
      PROVE  TypeOK'
  BY <1>4, <1>r DEF TypeOK, Reply, tables, tx
<1>5. ASSUME NEW c \in Clients, voteSelect(c) PROVE TypeOK'
  <2>1. pc[c] # "idle" /\ req[c].poll \in Polls
    BY <1>5, RequestType DEF voteSelect, At
  <2> QED BY <1>3, <1>4, <1>5, <2>1 DEF voteSelect, Kind
<1>6. ASSUME NEW c \in Clients, stopSelect(c) PROVE TypeOK'
  <2>1. pc[c] # "idle" /\ req[c].poll \in Polls
    BY <1>6, RequestType DEF stopSelect, At
  <2> QED BY <1>3, <1>4, <1>6, <2>1 DEF stopSelect, Kind
<1>7. ASSUME NEW c \in Clients, Update(c) PROVE TypeOK'
  <2>1. /\ UNCHANGED <<schema, row, objects, req, res>>
        /\ pc[c] = "update"
        /\ pc' = [pc EXCEPT ![c] = "locked"] \/ pc' = [pc EXCEPT ![c] = "begin"]
    BY <1>7 DEF Update, tables
  <2>2. /\ snap' = snap \/ snap' = [snap EXCEPT ![c] = NoSnapshot]
        /\ stale' = stale \/ stale' = [stale EXCEPT ![c] = FALSE]
        /\ retried' = retried \/ retried' = [retried EXCEPT ![c] = TRUE]
    <3>1. \/ snap' = snap /\ stale' = stale /\ retried' = retried
          \/ /\ snap' = [snap EXCEPT ![c] = NoSnapshot]
             /\ stale' = [stale EXCEPT ![c] = FALSE]
             /\ retried' = [retried EXCEPT ![c] = TRUE]
      BY <1>7, Zenon DEF Update, tx
    <3> QED BY <3>1, Zenon
  <2>3. /\ snap' \in [Clients -> [row : Row, objects : SUBSET (Users \X Objects)]]
        /\ stale' \in [Clients -> BOOLEAN]
        /\ retried' \in [Clients -> BOOLEAN]
    <3> DEFINE S == [row : Row, objects : SUBSET (Users \X Objects)]
    <3>1. /\ snap \in [Clients -> S] /\ NoSnapshot \in S
          /\ stale \in [Clients -> BOOLEAN] /\ retried \in [Clients -> BOOLEAN]
      BY <1>n DEF TypeOK
    <3> HIDE DEF S
    <3>2. snap' \in [Clients -> S]
      BY <2>2, <3>1
    <3>3. stale' \in [Clients -> BOOLEAN] /\ retried' \in [Clients -> BOOLEAN]
      BY <2>2, <3>1, Zenon
    <3> QED BY <3>2, <3>3 DEF S
  <2> QED BY <2>1, <2>3 DEF TypeOK
<1>8. ASSUME NEW c \in Clients, NEW p \in Polls, CommitRow(c, p)
      PROVE  /\ snap' \in [Clients -> [row : Row, objects : SUBSET (Users \X Objects)]]
             /\ stale' \in [Clients -> BOOLEAN]
  BY <1>8, <1>n DEF TypeOK, CommitRow
<1>9. ASSUME NEW c \in Clients, voteCommit(c) PROVE TypeOK'
  <2> DEFINE p == req[c].poll
             u == req[c].user
             new == toBytes(add(userIDListFromBytes(snap[c].row.user_ids), u))
  <2>1. p \in Polls /\ u \in Users /\ new \in Seq(Byte)
    BY <1>9, WrittenList DEF voteCommit
  <2>2. req[c].object \in Objects /\ pc[c] = "locked"
    BY <1>9, RequestType DEF voteCommit, At
  <2>3. row' = [row EXCEPT ![p].user_ids = new]
    BY <1>9 DEF voteCommit
  <2>4. row' \in [Polls -> Row]
    <3> DEFINE r == [row[p] EXCEPT !.user_ids = new]
    <3>1. row \in [Polls -> Row]
      BY DEF TypeOK
    <3> HIDE DEF new, p
    <3>2. r \in Row
      BY <2>1, <3>1 DEF Row
    <3>3. row' = [row EXCEPT ![p] = r]
      BY <2>3
    <3> HIDE DEF r
    <3> QED BY <2>1, <3>1, <3>2, <3>3
  <2>5. objects' \in [Polls -> SUBSET (Users \X Objects)]
    BY <1>9, <2>1, <2>2 DEF TypeOK, voteCommit
  <2>6. /\ snap' \in [Clients -> [row : Row, objects : SUBSET (Users \X Objects)]]
        /\ stale' \in [Clients -> BOOLEAN]
    BY <1>8, <1>9, <2>1 DEF voteCommit
  <2>7. /\ UNCHANGED <<schema, req, retried>>
        /\ pc' = [pc EXCEPT ![c] = "return"]
        /\ res' = [res EXCEPT ![c] = Answer("ok")]
    BY <1>9 DEF voteCommit, Reply
  <2>8. res' \in [Clients -> AnswerSet]
    BY <1>r, <2>7 DEF TypeOK, Kind
  <2> HIDE DEF new, p, u
  <2> QED BY <2>2, <2>4, <2>5, <2>6, <2>7, <2>8 DEF TypeOK
<1>10. ASSUME NEW c \in Clients, stopCommit(c) PROVE TypeOK'
  <2> DEFINE p == req[c].poll
  <2>1. p \in Polls /\ pc[c] = "locked"
    BY <1>10, RequestType DEF stopCommit, At
  <2>2. snap[c] = [row |-> row[p], objects |-> objects[p]]
    BY <1>10 DEF stopCommit, At, SnapshotIsCurrent, TransactionOK
  <2>3. Range(userIDListFromBytes(snap[c].row.user_ids)) \in SUBSET Users
    BY <2>1, <2>2, StoredList
  <2>4. snap[c].objects \in SUBSET (Users \X Objects)
    BY <2>1, <2>2 DEF TypeOK
  <2> DEFINE answer == [kind    |-> "ok",
                        users   |-> Range(userIDListFromBytes(snap[c].row.user_ids)),
                        objects |-> snap[c].objects]
  <2>5. res' \in [Clients -> AnswerSet]
    <3>1. answer \in AnswerSet
      BY <2>3, <2>4 DEF AnswerSet, Kind
    <3>2. res' = [res EXCEPT ![c] = answer]
      BY <1>10 DEF stopCommit, Reply
    <3> HIDE DEF answer
    <3> QED BY <3>1, <3>2 DEF TypeOK
  <2>6. row' \in [Polls -> Row]
    <3> DEFINE r == [row[p] EXCEPT !.stopped = TRUE]
    <3>1. row \in [Polls -> Row]
      BY DEF TypeOK
    <3>2. r \in Row
      BY <2>1, <3>1 DEF Row
    <3>3. row' = [row EXCEPT ![p] = r]
      BY <1>10 DEF stopCommit
    <3> HIDE DEF r, p
    <3> QED BY <2>1, <3>1, <3>2, <3>3
  <2>7. /\ snap' \in [Clients -> [row : Row, objects : SUBSET (Users \X Objects)]]
        /\ stale' \in [Clients -> BOOLEAN]
    BY <1>8, <1>10, <2>1 DEF stopCommit
  <2> QED BY <1>10, <2>1, <2>5, <2>6, <2>7 DEF TypeOK, stopCommit, Reply
<1>11. ASSUME NEW c \in Clients, Clear(c) PROVE TypeOK'
  <2>1. req[c].poll \in Polls /\ pc[c] = "begin"
    BY <1>11, RequestType DEF Clear, At
  <2>2. /\ snap' \in [Clients -> [row : Row, objects : SUBSET (Users \X Objects)]]
        /\ stale' \in [Clients -> BOOLEAN]
    BY <1>8, <1>11, <2>1 DEF Clear
  <2>3. row' \in [Polls -> Row] /\ objects' \in [Polls -> SUBSET (Users \X Objects)]
    BY <1>11, <1>n DEF TypeOK, Clear
  <2> QED BY <1>11, <1>r, <2>1, <2>2, <2>3 DEF TypeOK, Clear, Reply, Kind
<1>12. ASSUME NEW c \in Clients, ClearAllDrop(c) PROVE TypeOK'
  <2>1. row' \in [Polls -> Row] /\ objects' \in [Polls -> SUBSET (Users \X Objects)]
    BY <1>12, <1>n DEF ClearAllDrop
  <2> QED BY <1>12, <2>1 DEF TypeOK, ClearAllDrop, At, tx
<1>13. ASSUME NEW c \in Clients, ClearAllMigrate(c) PROVE TypeOK'
  BY <1>13, <1>r DEF TypeOK, ClearAllMigrate, At, Reply, tx, Kind
<1>14. CASE Migrate
  BY <1>14 DEF TypeOK, Migrate, tx
<1>15. ASSUME NEW c \in Clients, Finish(c) PROVE TypeOK'
  BY <1>15, <1>r, <1>n DEF TypeOK, Finish, tables, Kind
<1>16. ASSUME NEW c \in Clients, LoopExit(c) PROVE TypeOK'
  <2>1. pc[c] # "idle"
    BY <1>16 DEF LoopExit
  <2> QED BY <1>4, <1>15, <1>16, <2>1 DEF LoopExit, Kind
<1>17. CASE UNCHANGED vars
  BY <1>17 DEF TypeOK, vars
<1> QED
  BY <1>1, <1>2, <1>5, <1>6, <1>7, <1>9, <1>10, <1>11, <1>12, <1>13, <1>14, <1>15, <1>16, <1>17
     DEF Next, Step, UndefinedTable, Return, Fail
-----------------------------------------------------------------------------
\* The consistency of one poll.
RowOK(r, objs) ==
  /\ StrictlySorted(userIDListFromBytes(r.user_ids))
  /\ Range(userIDListFromBytes(r.user_ids)) = {x[1] : x \in objs}
  /\ \A x, y \in objs : x[1] = y[1] => x = y
  /\ ~r.exists => r = NoRow /\ objs = {}

\* RowsConsistent says the same of every poll.
LEMMA RowsConsistentByPoll ==
  /\ RowsConsistent <=> \A p \in Polls : RowOK(row[p], objects[p])
  /\ RowsConsistent' <=> \A p \in Polls : RowOK(row'[p], objects'[p])
  BY DEF RowsConsistent, RowOK

\* A poll without votes is consistent, whether it has a row or not.
LEMMA EmptyRowOK == RowOK(NoRow, {}) /\ RowOK(NewRow, {})
<1>1. userIDListFromBytes(<<>>) = <<>>
  BY DEF userIDListFromBytes
<1>2. StrictlySorted(<<>>) /\ Range(<<>>) = {}
  BY DEF StrictlySorted, Range
<1> QED
  BY <1>1, <1>2 DEF RowOK, NoRow, NewRow

\* The voters of the votes A and one more vote z.
LEMMA FirstsOfUnion ==
  ASSUME NEW A, NEW z
  PROVE  {x[1] : x \in A \cup {z}} = {x[1] : x \in A} \cup {z[1]}
  BY Zenon

\* Every step keeps the list of voters and the votes consistent.
LEMMA RowsStep == IInv /\ [Next]_vars => RowsConsistent'
<1> SUFFICES ASSUME IInv, [Next]_vars,
                    NEW q \in Polls
             PROVE  RowOK(row'[q], objects'[q])
  BY RowsConsistentByPoll
<1>0. RowOK(row[q], objects[q])
  BY RowsConsistentByPoll DEF IInv
<1>t. row \in [Polls -> Row] /\ objects \in [Polls -> SUBSET (Users \X Objects)]
  BY DEF IInv, TypeOK
<1>1. CASE UNCHANGED <<row, objects>>
  BY <1>0, <1>1
<1>2. ASSUME NEW c \in Clients, Start(c) PROVE RowOK(row'[q], objects'[q])
  <2>1. objects' = objects /\ row'[q] \in {row[q], IF row[q].exists THEN row[q] ELSE NewRow}
    BY <1>2, <1>t DEF Start
  <2>2. CASE row[q].exists
    BY <1>0, <2>1, <2>2
  <2>3. CASE ~row[q].exists
    BY <1>0, <2>1, <2>3, EmptyRowOK DEF RowOK
  <2> QED BY <2>2, <2>3
<1>3. ASSUME NEW c \in Clients, voteCommit(c) PROVE RowOK(row'[q], objects'[q])
  <2> DEFINE p == req[c].poll
             u == req[c].user
             new == toBytes(add(userIDListFromBytes(snap[c].row.user_ids), u))
             old == userIDListFromBytes(row[p].user_ids)
  <2>1. /\ p \in Polls
        /\ row[p].exists
        /\ u \notin Range(old)
        /\ StrictlySorted(userIDListFromBytes(new))
        /\ Range(userIDListFromBytes(new)) = Range(old) \cup {u}
    BY <1>3, WrittenList DEF voteCommit
  <2>2. /\ row' = [row EXCEPT ![p].user_ids = new]
        /\ objects' = [objects EXCEPT ![p] = @ \cup {<<u, req[c].object>>}]
    BY <1>3 DEF voteCommit
  <2>3. CASE q # p
    <3>1. row'[q] = row[q] /\ objects'[q] = objects[q]
      BY <1>t, <2>1, <2>2, <2>3
    <3> QED BY <1>0, <3>1
  <2>4. CASE q = p
    <3>1. /\ row'[q].user_ids = new /\ row'[q].exists
          /\ objects'[q] = objects[q] \cup {<<u, req[c].object>>}
      <4> HIDE DEF new
      <4> QED BY <1>t, <2>1, <2>2, <2>4 DEF Row
    <3>2. Range(old) = {x[1] : x \in objects[q]}
      BY <1>0, <2>4 DEF RowOK
    <3> HIDE DEF new, old, p, u
    <3>3. Range(userIDListFromBytes(new)) = {x[1] : x \in objects'[q]}
      <4>1. {x[1] : x \in objects[q] \cup {<<u, req[c].object>>}}
              = {x[1] : x \in objects[q]} \cup {u}
        <5>1. <<u, req[c].object>>[1] = u
          OBVIOUS
        <5> QED BY <5>1, FirstsOfUnion
      <4> QED BY <2>1, <3>1, <3>2, <4>1
    <3>4. \A x \in objects[q] : x[1] # u
      BY <2>1, <3>2
    <3>5. \A x, y \in objects'[q] : x[1] = y[1] => x = y
      <4>1. \A x, y \in objects[q] : x[1] = y[1] => x = y
        BY <1>0 DEF RowOK
      <4>2. <<u, req[c].object>>[1] = u
        OBVIOUS
      <4> QED BY <3>1, <3>4, <4>1, <4>2
    <3> QED BY <2>1, <3>1, <3>3, <3>5 DEF RowOK
  <2> QED BY <2>3, <2>4
<1>4. ASSUME NEW c \in Clients, stopCommit(c) PROVE RowOK(row'[q], objects'[q])
  <2>1. /\ req[c].poll \in Polls
        /\ row[req[c].poll].exists
    BY <1>4, TransactionPoll DEF IInv, stopCommit, At, SnapshotIsCurrent, TransactionOK
  <2>2. /\ objects' = objects
        /\ row'[q].user_ids = row[q].user_ids
        /\ row'[q] = row[q] \/ row'[q].exists
    BY <1>4, <1>t, <2>1 DEF stopCommit, Row
  <2> QED BY <1>0, <2>2 DEF RowOK
<1>5. ASSUME NEW c \in Clients, Clear(c) PROVE RowOK(row'[q], objects'[q])
  <2>1. \/ row'[q] = row[q] /\ objects'[q] = objects[q]
        \/ row'[q] = NoRow /\ objects'[q] = {}
    BY <1>5, <1>t DEF Clear
  <2> QED BY <1>0, <2>1, EmptyRowOK
<1>6. ASSUME NEW c \in Clients, ClearAllDrop(c) PROVE RowOK(row'[q], objects'[q])
  <2>1. row'[q] = NoRow /\ objects'[q] = {}
    BY <1>6 DEF ClearAllDrop
  <2> QED BY <2>1, EmptyRowOK
<1>7. ASSUME NEW c \in Clients, ClearAllMigrate(c) PROVE UNCHANGED <<row, objects>>
  BY <1>7 DEF ClearAllMigrate
<1>8. ASSUME Migrate PROVE UNCHANGED <<row, objects>>
  BY <1>8 DEF Migrate
<1>9. ASSUME UNCHANGED vars PROVE UNCHANGED <<row, objects>>
  BY <1>9 DEF vars
<1> QED
  BY <1>1, <1>2, <1>3, <1>4, <1>5, <1>6, <1>7, <1>8, <1>9, TablesUnchanged DEF Next, Step
-----------------------------------------------------------------------------
\* A transaction of d survives a step that leaves its call and its row alone
\* and gives no lock on that row to another call.
LEMMA UndisturbedTransaction ==
  ASSUME NEW d \in Clients,
         TransactionOK(d), pc'[d] = pc[d], req'[d] = req[d], snap'[d] = snap[d],
         schema' = schema, stale'[d] = stale[d],
         ~stale[d] => row'[req[d].poll] = row[req[d].poll]
                        /\ objects'[req[d].poll] = objects[req[d].poll],
         pc[d] = "locked" => \A e \in Clients :
                               Locks(e, req[d].poll)' => Locks(e, req[d].poll)
  PROVE  TransactionOK(d)'
  BY DEF TransactionOK

\* A commit on poll p by c: the other transactions on p become stale, and had
\* not locked the row.
LEMMA CommitDisturbs ==
  ASSUME IInv, NEW c \in Clients, NEW p \in Polls, CommitRow(c, p),
         NEW d \in Clients, d # c, pc[d] \in {"update", "locked"},
         pc' = [pc EXCEPT ![c] = "return"], UNCHANGED <<schema, req>>,
         req[d].poll = p => pc[d] = "update",
         \A q \in Polls : q # p => row'[q] = row[q] /\ objects'[q] = objects[q]
  PROVE  TransactionOK(d)'
<1>1. TransactionOK(d) /\ req[d].poll \in Polls
  BY TransactionPoll DEF IInv, SnapshotIsCurrent
<1>2. pc'[d] = pc[d] /\ snap'[d] = snap[d] /\ pc \in [Clients -> {"idle", "begin", "update", "locked", "migrate", "return"}]
  BY DEF CommitRow, IInv, TypeOK
<1>3. stale'[d] <=> (stale[d] \/ InTransaction(d, p))
  BY DEF CommitRow
<1>4. CASE req[d].poll = p
  <2>1. stale'[d] /\ pc'[d] = "update"
    BY <1>2, <1>3, <1>4 DEF InTransaction
  <2> QED BY <1>1, <2>1 DEF TransactionOK
<1>5. CASE req[d].poll # p
  <2>1. stale'[d] = stale[d]
    BY <1>3, <1>5, Zenon DEF InTransaction, CommitRow, IInv, TypeOK
  <2>2. \A e \in Clients : Locks(e, req[d].poll)' => Locks(e, req[d].poll)
    BY <1>2 DEF Locks
  <2> QED BY <1>1, <1>2, <1>5, <2>1, <2>2, UndisturbedTransaction
<1> QED
  BY <1>4, <1>5

\* Every step keeps the snapshots of the open transactions current or marks
\* them as stale.
LEMMA SnapshotStep == IInv /\ [Next]_vars => SnapshotIsCurrent'
<1> SUFFICES ASSUME IInv, [Next]_vars,
                    NEW d \in Clients, pc'[d] \in {"update", "locked"}
             PROVE  TransactionOK(d)'
  BY DEF SnapshotIsCurrent
<1> DEFINE Labels == {"idle", "begin", "update", "locked", "migrate", "return"}
<1>t. /\ pc \in [Clients -> Labels]
      /\ DOMAIN req = Clients /\ DOMAIN snap = Clients /\ DOMAIN stale = Clients
      /\ row \in [Polls -> Row] /\ DOMAIN objects = Polls
  BY DEF IInv, TypeOK
<1>0. ASSUME pc[d] \in {"update", "locked"} PROVE TransactionOK(d) /\ req[d].poll \in Polls
  BY <1>0, TransactionPoll DEF IInv, SnapshotIsCurrent
\* A step of c that leaves the tables alone and locks nothing.
<1>1. ASSUME NEW c \in Clients, d # c, UNCHANGED <<schema, row, objects>>,
             NEW label \in Labels \ {"locked"}, pc' = [pc EXCEPT ![c] = label],
             req'[d] = req[d] /\ snap'[d] = snap[d] /\ stale'[d] = stale[d],
             \A e \in Clients : e # c => req'[e] = req[e]
      PROVE  TransactionOK(d)'
  <2>1. pc'[d] = pc[d] /\ TransactionOK(d)
    BY <1>0, <1>1, <1>t
  <2>2. \A e \in Clients : Locks(e, req[d].poll)' => Locks(e, req[d].poll)
    BY <1>1, <1>t DEF Locks
  <2> QED BY <1>1, <2>1, <2>2, UndisturbedTransaction
<1>2. ASSUME NEW c \in Clients, Invoke(c) PROVE TransactionOK(d)'
  <2>1. PICK r \in RequestsOf(c) : req' = [req EXCEPT ![c] = r]
    BY <1>2 DEF Invoke
  <2>2. d # c
    BY <1>2, <1>t DEF Invoke
  <2>3. /\ UNCHANGED <<schema, row, objects, snap, stale>>
        /\ pc' = [pc EXCEPT ![c] = "begin"]
    BY <1>2 DEF Invoke, tables, tx
  <2> QED BY <1>1, <1>t, <2>1, <2>2, <2>3
<1>3. ASSUME NEW c \in Clients, Finish(c) PROVE TransactionOK(d)'
  <2>1. /\ UNCHANGED <<schema, row, objects>>
        /\ pc' = [pc EXCEPT ![c] = "idle"]
        /\ req' = [req EXCEPT ![c] = NoRequest]
        /\ snap' = [snap EXCEPT ![c] = NoSnapshot]
        /\ stale' = [stale EXCEPT ![c] = FALSE]
    BY <1>3 DEF Finish, tables
  <2>2. d # c
    BY <1>t, <2>1
  <2>3. req'[d] = req[d] /\ snap'[d] = snap[d] /\ stale'[d] = stale[d]
    BY <1>t, <2>1, <2>2, Zenon
  <2> QED BY <1>1, <1>t, <2>1, <2>2, <2>3
<1>4. ASSUME NEW c \in Clients, NEW a, Reply(c, a), UNCHANGED <<tables, tx>> PROVE TransactionOK(d)'
  <2>1. /\ UNCHANGED <<schema, row, objects, req, snap, stale>>
        /\ pc' = [pc EXCEPT ![c] = "return"]
    BY <1>4 DEF Reply, tables, tx
  <2>2. d # c
    BY <1>t, <2>1
  <2> QED BY <1>1, <2>1, <2>2
<1>5. ASSUME NEW c \in Clients, TakeSnapshot(c), schema,
             req[c].op \in {"vote", "stop"}, req[c].poll \in Polls,
             row[req[c].poll].exists,
             req[c].op = "vote" =>
               /\ ~row[req[c].poll].stopped
               /\ ~contains(userIDListFromBytes(row[req[c].poll].user_ids), req[c].user)
      PROVE  TransactionOK(d)'
  <2>1. /\ UNCHANGED <<schema, row, objects, req, stale>>
        /\ pc' = [pc EXCEPT ![c] = "update"]
        /\ snap' = [snap EXCEPT ![c] = [row     |-> row[req[c].poll],
                                        objects |-> objects[req[c].poll]]]
    BY <1>5 DEF TakeSnapshot, tables
  <2>2. CASE d # c
    <3>1. snap'[d] = snap[d]
      BY <1>t, <2>1, <2>2
    <3> QED BY <1>1, <2>1, <2>2, <3>1
  <2>3. CASE d = c
    <3>1. /\ snap'[d] = [row |-> row'[req'[d].poll], objects |-> objects'[req'[d].poll]]
          /\ pc'[d] = "update"
      BY <1>t, <2>1, <2>3
    <3> QED BY <1>5, <2>1, <2>3, <3>1 DEF TransactionOK
  <2> QED BY <2>2, <2>3
<1>6. ASSUME NEW c \in Clients, Start(c) PROVE TransactionOK(d)'
  <2> DEFINE p == req[c].poll
  <2>1. /\ UNCHANGED <<schema, objects, req, snap, stale>>
        /\ pc' = [pc EXCEPT ![c] = "return"]
        /\ row' = [row EXCEPT ![p] = IF @.exists THEN @ ELSE NewRow]
    BY <1>6 DEF Start, Reply, tx
  <2>2. d # c /\ pc'[d] = pc[d]
    BY <1>t, <2>1
  <2>3. TransactionOK(d) /\ req[d].poll \in Polls
    BY <1>0, <2>2
  <2>4. ~stale[d] => row'[req[d].poll] = row[req[d].poll]
    BY <1>t, <2>1, <2>3 DEF TransactionOK
  <2>5. \A e \in Clients : Locks(e, req[d].poll)' => Locks(e, req[d].poll)
    BY <1>t, <2>1 DEF Locks
  <2> QED BY <2>1, <2>2, <2>3, <2>4, <2>5, UndisturbedTransaction
<1>7. ASSUME NEW c \in Clients, voteSelect(c) PROVE TransactionOK(d)'
  <2>1. /\ schema /\ req[c].op = "vote" /\ req[c].poll \in Polls
    BY <1>7, RequestType DEF IInv, voteSelect, At
  <2>2. CASE \E kind \in Kind : Reply(c, Answer(kind)) /\ UNCHANGED <<tables, tx>>
    BY <1>4, <2>2
  <2>3. CASE /\ TakeSnapshot(c)
             /\ row[req[c].poll].exists /\ ~row[req[c].poll].stopped
             /\ ~contains(userIDListFromBytes(row[req[c].poll].user_ids), req[c].user)
    BY <1>5, <2>1, <2>3
  <2> QED BY <1>7, <2>2, <2>3 DEF voteSelect, Kind
<1>8. ASSUME NEW c \in Clients, stopSelect(c) PROVE TransactionOK(d)'
  <2>1. /\ schema /\ req[c].op = "stop" /\ req[c].poll \in Polls
    BY <1>8, RequestType DEF IInv, stopSelect, At
  <2>2. CASE Reply(c, Answer("notExist")) /\ UNCHANGED <<tables, tx>>
    BY <1>4, <2>2
  <2>3. CASE TakeSnapshot(c) /\ row[req[c].poll].exists
    BY <1>5, <2>1, <2>3
  <2> QED BY <1>8, <2>2, <2>3 DEF stopSelect
<1>9. ASSUME NEW c \in Clients, Update(c) PROVE TransactionOK(d)'
  <2> DEFINE p == req[c].poll
  <2>1. /\ UNCHANGED <<schema, row, objects, req>>
        /\ pc[c] = "update" /\ ~Locked(p)
    BY <1>9 DEF Update, tables
  <2>2. TransactionOK(c)
    BY <2>1 DEF IInv, SnapshotIsCurrent
  <2>3. CASE /\ ~stale[c]
             /\ pc' = [pc EXCEPT ![c] = "locked"]
             /\ UNCHANGED <<snap, stale>>
    <3>1. \A e \in Clients : Locks(e, p)' => e = c
      BY <1>t, <2>1, <2>3 DEF Locks, Locked
    <3>2. CASE d = c
      BY <1>t, <2>1, <2>2, <2>3, <3>1, <3>2 DEF TransactionOK
    <3>3. CASE d # c
      <4>1. pc'[d] = pc[d] /\ TransactionOK(d)
        BY <1>0, <1>t, <2>3, <3>3
      <4>2. ASSUME pc[d] = "locked", NEW e \in Clients, Locks(e, req[d].poll)'
            PROVE  Locks(e, req[d].poll)
        <5>1. req[d].poll # p
          BY <2>1, <4>2 DEF Locked, Locks
        <5> QED BY <1>t, <2>1, <2>3, <4>2, <5>1 DEF Locks
      <4> QED BY <2>1, <2>3, <4>1, <4>2, UndisturbedTransaction
    <3> QED BY <3>2, <3>3
  <2>4. CASE /\ pc' = [pc EXCEPT ![c] = "begin"]
             /\ snap' = [snap EXCEPT ![c] = NoSnapshot]
             /\ stale' = [stale EXCEPT ![c] = FALSE]
    <3>1. d # c
      BY <1>t, <2>4
    <3>2. snap'[d] = snap[d] /\ stale'[d] = stale[d]
      BY <1>t, <2>4, <3>1, Zenon
    <3> QED BY <1>1, <2>1, <2>4, <3>1, <3>2
  <2> QED BY <1>9, <2>3, <2>4 DEF Update, tx
\* A commit that finds the row of p locked by nobody else.
<1>10. ASSUME NEW c \in Clients, NEW p \in Polls, CommitRow(c, p),
              pc' = [pc EXCEPT ![c] = "return"], UNCHANGED <<schema, req>>,
              \A e \in Clients : Locks(e, p) => e = c,
              \A q \in Polls : q # p => row'[q] = row[q] /\ objects'[q] = objects[q]
       PROVE  TransactionOK(d)'
  <2>1. d # c
    BY <1>10, <1>t
  <2>2. pc[d] \in {"update", "locked"}
    BY <1>10, <1>t, <2>1
  <2>3. req[d].poll = p => pc[d] = "update"
    BY <1>10, <2>1, <2>2 DEF Locks
  <2> QED BY <1>10, <2>1, <2>2, <2>3, CommitDisturbs
<1>11. ASSUME NEW c \in Clients, voteCommit(c) \/ stopCommit(c) PROVE TransactionOK(d)'
  <2> DEFINE p == req[c].poll
  <2>1. pc[c] = "locked" /\ p \in Polls
    BY <1>11, TransactionPoll DEF IInv, voteCommit, stopCommit, At
  <2>2. \A e \in Clients : Locks(e, p) => e = c
    BY <2>1 DEF IInv, SnapshotIsCurrent, TransactionOK
  <2>3. /\ CommitRow(c, p) /\ pc' = [pc EXCEPT ![c] = "return"]
        /\ UNCHANGED <<schema, req>>
    BY <1>11 DEF voteCommit, stopCommit, Reply
  <2>4. \A q \in Polls : q # p => row'[q] = row[q] /\ objects'[q] = objects[q]
    <3>1. CASE voteCommit(c)
      <4> DEFINE new == toBytes(add(userIDListFromBytes(snap[c].row.user_ids), req[c].user))
      <4>1. row' = [row EXCEPT ![p].user_ids = new]
        BY <3>1 DEF voteCommit
      <4>2. objects' = [objects EXCEPT ![p] = @ \cup {<<req[c].user, req[c].object>>}]
        BY <3>1 DEF voteCommit
      <4> HIDE DEF new, p
      <4> QED BY <1>t, <4>1, <4>2
    <3>2. CASE stopCommit(c)
      BY <1>t, <3>2 DEF stopCommit
    <3> QED BY <1>11, <3>1, <3>2
  <2> QED BY <1>10, <2>1, <2>2, <2>3, <2>4
<1>12. ASSUME NEW c \in Clients, Clear(c) PROVE TransactionOK(d)'
  <2> DEFINE p == req[c].poll
  <2>1. p \in Polls /\ ~Locked(p)
    BY <1>12, RequestType DEF IInv, Clear, At
  <2>2. /\ CommitRow(c, p) /\ pc' = [pc EXCEPT ![c] = "return"]
        /\ UNCHANGED <<schema, req>>
    BY <1>12 DEF Clear, Reply
  <2>3. \A q \in Polls : q # p => row'[q] = row[q] /\ objects'[q] = objects[q]
    BY <1>12, <1>t DEF Clear
  <2> QED BY <1>10, <2>1, <2>2, <2>3 DEF Locked
<1>13. ASSUME NEW c \in Clients, ClearAllDrop(c) PROVE FALSE
  <2>1. pc[d] \notin {"update", "locked"} /\ pc' = [pc EXCEPT ![c] = "migrate"]
    BY <1>13 DEF ClearAllDrop
  <2> QED BY <1>t, <2>1
<1>14. ASSUME NEW c \in Clients, ClearAllMigrate(c) PROVE TransactionOK(d)'
  <2>1. /\ UNCHANGED <<row, objects, req, snap, stale>> /\ schema'
        /\ pc' = [pc EXCEPT ![c] = "return"]
    BY <1>14 DEF ClearAllMigrate, Reply, tx
  <2>2. d # c /\ pc'[d] = pc[d]
    BY <1>t, <2>1
  <2>3. schema' = schema
    BY <1>0, <1>14, <2>2 DEF TransactionOK, IInv, TypeOK, ClearAllMigrate
  <2> QED BY <1>1, <2>1, <2>2, <2>3
<1>15. ASSUME Migrate PROVE FALSE
  BY <1>0, <1>15 DEF Migrate, TransactionOK
<1>16. ASSUME NEW c \in Clients, LoopExit(c) PROVE TransactionOK(d)'
  BY <1>3, <1>4, <1>16 DEF LoopExit
<1>17. CASE UNCHANGED vars
  BY <1>0, <1>17 DEF TransactionOK, Locks, vars
<1> QED
  BY <1>2, <1>3, <1>6, <1>7, <1>8, <1>9, <1>11, <1>12, <1>13, <1>14, <1>15, <1>16, <1>17
     DEF Next, Step, UndefinedTable, Return, Fail
-----------------------------------------------------------------------------
\* The invariant holds in every reachable state.
LEMMA Invariance == Spec => []IInv
<1>1. IInv /\ [Next]_vars => IInv'
  BY TypeStep, RowsStep, SnapshotStep DEF IInv
<1> QED
  BY <1>1, InitIInv, PTL DEF Spec

\* The values of the tables, the calls and the transactions keep their types;
\* in particular what Vote writes to user_ids is a list of bytes.
THEOREM TypeCorrect == Spec => []TypeOK
<1>1. IInv => TypeOK
  BY DEF IInv
<1> QED
  BY <1>1, Invariance, PTL

\* The list of the users that have voted and the stored votes always agree:
\* concurrent votes neither lose nor double an entry of either.
THEOREM RowsStayConsistent == Spec => []RowsConsistent
<1>1. IInv => RowsConsistent
  BY DEF IInv
<1> QED
  BY <1>1, Invariance, PTL

\* What a transaction of Vote or Stop has checked on its snapshot still holds
\* when it commits, and two transactions never hold the lock of a row.
THEOREM ChecksHoldAtCommit == Spec => []SnapshotIsCurrent
<1>1. IInv => SnapshotIsCurrent
  BY DEF IInv
<1> QED
  BY <1>1, Invariance, PTL

\* No step adds a vote to a stopped poll or reopens it.
LEMMA StoppedStep ==
  IInv /\ [Next]_vars =>
    [\A p \in Polls : row[p].stopped =>
       \/ row'[p] = row[p] /\ objects'[p] = objects[p]
       \/ ~row'[p].exists]_vars
<1> SUFFICES ASSUME IInv, Next, NEW q \in Polls, row[q].stopped
             PROVE  \/ row'[q] = row[q] /\ objects'[q] = objects[q]
                    \/ ~row'[q].exists
  OBVIOUS
<1>t. row \in [Polls -> Row] /\ DOMAIN objects = Polls
  BY DEF IInv, TypeOK
<1>1. row[q].exists
  BY DEF IInv, RowsConsistent, NoRow
<1>2. ASSUME NEW c \in Clients, Start(c) PROVE row'[q] = row[q] /\ objects'[q] = objects[q]
  BY <1>1, <1>2, <1>t DEF Start
<1>3. ASSUME NEW c \in Clients, voteCommit(c) PROVE row'[q] = row[q] /\ objects'[q] = objects[q]
  <2> DEFINE p == req[c].poll
             new == toBytes(add(userIDListFromBytes(snap[c].row.user_ids), req[c].user))
  <2>1. ~row[p].stopped
    BY <1>3, WrittenList DEF voteCommit
  <2>2. /\ row' = [row EXCEPT ![p].user_ids = new]
        /\ objects' = [objects EXCEPT ![p] = @ \cup {<<req[c].user, req[c].object>>}]
    BY <1>3 DEF voteCommit
  <2> HIDE DEF new, p
  <2> QED BY <1>t, <2>1, <2>2
<1>4. ASSUME NEW c \in Clients, stopCommit(c) PROVE row'[q] = row[q] /\ objects'[q] = objects[q]
  <2>1. objects' = objects /\ row' = [row EXCEPT ![req[c].poll].stopped = TRUE]
    BY <1>4 DEF stopCommit
  <2>2. row[q].stopped = TRUE
    BY <1>t DEF Row
  <2> QED BY <1>t, <2>1, <2>2 DEF Row
<1>5. ASSUME NEW c \in Clients, Clear(c)
      PROVE  (row'[q] = row[q] /\ objects'[q] = objects[q]) \/ ~row'[q].exists
  BY <1>5, <1>t DEF Clear, NoRow
<1>6. ASSUME NEW c \in Clients, ClearAllDrop(c) PROVE ~row'[q].exists
  BY <1>6 DEF ClearAllDrop, NoRow
<1>7. ASSUME Migrate \/ \E c \in Clients : ClearAllMigrate(c) PROVE UNCHANGED <<row, objects>>
  BY <1>7 DEF Migrate, ClearAllMigrate
<1> QED
  BY <1>2, <1>3, <1>4, <1>5, <1>6, <1>7, TablesUnchanged DEF Next, Step

\* A stopped poll gets no more votes, whatever the overlap of Vote, Stop and
\* Start, until it is cleared.
THEOREM StoppedStaysFinal == Spec => StoppedIsFinal
  BY StoppedStep, Invariance, PTL DEF Spec, StoppedIsFinal
=============================================================================
