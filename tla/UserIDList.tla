----------------------------- MODULE UserIDList -----------------------------
(***************************************************************************)
(* The column user_ids of the postgres backend (backend/postgres): the     *)
(* users that have voted, as a sorted list of int32 that is stored as its  *)
(* little-endian bytes.  Indexes start at 1 here and at 0 in the code.     *)
(***************************************************************************)
EXTENDS Integers, Sequences, Functions

Int32 == {x \in Nat : 0 < x /\ x <= 2147483647}  \* the int32 values that can be an id
Byte == 0 .. 255

\* sort.Search: the first index whose element is not less than u.
Search(s, u) ==
  CHOOSE i \in 1..(Len(s) + 1) :
    /\ i <= Len(s) => s[i] >= u
    /\ \A j \in 1..(i - 1) : s[j] < u

contains(s, u) == LET i == Search(s, u) IN i <= Len(s) /\ s[i] = u

\* Mutant: append without the sorted position.
addLast(s, u) == Append(s, u)

\* The branch of add that inserts; the other one answers doubleVote.
add(s, u) ==
  LET i == Search(s, u) IN SubSeq(s, 1, i - 1) \o <<u>> \o SubSeq(s, i, Len(s))

\* The bytes of x, lowest first.
LittleEndian(x) ==
  <<x % 256, (x \div 256) % 256, (x \div 65536) % 256, (x \div 16777216) % 256>>

toBytes(s) ==
  [i \in 1..(4 * Len(s)) |-> LittleEndian(s[1 + ((i - 1) \div 4)])[1 + ((i - 1) % 4)]]

int32At(raw, i) ==
  raw[i] + 256 * raw[i + 1] + 65536 * raw[i + 2] + 16777216 * raw[i + 3]

userIDListFromBytes(raw) == [i \in 1..(Len(raw) \div 4) |-> int32At(raw, 4*i - 3)]

StrictlySorted(s) == \A i, j \in 1..Len(s) : i < j => s[i] < s[j]
=============================================================================
