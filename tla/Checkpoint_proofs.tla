-------------------------- MODULE Checkpoint_proofs --------------------------
(***************************************************************************)
(* The weights from the headers to the parameters, for every checkpoint:   *)
(* any number of tensors and shards, headers and an index that agree or    *)
(* contradict one another, any names of which the assumptions of           *)
(* Checkpoint hold.                                                        *)
(*                                                                         *)
(* The invariant CheckpointInv has a part for each program: ListInv (the   *)
(* loop of inspection over the shards), TablesInv (what the two tables on  *)
(* disk hold), LoadInv (the parameters that the server has filled),        *)
(* PlanInv (what a benchmark has read of its plan) and PackedRangesHold    *)
(* (what a packed file holds); KindInv keeps the types of the loops.       *)
(*                                                                         *)
(* The model's recursive functions (of Merged and Concat) are defined on   *)
(* 0..n: RunsFrom says what n steps come to, and UpToAll that a fact which *)
(* each step preserves holds of all n.                                     *)
(***************************************************************************)
EXTENDS Checkpoint, FiniteSetTheorems, SequenceTheorems, WellFoundedInduction, TLAPS

\* The shards that the index names.
Shards == {Input.index[n] : n \in DOMAIN Input.index}

\* After the headers of the shards in S: each agrees with the index, and the rows are
\* those of their tensors.
Listing(S, rows) ==
    /\ \A s \in S : Indexed(s)
    /\ rows = UNION {{Row(s, n) : n \in DOMAIN Input.header[s]} : s \in S}

\* The loop over the shards: what is no longer left has been listed.
ListInv ==
    /\ given \in DOMAIN Checkpoints
    /\ {"at", "left", "rows", "next", "got", "offset"} \subseteq DOMAIN tool
    /\ tool.at = "headers" => tool.left \subseteq Shards /\ Listing(Shards \ tool.left, tool.rows)
    /\ AcceptedIsIndex

-----------------------------------------------------------------------------
(* Counting *)

\* Rows of the tensors that the index maps to the shard they are in, as many as the
\* index has names: no name is without its row.
LEMMA CountedRows ==
    ASSUME given \in DOMAIN Checkpoints,
           NEW rows, Listing(Shards, rows),
           Cardinality(rows) = Cardinality(DOMAIN Input.index)
    PROVE  /\ \A n \in DOMAIN Input.index : n \in DOMAIN Input.header[Input.index[n]]
           /\ rows = {Row(Input.index[n], n) : n \in DOMAIN Input.index}
<1> DEFINE Here == {n \in DOMAIN Input.index : n \in DOMAIN Input.header[Input.index[n]]}
           row == [n \in Here |-> Row(Input.index[n], n)]
<1>1. IsFiniteSet(DOMAIN Input.index)
    BY CheckpointAssumption DEF Input
<1>2. Here \subseteq DOMAIN Input.index
    OBVIOUS
<1>3. IsFiniteSet(Here) /\ Cardinality(Here) <= Cardinality(DOMAIN Input.index)
    BY <1>1, <1>2, FS_Subset
<1>4. rows = {Row(Input.index[n], n) : n \in Here}
  <2>1. ASSUME NEW x \in rows PROVE x \in {Row(Input.index[n], n) : n \in Here}
    <3>1. PICK s \in Shards : x \in {Row(s, n) : n \in DOMAIN Input.header[s]}
        BY <2>1 DEF Listing
    <3>2. PICK n \in DOMAIN Input.header[s] : x = Row(s, n)
        BY <3>1
    <3>3. n \in DOMAIN Input.index /\ Input.index[n] = s
        BY <3>1 DEF Listing, Indexed
    <3>4. QED
        BY <3>2, <3>3
  <2>2. ASSUME NEW n \in Here PROVE Row(Input.index[n], n) \in rows
    <3>1. Input.index[n] \in Shards
        BY DEF Shards
    <3>2. QED
        BY <3>1 DEF Listing
  <2>3. QED
    BY <2>1, <2>2
<1>5. row \in Bijection(Here, rows)
  <2>1. row \in [Here -> rows] /\ \A x \in rows : \E n \in Here : row[n] = x
    BY <1>4
  <2>2. \A n, m \in Here : row[n] = row[m] => n = m
    BY DEF Row
  <2>3. QED
    BY <2>1, <2>2 DEF Bijection, Injection, Surjection, IsInjective
<1>6. Cardinality(Here) = Cardinality(rows)
  <2>1. ExistsBijection(Here, rows)
      BY <1>5 DEF ExistsBijection
  <2>2. QED
      BY <1>3, <2>1, FS_Bijection
<1>7. Here = DOMAIN Input.index
    BY <1>1, <1>2, <1>3, <1>6, FS_Subset
<1>8. QED
    BY <1>4, <1>7

-----------------------------------------------------------------------------
(* The steps *)

LEMMA ListingStarts == CheckpointInit => ListInv
BY DEF CheckpointInit, ListInv, NoTool, AcceptedIsIndex

\* Inspect: nothing has been read, all shards are left.
LEMMA InspectLists == ASSUME ListInv, Inspect PROVE ListInv'
<1>1. /\ given' = given /\ tool'.at = "headers"
      /\ tool'.left = Shards /\ tool'.rows = {}
      /\ {"at", "left", "rows", "next", "got", "offset"} \subseteq DOMAIN tool'
    BY DEF Inspect, NoTool, Shards
<1>2. Listing(Shards \ tool'.left, tool'.rows)
    BY <1>1 DEF Listing
<1>3. Input' = Input /\ Shards' = Shards
    BY <1>1 DEF Input, Shards
<1>4. Listing(Shards \ tool.left, tool.rows)'
    BY <1>1, <1>2, <1>3 DEF Listing, Indexed, Row
<1>5. QED
    BY <1>1, <1>3, <1>4 DEF ListInv, AcceptedIsIndex

\* ReadHeader: one shard more has been listed, or the program has raised.
LEMMA ReadHeaderLists == ASSUME ListInv, ReadHeader PROVE ListInv'
<1>1. given' = given /\ Input' = Input /\ Shards' = Shards
    BY DEF ReadHeader, Input, Shards
<1>2. PICK s \in tool.left :
         tool' = IF Indexed(s)
                 THEN [tool EXCEPT !.left = @ \ {s},
                          !.rows = @ \cup {Row(s, n) : n \in DOMAIN Input.header[s]}]
                 ELSE NoTool
    BY DEF ReadHeader
<1>3. tool.at = "headers" /\ tool.left \subseteq Shards /\ Listing(Shards \ tool.left, tool.rows)
    BY DEF ReadHeader, ListInv
<1>4. CASE Indexed(s)
  <2>1. /\ tool'.at = "headers" /\ tool'.left = tool.left \ {s}
        /\ tool'.rows = tool.rows \cup {Row(s, n) : n \in DOMAIN Input.header[s]}
        /\ {"at", "left", "rows", "next", "got", "offset"} \subseteq DOMAIN tool'
      BY <1>2, <1>3, <1>4 DEF ListInv
  <2>2. Shards \ tool'.left = (Shards \ tool.left) \cup {s} /\ tool'.left \subseteq Shards
      BY <1>3, <2>1
  <2>3. \A t \in Shards \ tool'.left : Indexed(t)
      BY <1>3, <1>4, <2>2 DEF Listing
  <2>4. tool'.rows = UNION {{Row(t, n) : n \in DOMAIN Input.header[t]} : t \in Shards \ tool'.left}
      BY <1>3, <2>1, <2>2 DEF Listing
  <2>5. Listing(Shards \ tool.left, tool.rows)'
      BY <1>1, <2>3, <2>4 DEF Listing, Indexed, Row
  <2>6. QED
      BY <1>1, <2>1, <2>2, <2>5 DEF ListInv, AcceptedIsIndex
<1>5. CASE ~Indexed(s)
    BY <1>1, <1>2, <1>5 DEF ListInv, NoTool, AcceptedIsIndex
<1>6. QED
    BY <1>4, <1>5

\* Accept: the counts are equal, so the rows are the index.
LEMMA AcceptLists == ASSUME ListInv, Accept PROVE ListInv'
<1>1. given' = given /\ Input' = Input /\ Shards' = Shards
    BY DEF Accept, Input, Shards
<1>2. tool.at = "headers" /\ tool.left = {} /\ Listing(Shards, tool.rows)
  <2>1. tool.at = "headers" /\ tool.left = {}
      BY DEF Accept
  <2>2. Shards \ tool.left = Shards
      BY <2>1
  <2>3. QED
      BY <2>1, <2>2 DEF ListInv
<1>3. CASE Cardinality(tool.rows) = Cardinality(DOMAIN Input.index)
  <2>1. /\ tool'.at = "csv" /\ tool'.rows = tool.rows
        /\ {"at", "left", "rows", "next", "got", "offset"} \subseteq DOMAIN tool'
      BY <1>3 DEF Accept, ListInv
  <2>2. /\ \A n \in DOMAIN Input.index : n \in DOMAIN Input.header[Input.index[n]]
        /\ tool.rows = {Row(Input.index[n], n) : n \in DOMAIN Input.index}
      BY <1>2, <1>3, CountedRows DEF ListInv
  <2>3. AcceptedIsIndex'
      BY <1>1, <2>1, <2>2 DEF AcceptedIsIndex, Row
  <2>4. QED
      BY <1>1, <2>1, <2>3 DEF ListInv
<1>4. CASE Cardinality(tool.rows) # Cardinality(DOMAIN Input.index)
    BY <1>1, <1>4 DEF Accept, ListInv, NoTool, AcceptedIsIndex
<1>5. QED
    BY <1>3, <1>4

\* Every other step leaves the inspection's state alone, or ends it.
LEMMA OthersList ==
    ASSUME ListInv, given' = given, tool' = tool \/ tool'.at \notin {"headers", "csv"},
           {"at", "left", "rows", "next", "got", "offset"} \subseteq DOMAIN tool'
    PROVE  ListInv'
<1>1. Input' = Input /\ Shards' = Shards
    BY DEF Input, Shards
<1>2. CASE tool' = tool
    BY <1>1, <1>2 DEF ListInv, AcceptedIsIndex, Listing, Indexed, Row
<1>3. CASE tool'.at \notin {"headers", "csv"}
    BY <1>3 DEF ListInv, AcceptedIsIndex
<1>4. QED
    BY <1>2, <1>3

\* The steps of the other programs.
LEMMA OtherPrograms ==
    ASSUME ListInv, WriteCsv \/ BuildManifest \/ Loading \/ Benchmarks
    PROVE  /\ given' = given
           /\ tool' = tool \/ tool'.at \notin {"headers", "csv"}
           /\ {"at", "left", "rows", "next", "got", "offset"} \subseteq DOMAIN tool'
<1> DEFINE Kept ==
        /\ given' = given
        /\ tool' = tool \/ tool'.at \notin {"headers", "csv"}
        /\ {"at", "left", "rows", "next", "got", "offset"} \subseteq DOMAIN tool'
<1>1. CASE WriteCsv \/ BuildManifest
  <2>1. CASE WriteCsv
      BY <2>1 DEF WriteCsv, NoTool
  <2>2. CASE BuildManifest
      BY <2>2 DEF BuildManifest, ListInv
  <2>3. QED
      BY <1>1, <2>1, <2>2
<1>2. CASE Load \/ Unload
  <2>1. CASE Load
    <3>1. tool' = [NoTool EXCEPT !.at = "load", !.next = 1] /\ given' = given
        BY <2>1 DEF Load
    <3>2. QED
        BY <3>1 DEF NoTool
  <2>2. CASE Unload
    <3>1. tool' = NoTool /\ given' = given
        BY <2>2 DEF Unload
    <3>2. QED
        BY <3>1 DEF NoTool
  <2>3. QED
      BY <1>2, <2>1, <2>2
<1>3. CASE SkipParam \/ CopyParam
    BY <1>3 DEF SkipParam, CopyParam, LoadedNext, ListInv
<1>4. CASE LoadRaises
    BY <1>4 DEF LoadRaises, NoTool
<1>5. ASSUME NEW layer, NEW experts, NEW gap, PlanReads(layer, experts, gap) PROVE Kept
    BY <1>5 DEF PlanReads, NoTool
<1>6. CASE ReadChunk
  <2>1. tool.at = "read" /\ given' = given
      BY <1>6 DEF ReadChunk
  <2>2. tool' = NoTool \/ \E n : ReadOn(n)
      BY <1>6 DEF ReadChunk
  <2>3. ASSUME NEW n, ReadOn(n) PROVE Kept
    <3>1. \E got, next, offset :
             tool' = [tool EXCEPT !.got = got, !.next = next, !.offset = offset]
        BY <2>3 DEF ReadOn
    <3>2. PICK got, next, offset :
             tool' = [tool EXCEPT !.got = got, !.next = next, !.offset = offset]
        BY <3>1
    <3>3. tool'.at = "read" /\ DOMAIN tool' = DOMAIN tool
        BY <2>1, <3>2 DEF ListInv
    <3>4. QED
        BY <2>1, <3>3 DEF ListInv
  <2>4. CASE tool' = NoTool
      BY <2>1, <2>4 DEF NoTool
  <2>5. QED
      BY <2>2, <2>3, <2>4
<1>7. CASE EndReads \/ EndPacked
    BY <1>7 DEF EndReads, EndPacked, NoTool
<1>8. ASSUME NEW layer, NEW experts, PackExperts(layer, experts) PROVE Kept
    BY <1>8 DEF PackExperts, NoTool
<1>9. QED
    BY <1>1, <1>2, <1>3, <1>4, <1>5, <1>6, <1>7, <1>8 DEF Loading, Benchmarks

LEMMA ListNext ==
    ASSUME ListInv, [CheckpointNext]_checkpointVars
    PROVE  ListInv'
<1>1. CASE Inspect
    BY <1>1, InspectLists
<1>2. CASE ReadHeader
    BY <1>2, ReadHeaderLists
<1>3. CASE Accept
    BY <1>3, AcceptLists
<1>4. CASE WriteCsv \/ BuildManifest \/ Loading \/ Benchmarks
    BY <1>4, OtherPrograms, OthersList
<1>5. CASE UNCHANGED checkpointVars
  <2>1. given' = given /\ tool' = tool
    BY <1>5 DEF checkpointVars
  <2>2. {"at", "left", "rows", "next", "got", "offset"} \subseteq DOMAIN tool'
    BY <2>1 DEF ListInv
  <2>3. QED
    BY <2>1, <2>2, OthersList
<1>6. QED
    BY <1>1, <1>2, <1>3, <1>4, <1>5 DEF CheckpointNext, Inspection

\* What inspection accepts is the index (AcceptedIsIndex), for every checkpoint.
THEOREM AcceptedIsAlwaysIndex == CheckpointSpec => []AcceptedIsIndex
<1>1. CheckpointInit => ListInv
    BY ListingStarts
<1>2. ListInv /\ [CheckpointNext]_checkpointVars => ListInv'
    BY ListNext
<1>3. ListInv => AcceptedIsIndex
    BY DEF ListInv
<1>4. QED
    BY <1>1, <1>2, <1>3, PTL DEF CheckpointSpec

-----------------------------------------------------------------------------
(* Numbers and recursion *)

\* What holds at the beginning, and of each number after one that it holds of, holds of all.
LEMMA UpToAll ==
    ASSUME NEW n \in Nat, NEW P \in SUBSET (0..n), 0 \in P,
           \A k \in 1..n : k - 1 \in P => k \in P
    PROVE  \A k \in 0..n : k \in P
<1> DEFINE R == {p \in Nat \X Nat : p[1] < p[2]}
           S == (0..n) \ P
<1>1. OpToRel(<, Nat) = R
    BY DEF OpToRel
<1>2. IsWellFoundedOn(R, Nat)
    BY <1>1, NatLessThanWellFounded
<1> SUFFICES ASSUME S # {} PROVE FALSE
    OBVIOUS
<1>3. S \in SUBSET Nat
    OBVIOUS
<1> HIDE DEF R, S
<1>4. PICK x \in S : \A y \in S : ~(<<y, x>> \in R)
    BY <1>2, <1>3, WFMin
<1>5. x \in 0..n /\ x \notin P /\ \A y \in S : ~(y < x)
    BY <1>3, <1>4 DEF R, S
<1>6. x \in 1..n /\ x - 1 \in 0..n /\ x - 1 < x
    BY <1>5
<1>7. x - 1 \in P
    BY <1>5, <1>6 DEF S
<1>8. QED
    BY <1>5, <1>6, <1>7

\* f is what n steps from a come to.
RunsFrom(f, a, step, n) == f[0] = a /\ \A k \in 1..n : f[k] = step[<<f[k - 1], k>>]

\* Steps from a value to the next can be taken in a row.
LEMMA RunExists ==
    ASSUME NEW V, NEW n \in Nat, NEW a \in V, NEW step \in [V \X (1..n) -> V]
    PROVE  \E f \in [0..n -> V] : RunsFrom(f, a, step, n)
<1> DEFINE Runs(f, m) == f[0] = a /\ \A k \in 1..m : f[k] = step[<<f[k - 1], k>>]
           P == {m \in 0..n : \E f \in [0..n -> V] : Runs(f, m)}
<1>1. 0 \in P
  <2> DEFINE f == [k \in 0..n |-> a]
  <2>1. f \in [0..n -> V] /\ 0 \in 0..n
    OBVIOUS
  <2>2. f[0] = a /\ \A k \in 1..0 : f[k] = step[<<f[k - 1], k>>]
    OBVIOUS
  <2> HIDE DEF f
  <2>3. QED
    BY <2>1, <2>2
<1>2. ASSUME NEW k \in 1..n, k - 1 \in P PROVE k \in P
  <2>1. PICK f \in [0..n -> V] : Runs(f, k - 1)
    BY <1>2
  <2> DEFINE g == [f EXCEPT ![k] = step[<<f[k - 1], k>>]]
  <2>2. k - 1 \in 0..n /\ k \in 0..n /\ k # k - 1
    OBVIOUS
  <2>3. step[<<f[k - 1], k>>] \in V
    BY <2>2
  <2>4. g \in [0..n -> V] /\ g[k] = step[<<f[k - 1], k>>] /\ \A j \in 0..n : j # k => g[j] = f[j]
    BY <2>2, <2>3
  <2> HIDE DEF g
  <2>5. g[0] = a
    BY <2>1, <2>4
  <2>6. ASSUME NEW j \in 1..k PROVE g[j] = step[<<g[j - 1], j>>]
    <3>1. j - 1 \in 0..n /\ j \in 0..n /\ j - 1 # k
        OBVIOUS
    <3>2. g[j - 1] = f[j - 1]
        BY <2>4, <3>1
    <3>3. CASE j = k
        BY <2>4, <3>2, <3>3
    <3>4. CASE j # k
      <4>1. j \in 1..(k - 1)
        BY <3>4
      <4>2. QED
        BY <2>1, <2>4, <3>1, <3>2, <3>4, <4>1
    <3>5. QED
        BY <3>3, <3>4
  <2>7. Runs(g, k)
    BY <2>5, <2>6
  <2>8. QED
    BY <2>2, <2>4, <2>7
<1>3. P \in SUBSET (0..n)
    OBVIOUS
<1> HIDE DEF P
<1>4. n \in P
    BY <1>1, <1>2, <1>3, UpToAll
<1>5. QED
    BY <1>4 DEF P, RunsFrom

-----------------------------------------------------------------------------
(* Ranks *)

\* R orders the elements of S one behind another.
Orders(R, S) ==
    /\ \A x \in S : <<x, x>> \notin R
    /\ \A x, y \in S : x # y => <<x, y>> \in R \/ <<y, x>> \in R
    /\ \A x, y, z \in S : <<x, y>> \in R /\ <<y, z>> \in R => <<x, z>> \in R

Below(R, S, x) == {y \in S : <<y, x>> \in R}

LEMMA BelowLess ==
    ASSUME NEW R, NEW S, IsFiniteSet(S), Orders(R, S), NEW x \in S, NEW y \in S, <<x, y>> \in R
    PROVE  /\ IsFiniteSet(Below(R, S, y))
           /\ Cardinality(Below(R, S, x)) \in Nat /\ Cardinality(Below(R, S, y)) \in Nat
           /\ Cardinality(Below(R, S, x)) < Cardinality(Below(R, S, y))
<1>1. Below(R, S, y) \subseteq S /\ Below(R, S, x) \subseteq Below(R, S, y)
    BY DEF Below, Orders
<1>2. x \in Below(R, S, y) /\ x \notin Below(R, S, x)
    BY DEF Below, Orders
<1>3. IsFiniteSet(Below(R, S, y))
    BY <1>1, FS_Subset
<1>4. /\ IsFiniteSet(Below(R, S, x))
      /\ Cardinality(Below(R, S, x)) <= Cardinality(Below(R, S, y))
      /\ Cardinality(Below(R, S, x)) # Cardinality(Below(R, S, y))
    BY <1>1, <1>2, <1>3, FS_Subset
<1>5. QED
    BY <1>3, <1>4, FS_CardinalityType

\* Every rank from 0 on is that of one element.
LEMMA RankOnto ==
    ASSUME NEW R, NEW S, IsFiniteSet(S), Orders(R, S)
    PROVE  /\ Cardinality(S) \in Nat
           /\ \A x \in S : Cardinality(Below(R, S, x)) \in 0..(Cardinality(S) - 1)
           /\ \A x, y \in S : <<x, y>> \in R
                 <=> Cardinality(Below(R, S, x)) < Cardinality(Below(R, S, y))
           /\ \A x, y \in S : Cardinality(Below(R, S, x)) = Cardinality(Below(R, S, y)) => x = y
           /\ \A k \in 1..Cardinality(S) : \E x \in S : Cardinality(Below(R, S, x)) = k - 1
<1> DEFINE rank(x) == Cardinality(Below(R, S, x))
           n == Cardinality(S)
<1>1. n \in Nat
    BY FS_CardinalityType
<1>2. \A x \in S : rank(x) \in 0..(n - 1)
  <2> SUFFICES ASSUME NEW x \in S PROVE rank(x) \in 0..(n - 1)
    OBVIOUS
  <2>1. Below(R, S, x) \subseteq S /\ x \in S /\ x \notin Below(R, S, x)
    BY DEF Below, Orders
  <2>2. IsFiniteSet(Below(R, S, x)) /\ rank(x) <= n /\ rank(x) # n
    BY <2>1, FS_Subset
  <2>3. rank(x) \in Nat
    BY <2>2, FS_CardinalityType
  <2> HIDE DEF rank, n
  <2>4. QED
    BY <1>1, <2>2, <2>3
<1>3. \A x, y \in S : <<x, y>> \in R => rank(x) \in Nat /\ rank(y) \in Nat /\ rank(x) < rank(y)
    BY BelowLess
<1>4. \A x, y \in S : rank(x) = rank(y) => x = y
  <2> SUFFICES ASSUME NEW x \in S, NEW y \in S, rank(x) = rank(y), x # y PROVE FALSE
    OBVIOUS
  <2>1. <<x, y>> \in R \/ <<y, x>> \in R
    BY DEF Orders
  <2> HIDE DEF rank, n
  <2>2. QED
    BY <1>3, <2>1
<1>5. \A x, y \in S : rank(x) < rank(y) => <<x, y>> \in R
  <2> SUFFICES ASSUME NEW x \in S, NEW y \in S, rank(x) < rank(y) PROVE <<x, y>> \in R
    OBVIOUS
  <2>1. x # y => <<x, y>> \in R \/ <<y, x>> \in R
    BY DEF Orders
  <2>2. <<y, x>> \in R => rank(y) < rank(x) /\ rank(y) \in Nat /\ rank(x) \in Nat
    BY <1>3
  <2>3. rank(x) \in Int /\ rank(y) \in Int
    BY <1>2
  <2> HIDE DEF rank, n
  <2>4. QED
    BY <2>1, <2>2, <2>3
<1>6. \A k \in 1..n : \E x \in S : rank(x) = k - 1
  <2> DEFINE at == [x \in S |-> rank(x)]
  <2>1. IsFiniteSet(0..(n - 1)) /\ Cardinality(0..(n - 1)) = n
    <3>1. /\ IsFiniteSet(0..(n - 1))
          /\ Cardinality(0..(n - 1)) = IF 0 > n - 1 THEN 0 ELSE (n - 1) - 0 + 1
        BY <1>1, FS_Interval
    <3> HIDE DEF n
    <3>2. (IF 0 > n - 1 THEN 0 ELSE (n - 1) - 0 + 1) = n
        BY <1>1
    <3>3. QED
        BY <3>1, <3>2
  <2>2. at \in [S -> 0..(n - 1)] /\ \A x, y \in S : at[x] = at[y] => x = y
    BY <1>2, <1>4
  <2>3. at \in Injection(S, 0..(n - 1))
    BY <2>2 DEF Injection, IsInjective
  <2>4. at \in Surjection(S, 0..(n - 1))
    BY <2>1, <2>3, FS_Injection
  <2>5. \A k \in 0..(n - 1) : \E x \in S : at[x] = k
    BY <2>4 DEF Surjection
  <2> HIDE DEF n
  <2>6. \A k \in 1..n : k - 1 \in 0..(n - 1)
    BY <1>1
  <2>7. QED
    BY <2>5, <2>6
<1>7. QED
    BY <1>1, <1>2, <1>3, <1>4, <1>5, <1>6

-----------------------------------------------------------------------------
(* Rows and ranges in order *)

\* No two rows begin at the same place.
Sortable(S) ==
    /\ IsFiniteSet(S)
    /\ \A x \in S : x.file \in Nat /\ x.start \in Nat
    /\ \A x, y \in S : x # y => x.file # y.file \/ x.start # y.start

LEMMA InOrderSorts ==
    ASSUME NEW S, Sortable(S)
    PROVE  /\ InOrder(S) \in Seq(S) /\ Len(InOrder(S)) = Cardinality(S) /\ Cardinality(S) \in Nat
           /\ Elements(InOrder(S)) = S
           /\ \A i, j \in 1..Cardinality(S) : i < j => Earlier(InOrder(S)[i], InOrder(S)[j])
<1> DEFINE R == {p \in S \X S : Earlier(p[1], p[2])}
           n == Cardinality(S)
           s == InOrder(S)
<1>1. \A x, y \in S : <<x, y>> \in R <=> Earlier(x, y)
    OBVIOUS
<1>2. Orders(R, S)
  <2>1. \A x \in S : ~Earlier(x, x)
    BY DEF Sortable, Earlier
  <2>2. \A x, y \in S : x # y => Earlier(x, y) \/ Earlier(y, x)
    BY DEF Sortable, Earlier
  <2>3. \A x, y, z \in S : Earlier(x, y) /\ Earlier(y, z) => Earlier(x, z)
    BY DEF Sortable, Earlier
  <2> HIDE DEF R
  <2>4. QED
    BY <1>1, <2>1, <2>2, <2>3 DEF Orders
<1>3. \A x \in S : {y \in S : Earlier(y, x)} = Below(R, S, x)
    BY DEF Below
<1>4. IsFiniteSet(S)
    BY DEF Sortable
<1> HIDE DEF R
<1>5. /\ n \in Nat
      /\ \A x \in S : Cardinality(Below(R, S, x)) \in 0..(n - 1)
      /\ \A x, y \in S : <<x, y>> \in R <=> Cardinality(Below(R, S, x)) < Cardinality(Below(R, S, y))
      /\ \A x, y \in S : Cardinality(Below(R, S, x)) = Cardinality(Below(R, S, y)) => x = y
      /\ \A k \in 1..n : \E x \in S : Cardinality(Below(R, S, x)) = k - 1
    BY <1>2, <1>4, RankOnto
<1>6. s = [i \in 1..n |-> CHOOSE x \in S : Cardinality({y \in S : Earlier(y, x)}) = i - 1]
    BY DEF InOrder
<1> HIDE DEF s, n
<1>7. \A i \in 1..n : s[i] \in S /\ Cardinality(Below(R, S, s[i])) = i - 1
  <2> SUFFICES ASSUME NEW i \in 1..n PROVE s[i] \in S /\ Cardinality(Below(R, S, s[i])) = i - 1
    OBVIOUS
  <2>1. \E x \in S : Cardinality({y \in S : Earlier(y, x)}) = i - 1
    BY <1>3, <1>5
  <2>2. s[i] = CHOOSE x \in S : Cardinality({y \in S : Earlier(y, x)}) = i - 1
    BY <1>6
  <2>3. s[i] \in S /\ Cardinality({y \in S : Earlier(y, s[i])}) = i - 1
    BY <2>1, <2>2
  <2>4. QED
    BY <1>3, <2>3
<1>8. s \in Seq(S) /\ Len(s) = n /\ DOMAIN s = 1..n
  <2>1. s \in [1..n -> S]
    BY <1>6, <1>7
  <2>2. QED
    BY <1>5, <2>1
<1>9. \A i, j \in 1..n : i < j => Earlier(s[i], s[j])
  <2> SUFFICES ASSUME NEW i \in 1..n, NEW j \in 1..n, i < j PROVE Earlier(s[i], s[j])
    OBVIOUS
  <2>1. i - 1 < j - 1
    BY <1>5
  <2>2. Cardinality(Below(R, S, s[i])) < Cardinality(Below(R, S, s[j]))
    BY <1>7, <2>1
  <2>3. QED
    BY <1>1, <1>5, <1>7, <2>2
<1>10. \A x \in S : \E i \in 1..n : s[i] = x
  <2> SUFFICES ASSUME NEW x \in S PROVE \E i \in 1..n : s[i] = x
    OBVIOUS
  <2> DEFINE r == Cardinality(Below(R, S, x))
  <2>1. r \in 0..(n - 1)
    BY <1>5
  <2> HIDE DEF r
  <2>2. r + 1 \in 1..n /\ (r + 1) - 1 = r
    BY <1>5, <2>1
  <2>3. s[r + 1] \in S /\ Cardinality(Below(R, S, s[r + 1])) = r
    BY <1>7, <2>2
  <2>4. s[r + 1] = x
    BY <1>5, <2>3 DEF r
  <2>5. QED
    BY <2>2, <2>4
<1>11. Elements(s) = S
    BY <1>7, <1>8, <1>10 DEF Elements
<1>12. QED
    BY <1>5, <1>8, <1>9, <1>11 DEF s, n

-----------------------------------------------------------------------------
(* The tables that inspection and conversion write *)

\* The tensors that are where the index says, and their rows.
Found == {n \in DOMAIN Input.index : n \in DOMAIN Input.header[Input.index[n]]}
Table == {Row(Input.index[n], n) : n \in Found}

\* Inspection has accepted the checkpoint.
Accepted == Found = DOMAIN Input.index

LEMMA TableTypes ==
    ASSUME given \in DOMAIN Checkpoints
    PROVE  /\ IsFiniteSet(Table)
           /\ \A x \in Table : /\ x.name \in Names /\ x.name \in Found /\ x = Row(Input.index[x.name], x.name)
                               /\ x.file \in Nat /\ x.file \in DOMAIN Input.header
                               /\ x.start \in Nat /\ x.end \in Nat /\ x.start < x.end
           /\ \A x, y \in Table : x # y =>
                 /\ x.name # y.name
                 /\ x.file = y.file => x.end <= y.start \/ y.end <= x.start
<1> DEFINE c == Checkpoints[given]
<1>1. c = Input
    BY DEF Input
<1>2. /\ IsFiniteSet(DOMAIN c.index) /\ DOMAIN c.index \subseteq Names
      /\ \A n \in DOMAIN c.index : c.index[n] \in DOMAIN c.header
      /\ DOMAIN c.header \subseteq Nat
      /\ \A s \in DOMAIN c.header :
            /\ c.base[s] \in Nat
            /\ \A n \in DOMAIN c.header[s] :
                  c.header[s][n].start \in Nat /\ c.header[s][n].end \in Nat
    BY CheckpointAssumption
<1>3. \A s \in DOMAIN c.header : \A n, m \in DOMAIN c.header[s] :
            /\ c.header[s][n].start < c.header[s][n].end
            /\ n # m => c.header[s][n].end <= c.header[s][m].start
                        \/ c.header[s][m].end <= c.header[s][n].start
    BY PlacesAssumption
<1> HIDE DEF c
<1>4. ASSUME NEW n \in Found
      PROVE  LET x == Row(Input.index[n], n) IN
             /\ n \in Names /\ Input.index[n] \in DOMAIN Input.header /\ Input.index[n] \in Nat
             /\ n \in DOMAIN Input.header[Input.index[n]]
             /\ x.name = n /\ x.file = Input.index[n]
             /\ x.start \in Nat /\ x.end \in Nat /\ x.start < x.end
  <2> DEFINE s == Input.index[n]
  <2>1. n \in DOMAIN c.index /\ n \in DOMAIN c.header[s]
    BY <1>1 DEF Found
  <2>2. s \in DOMAIN c.header /\ s \in Nat /\ n \in Names
    BY <1>1, <1>2, <2>1
  <2> DEFINE b == c.base[s]
             p == c.header[s][n].start
             q == c.header[s][n].end
  <2>3. b \in Nat /\ p \in Nat /\ q \in Nat /\ p < q
    BY <1>2, <1>3, <2>1, <2>2
  <2>4. Row(s, n) = [name |-> n, file |-> s, start |-> b + p, end |-> b + q]
    BY <1>1 DEF Row
  <2> HIDE DEF b, p, q, s
  <2>5. b + p \in Nat /\ b + q \in Nat /\ b + p < b + q
    BY <2>3
  <2>6. QED
    BY <1>1, <2>1, <2>2, <2>4, <2>5 DEF s
<1>5. \A x \in Table : x.name \in Found /\ x = Row(Input.index[x.name], x.name)
    BY <1>4 DEF Table
<1>6. IsFiniteSet(Table)
  <2> DEFINE row == [n \in Found |-> Row(Input.index[n], n)]
  <2>1. IsFiniteSet(Found)
    <3>1. Found \subseteq DOMAIN c.index
        BY <1>1 DEF Found
    <3>2. QED
        BY <1>2, <3>1, FS_Subset
  <2>2. row \in Surjection(Found, Table)
    BY DEF Table, Surjection
  <2>3. QED
    BY <2>1, <2>2, FS_Surjection
<1>7. ASSUME NEW x \in Table, NEW y \in Table, x # y
      PROVE  /\ x.name # y.name
             /\ x.file = y.file => x.end <= y.start \/ y.end <= x.start
  <2> DEFINE n == x.name
             m == y.name
             s == Input.index[n]
  <2>1. n \in Found /\ m \in Found /\ x = Row(Input.index[n], n) /\ y = Row(Input.index[m], m)
    BY <1>5
  <2>2. n # m
    BY <1>7, <2>1
  <2>3. CASE Input.index[m] = s
    <3>1. s \in DOMAIN c.header /\ n \in DOMAIN c.header[s] /\ m \in DOMAIN c.header[s]
        BY <1>1, <1>4, <2>1, <2>3
    <3> DEFINE b == c.base[s]
               p == c.header[s][n].start
               q == c.header[s][n].end
               u == c.header[s][m].start
               v == c.header[s][m].end
    <3>2. b \in Nat /\ p \in Nat /\ q \in Nat /\ u \in Nat /\ v \in Nat /\ (q <= u \/ v <= p)
        BY <1>2, <1>3, <2>2, <3>1
    <3>3. x.start = b + p /\ x.end = b + q /\ y.start = b + u /\ y.end = b + v
        BY <1>1, <2>1, <2>3 DEF Row
    <3> HIDE DEF b, p, q, u, v
    <3>4. x.end <= y.start \/ y.end <= x.start
        BY <3>2, <3>3
    <3>5. QED
        BY <2>2, <3>4
  <2>4. CASE Input.index[m] # s
    <3>1. x.file = s /\ y.file = Input.index[m]
        BY <1>4, <2>1
    <3>2. QED
        BY <2>2, <2>4, <3>1
  <2>5. QED
    BY <2>3, <2>4
<1>8. ASSUME NEW x \in Table
      PROVE  /\ x.name \in Names /\ x.file \in Nat /\ x.file \in DOMAIN Input.header
             /\ x.start \in Nat /\ x.end \in Nat /\ x.start < x.end
    BY <1>4, <1>5
<1>9. QED
    BY <1>5, <1>6, <1>7, <1>8

LEMMA TableSortable ==
    ASSUME given \in DOMAIN Checkpoints
    PROVE  Sortable(Table)
<1>1. /\ IsFiniteSet(Table)
      /\ \A x \in Table : /\ x.file \in Nat /\ x.start \in Nat /\ x.end \in Nat /\ x.start < x.end
      /\ \A x, y \in Table : x # y =>
            (x.file = y.file => x.end <= y.start \/ y.end <= x.start)
    BY TableTypes
<1>2. \A x, y \in Table : x # y => x.file # y.file \/ x.start # y.start
    BY <1>1
<1>3. QED
    BY <1>1, <1>2 DEF Sortable

\* checkpoint-tensors.csv has rows of the table, each once, all of them unless it was
\* cut off; weight-manifest.csv has what is made of them.
CsvInv ==
    csv # Absent =>
        /\ Accepted /\ csv \in Seq(Table)
        /\ \A i, j \in 1..Len(csv) : i # j => csv[i] # csv[j]
        /\ ~Input.stops => Elements(csv) = Table

ManifestInv ==
    manifest # Absent =>
        /\ Accepted /\ Len(manifest) \in Nat /\ DOMAIN manifest = 1..Len(manifest)
        /\ \A i \in DOMAIN manifest : \E x \in Table : manifest[i] = ManifestRow(x)
        /\ \A i, j \in DOMAIN manifest : i # j => manifest[i].source # manifest[j].source
        /\ ~Input.stops => \A x \in Table : \E i \in DOMAIN manifest : manifest[i] = ManifestRow(x)

TablesInv == CsvInv /\ ManifestInv

LEMMA SameTables ==
    ASSUME given' = given
    PROVE  /\ Input' = Input /\ Found' = Found /\ Table' = Table /\ Accepted' = Accepted
           /\ \A s, n : Row(s, n)' = Row(s, n)
<1>1. Input' = Input
    BY DEF Input
<1>2. \A s, n : Row(s, n)' = Row(s, n)
    BY <1>1 DEF Row
<1>3. Found' = Found
    BY <1>1 DEF Found
<1>4. QED
    BY <1>1, <1>2, <1>3 DEF Table, Accepted

LEMMA WriteCsvTables ==
    ASSUME ListInv, TablesInv, WriteCsv
    PROVE  TablesInv'
<1>1. /\ tool.at = "csv" /\ given' = given /\ manifest' = manifest
      /\ \E n \in 0..Cardinality(tool.rows) :
            /\ Input.stops \/ n = Cardinality(tool.rows)
            /\ csv' = SubSeq(InOrder(tool.rows), 1, n)
    BY DEF WriteCsv
<1>2. tool.rows = Table /\ Accepted
    BY <1>1 DEF ListInv, AcceptedIsIndex, Table, Found, Accepted
<1>3. given \in DOMAIN Checkpoints
    BY DEF ListInv
<1> DEFINE s == InOrder(Table)
           N == Cardinality(Table)
<1>4. /\ s \in Seq(Table) /\ Len(s) = N /\ N \in Nat
      /\ Elements(s) = Table
      /\ \A i, j \in 1..N : i < j => Earlier(s[i], s[j])
    BY <1>3, TableSortable, InOrderSorts
<1>5. PICK n \in 0..N : (Input.stops \/ n = N) /\ csv' = SubSeq(s, 1, n)
    BY <1>1, <1>2
<1> HIDE DEF s, N
<1>6. csv' \in Seq(Table) /\ Len(csv') = n /\ \A i \in 1..n : csv'[i] = s[i]
  <2>1. n \in Nat /\ n <= N
    BY <1>4, <1>5
  <2>2. \A i \in 1..n : s[i] \in Table
    BY <1>4, <2>1
  <2>3. QED
    BY <1>5, <2>1, <2>2, SubSeqProperties
<1>7. \A i, j \in 1..n : i # j => csv'[i] # csv'[j]
  <2>1. \A x \in Table : ~Earlier(x, x)
    BY <1>3, TableSortable DEF Sortable, Earlier
  <2>2. \A i, j \in 1..n : i < j => s[i] # s[j]
    BY <1>4, <1>5, <2>1
  <2>3. QED
    BY <1>5, <1>6, <2>2
<1>8. ~Input.stops => Elements(csv') = Table
  <2> SUFFICES ASSUME ~Input.stops PROVE Elements(csv') = Table
    OBVIOUS
  <2>1. n = N
    BY <1>5
  <2>2. csv' = s
    BY <1>4, <1>6, <2>1
  <2>3. QED
    BY <1>4, <2>2
<1>9. CsvInv'
    BY <1>1, <1>2, <1>6, <1>7, <1>8, SameTables DEF CsvInv
<1>10. ManifestInv'
    BY <1>1, SameTables DEF TablesInv, ManifestInv
<1>11. QED
    BY <1>9, <1>10 DEF TablesInv

LEMMA BuildManifestTables ==
    ASSUME ListInv, TablesInv, BuildManifest
    PROVE  TablesInv'
<1>1. /\ csv # Absent /\ given' = given /\ csv' = csv
      /\ \E n \in 0..Len(csv) : /\ Input.stops \/ n = Len(csv)
                                /\ manifest' = [i \in 1..n |-> ManifestRow(csv[i])]
    BY DEF BuildManifest
<1>2. /\ Accepted /\ csv \in Seq(Table)
      /\ \A i, j \in 1..Len(csv) : i # j => csv[i] # csv[j]
      /\ ~Input.stops => Elements(csv) = Table
    BY <1>1 DEF TablesInv, CsvInv
<1>3. Len(csv) \in Nat /\ DOMAIN csv = 1..Len(csv) /\ \A i \in 1..Len(csv) : csv[i] \in Table
    BY <1>2
<1> DEFINE N == Len(csv)
<1>4. PICK n \in 0..N : /\ Input.stops \/ n = N
                       /\ manifest' = [i \in 1..n |-> ManifestRow(csv[i])]
    BY <1>1
<1> HIDE DEF N
<1>5. n \in Nat /\ n <= N /\ N \in Nat
    BY <1>3 DEF N
<1> DEFINE rows == [i \in 1..n |-> ManifestRow(csv[i])]
<1>6. /\ Len(rows) = n /\ DOMAIN rows = 1..n
      /\ \A i \in 1..n : i \in 1..N /\ csv[i] \in Table /\ rows[i] = ManifestRow(csv[i])
  <2>1. \A i \in 1..n : i \in 1..N
    BY <1>5
  <2>2. \A i \in 1..N : csv[i] \in Table
    BY <1>3 DEF N
  <2>3. Len(rows) = n
    BY <1>5
  <2>4. QED
    BY <2>1, <2>2, <2>3
<1>6a. manifest' = rows
    BY <1>4
<1> HIDE DEF rows
<1>7. \A i, j \in 1..n : i # j => rows[i].source # rows[j].source
  <2> SUFFICES ASSUME NEW i \in 1..n, NEW j \in 1..n, i # j
               PROVE  rows[i].source # rows[j].source
    OBVIOUS
  <2>1. csv[i] # csv[j]
    BY <1>2, <1>6 DEF N
  <2>2. csv[i].name # csv[j].name
    BY <1>6, <2>1, TableTypes DEF ListInv
  <2>3. \A x : ManifestRow(x).source = x.name
    BY DEF ManifestRow
  <2>4. QED
    BY <1>6, <2>2, <2>3
<1>8. ~Input.stops => \A x \in Table : \E i \in 1..n : rows[i] = ManifestRow(x)
  <2> SUFFICES ASSUME ~Input.stops, NEW x \in Table
               PROVE  \E i \in 1..n : rows[i] = ManifestRow(x)
    OBVIOUS
  <2>1. n = Len(csv)
    BY <1>4 DEF N
  <2>2. \E i \in 1..n : csv[i] = x
    BY <1>2, <1>3, <2>1 DEF Elements
  <2>3. QED
    BY <1>6, <2>2
<1>9. ManifestInv'
    BY <1>1, <1>2, <1>5, <1>6, <1>6a, <1>7, <1>8, SameTables DEF ManifestInv
<1>10. CsvInv'
    BY <1>1, SameTables DEF TablesInv, CsvInv
<1>11. QED
    BY <1>9, <1>10 DEF TablesInv

LEMMA TablesStep ==
    ASSUME ListInv, TablesInv, [CheckpointNext]_checkpointVars
    PROVE  given' = given /\ TablesInv'
<1>1. CASE WriteCsv
    BY <1>1, WriteCsvTables DEF WriteCsv
<1>2. CASE BuildManifest
    BY <1>2, BuildManifestTables DEF BuildManifest
<1>3. CASE ~WriteCsv /\ ~BuildManifest
  <2>1. UNCHANGED <<given, csv, manifest>>
    <3>1. CASE Inspection
        BY <1>3, <3>1 DEF Inspection, Inspect, ReadHeader, Accept
    <3>2. CASE Loading
        BY <3>2 DEF Loading, Load, SkipParam, CopyParam, LoadRaises, Unload
    <3>3. CASE Benchmarks
      <4>1. ASSUME NEW layer, NEW experts, NEW gap, PlanReads(layer, experts, gap)
            PROVE  UNCHANGED <<given, csv, manifest>>
        BY <4>1 DEF PlanReads
      <4>2. ASSUME NEW layer, NEW experts, PackExperts(layer, experts)
            PROVE  UNCHANGED <<given, csv, manifest>>
        BY <4>2 DEF PackExperts
      <4>3. ReadChunk \/ EndReads \/ EndPacked => UNCHANGED <<given, csv, manifest>>
        BY DEF ReadChunk, EndReads, EndPacked
      <4>4. QED
        BY <3>3, <4>1, <4>2, <4>3 DEF Benchmarks
    <3>4. CASE UNCHANGED checkpointVars
        BY <3>4 DEF checkpointVars
    <3>5. QED
        BY <3>1, <3>2, <3>3, <3>4 DEF CheckpointNext
  <2>2. QED
    BY <2>1, SameTables DEF TablesInv, CsvInv, ManifestInv
<1>4. QED
    BY <1>1, <1>2, <1>3

-----------------------------------------------------------------------------
(* Loading *)

\* Sets of numbers up to n have a largest element.
LEMMA NatMax ==
    ASSUME NEW n \in Nat, NEW S \in SUBSET (1..n), S # {}
    PROVE  \E m \in S : \A k \in S : k <= m
<1> DEFINE P == {k \in 0..n : S \cap (1..k) = {} \/ \E m \in S : \A j \in S \cap (1..k) : j <= m}
<1>1. 0 \in P
    OBVIOUS
<1>2. ASSUME NEW k \in 1..n, k - 1 \in P PROVE k \in P
  <2>1. CASE k \in S
    <3>1. \A j \in S \cap (1..k) : j <= k
        OBVIOUS
    <3>2. QED
        BY <2>1, <3>1
  <2>2. CASE k \notin S
    <3>1. S \cap (1..k) = S \cap (1..(k - 1))
        BY <2>2
    <3>2. QED
        BY <1>2, <3>1
  <2>3. QED
    BY <2>1, <2>2
<1>3. P \in SUBSET (0..n)
    OBVIOUS
<1> HIDE DEF P
<1>4. n \in 0..n /\ n \in P
    BY <1>1, <1>2, <1>3, UpToAll
<1>5. S \cap (1..n) = S
    OBVIOUS
<1>6. QED
    BY <1>4, <1>5 DEF P

\* What WeightStore finds for a parameter is the row of a tensor that is renamed to it.
LEMMA LookupFinds ==
    ASSUME ManifestInv, manifest # Absent, NEW p, RowsFor(p) # {}
    PROVE  \E x \in Table : Lookup(p) = ManifestRow(x) /\ ConvertedName(x.name) = p
<1>1. /\ Len(manifest) \in Nat /\ DOMAIN manifest = 1..Len(manifest)
      /\ \A i \in DOMAIN manifest : \E x \in Table : manifest[i] = ManifestRow(x)
    BY DEF ManifestInv
<1>2. RowsFor(p) \in SUBSET (1..Len(manifest))
    BY <1>1 DEF RowsFor
<1>3. \E i \in RowsFor(p) : \A j \in RowsFor(p) : j <= i
    BY <1>1, <1>2, NatMax
<1>4. PICK i \in RowsFor(p) : Lookup(p) = manifest[i]
    BY <1>3 DEF Lookup
<1>5. PICK x \in Table : manifest[i] = ManifestRow(x)
    BY <1>1, <1>2
<1>6. ConvertedName(x.name) = p
    BY <1>4, <1>5 DEF RowsFor, ManifestRow
<1>7. QED
    BY <1>4, <1>5, <1>6

\* The checkpoint's parameters are what its names say.
LEMMA OwnedByName ==
    ASSUME given \in DOMAIN Checkpoints, NEW p \in Elements(Params)
    PROVE  /\ Role(p) # "lazy_routed_expert" /\ Transform(p) = "copy" =>
                 \A n \in DOMAIN Input.index : ConvertedName(n) = p => Input.own[p] = <<n>>
           /\ Role(p) # "lazy_routed_expert" /\ Transform(p) = "fp8_scaled_to_bf16" =>
                 \A n, m \in DOMAIN Input.index :
                    ConvertedName(n) = p /\ ConvertedName(m) = ScaleOf(p) => Input.own[p] = <<n, m>>
           /\ /\ Input.whole
              /\ \/ Role(p) = "lazy_routed_expert"
                 \/ \A n \in DOMAIN Input.index : ConvertedName(n) # p
              => Input.own[p] = <<>>
    BY OwnAssumption DEF Input

\* The programs' common state.
Fields == {"at", "left", "rows", "next", "ranges", "gap", "plan", "offset", "got"}

LoadInv ==
    /\ DOMAIN tool = Fields
    /\ DOMAIN model = Elements(Params)
    /\ FilledIsOwn
    /\ tool.at = "load" =>
          /\ manifest # Absent /\ tool.next \in 1..(Len(Params) + 1)
          /\ Input.whole /\ ~Input.stops =>
                \A i \in 1..(tool.next - 1) : model[Params[i]] = Input.own[Params[i]]

LEMMA InitLoads == CheckpointInit => LoadInv
    BY DEF CheckpointInit, LoadInv, NoTool, NoModel, Fields, FilledIsOwn

LEMMA NextParam ==
    ASSUME LoadInv, tool.at = "load", tool.next <= Len(Params)
    PROVE  tool.next \in DOMAIN Params /\ Param \in Elements(Params)
<1>1. Params \in Seq(Elements(Params))
    BY ParamsAssumption
<1>2. Len(Params) \in Nat /\ DOMAIN Params = 1..Len(Params)
    BY <1>1, LenProperties
<1>3. tool.next \in DOMAIN Params
    BY <1>2 DEF LoadInv
<1>4. QED
    BY <1>3 DEF Param, Elements

LEMMA Loaded1 ==
    ASSUME LoadInv, tool.at = "load", tool.next <= Len(Params), LoadedNext, given' = given,
           manifest' = manifest, FilledIsOwn', DOMAIN model' = Elements(Params),
           \A p \in Elements(Params) : p # Param => model'[p] = model[p],
           Input.whole /\ ~Input.stops => model'[Param] = Input.own[Param]
    PROVE  LoadInv'
<1>1. tool.next \in DOMAIN Params /\ Param \in Elements(Params)
    BY NextParam
<1>2. Params \in Seq(Elements(Params)) /\ Len(Params) \in Nat /\ DOMAIN Params = 1..Len(Params)
    BY ParamsAssumption, LenProperties
<1>3. DOMAIN tool' = Fields /\ tool'.at = "load" /\ tool'.next = tool.next + 1
    BY DEF LoadedNext, LoadInv, Fields
<1>4. tool'.next \in 1..(Len(Params) + 1)
    BY <1>1, <1>2, <1>3
<1>5. ASSUME Input.whole /\ ~Input.stops, NEW i \in 1..(tool'.next - 1)
      PROVE  model'[Params[i]] = Input.own[Params[i]]
  <2>1. i = tool.next \/ i \in 1..(tool.next - 1)
    BY <1>1, <1>2, <1>3
  <2>2. i \in DOMAIN Params
    BY <1>1, <1>2, <2>1
  <2>3. Params[i] \in Elements(Params)
    BY <2>2 DEF Elements
  <2>4. CASE Params[i] = Param
    BY <1>5, <2>4
  <2>5. CASE Params[i] # Param
    <3>1. i \in 1..(tool.next - 1)
        BY <2>1, <2>5 DEF Param
    <3>2. QED
        BY <1>5, <2>3, <2>5, <3>1 DEF LoadInv
  <2>6. QED
    BY <2>4, <2>5
<1>6. Input' = Input
    BY DEF Input
<1>7. QED
    BY <1>3, <1>4, <1>5, <1>6 DEF LoadInv

LEMMA CopyParamLoads ==
    ASSUME ListInv, ManifestInv, LoadInv, CopyParam
    PROVE  LoadInv'
<1>1. /\ tool.at = "load" /\ tool.next <= Len(Params) /\ LoadedNext
      /\ given' = given /\ manifest' = manifest
      /\ RowsFor(Param) # {} /\ Lookup(Param).role # "lazy_routed_expert"
    BY DEF CopyParam
<1>2. /\ Param \in Elements(Params) /\ manifest # Absent /\ given \in DOMAIN Checkpoints
      /\ DOMAIN model = Elements(Params) /\ FilledIsOwn
    BY <1>1, NextParam DEF LoadInv, ListInv
<1>3. PICK x \in Table : Lookup(Param) = ManifestRow(x) /\ ConvertedName(x.name) = Param
    BY <1>1, <1>2, LookupFinds
<1>4. /\ Lookup(Param).source = x.name /\ Lookup(Param).role = Role(Param)
      /\ Lookup(Param).transform = Transform(Param)
    BY <1>3 DEF ManifestRow
<1>5. x.name \in DOMAIN Input.index
    BY <1>2, TableTypes DEF Found
<1>6. \E v : model' = [model EXCEPT ![Param] = v] /\ v = Input.own[Param]
  <2>1. CASE Transform(Param) = "copy"
    <3>1. model' = [model EXCEPT ![Param] = <<x.name>>]
        BY <1>4, <2>1 DEF CopyParam
    <3>2. Input.own[Param] = <<x.name>>
        BY <1>1, <1>2, <1>3, <1>4, <1>5, <2>1, OwnedByName
    <3>3. QED
        BY <3>1, <3>2
  <2>2. CASE Transform(Param) # "copy"
    <3> DEFINE scale == ScaleOf(Param)
    <3>1. /\ Transform(Param) = "fp8_scaled_to_bf16" /\ RowsFor(scale) # {}
          /\ model' = [model EXCEPT ![Param] = <<x.name, Lookup(scale).source>>]
        BY <1>4, <2>2 DEF CopyParam
    <3>2. PICK y \in Table : Lookup(scale) = ManifestRow(y) /\ ConvertedName(y.name) = scale
        BY <1>2, <3>1, LookupFinds
    <3>3. Lookup(scale).source = y.name
        BY <3>2 DEF ManifestRow
    <3>4. y.name \in DOMAIN Input.index
        BY <1>2, TableTypes DEF Found
    <3>5. Input.own[Param] = <<x.name, y.name>>
        BY <1>1, <1>2, <1>3, <1>4, <1>5, <3>1, <3>2, <3>4, OwnedByName
    <3>6. QED
        BY <3>1, <3>3, <3>5
  <2>3. QED
    BY <2>1, <2>2
<1>7. /\ DOMAIN model' = Elements(Params) /\ model'[Param] = Input.own[Param]
      /\ \A p \in Elements(Params) : p # Param => model'[p] = model[p]
    BY <1>2, <1>6
<1>8. FilledIsOwn'
  <2>1. Input' = Input
    BY <1>1 DEF Input
  <2>2. QED
    BY <1>2, <1>7, <2>1 DEF FilledIsOwn
<1>9. QED
    BY <1>1, <1>7, <1>8, Loaded1

LEMMA SkipParamLoads ==
    ASSUME ListInv, ManifestInv, LoadInv, SkipParam
    PROVE  LoadInv'
<1>1. /\ tool.at = "load" /\ tool.next <= Len(Params) /\ LoadedNext
      /\ given' = given /\ manifest' = manifest /\ model' = model
      /\ RowsFor(Param) # {} => Lookup(Param).role = "lazy_routed_expert"
    BY DEF SkipParam
<1>2. /\ Param \in Elements(Params) /\ manifest # Absent /\ given \in DOMAIN Checkpoints
      /\ DOMAIN model = Elements(Params) /\ FilledIsOwn
    BY <1>1, NextParam DEF LoadInv, ListInv
<1>3. ASSUME Input.whole, ~Input.stops PROVE model[Param] = Input.own[Param]
  <2>1. CASE RowsFor(Param) # {}
    <3>1. PICK x \in Table : Lookup(Param) = ManifestRow(x) /\ ConvertedName(x.name) = Param
        BY <1>2, <2>1, LookupFinds
    <3>2. Lookup(Param).role = Role(Param)
        BY <3>1 DEF ManifestRow
    <3>3. Input.own[Param] = <<>>
        BY <1>1, <1>2, <1>3, <2>1, <3>2, OwnedByName
    <3>4. QED
        BY <1>2, <3>3 DEF FilledIsOwn
  <2>2. CASE RowsFor(Param) = {}
    <3>1. ASSUME NEW n \in DOMAIN Input.index, ConvertedName(n) = Param PROVE FALSE
      <4>1. n \in Found /\ Accepted
        BY <1>2 DEF ManifestInv, Accepted
      <4> DEFINE x == Row(Input.index[n], n)
      <4>2. x \in Table /\ x.name = n
        BY <4>1 DEF Table, Row
      <4> HIDE DEF x
      <4>3. PICK i \in DOMAIN manifest : manifest[i] = ManifestRow(x)
        BY <1>2, <1>3, <4>2 DEF ManifestInv
      <4>4. manifest[i].target = Param
        BY <3>1, <4>2, <4>3 DEF ManifestRow
      <4>5. QED
        BY <2>2, <4>3, <4>4 DEF RowsFor
    <3>2. Input.own[Param] = <<>>
        BY <1>2, <1>3, <3>1, OwnedByName
    <3>3. QED
        BY <1>2, <3>2 DEF FilledIsOwn
  <2>3. QED
    BY <2>1, <2>2
<1>4. FilledIsOwn'
    BY <1>1, <1>2 DEF FilledIsOwn, Input
<1>5. QED
    BY <1>1, <1>2, <1>3, <1>4, Loaded1

\* The other steps leave the parameters alone, or empty them.
LEMMA OthersLoad ==
    ASSUME ListInv, LoadInv, given' = given, DOMAIN tool' = Fields, tool'.at # "load",
           model' = model \/ model' = NoModel
    PROVE  LoadInv'
<1>1. Input' = Input
    BY DEF Input
<1>2. FilledIsOwn' /\ DOMAIN model' = Elements(Params)
    BY <1>1 DEF LoadInv, FilledIsOwn, NoModel
<1>3. QED
    BY <1>2 DEF LoadInv

LEMMA LoadLoads ==
    ASSUME ListInv, LoadInv, Load
    PROVE  LoadInv'
<1>1. /\ tool' = [NoTool EXCEPT !.at = "load", !.next = 1] /\ model' = NoModel
      /\ manifest # Absent /\ given' = given /\ manifest' = manifest
    BY DEF Load
<1>2. DOMAIN tool' = Fields /\ tool'.at = "load" /\ tool'.next = 1
    BY <1>1 DEF NoTool, Fields
<1>3. Len(Params) \in Nat
    BY ParamsAssumption, LenProperties
<1>4. 1 \in 1..(Len(Params) + 1) /\ 1..(1 - 1) = {}
    BY <1>3
<1>5. FilledIsOwn' /\ DOMAIN model' = Elements(Params)
    BY <1>1 DEF FilledIsOwn, NoModel
<1>6. QED
    BY <1>1, <1>2, <1>4, <1>5 DEF LoadInv

\* The fields of a program that goes on, or ends.
LEMMA ReadOnFields ==
    ASSUME DOMAIN tool = Fields, tool.at = "read", NEW n, ReadOn(n)
    PROVE  /\ DOMAIN tool' = Fields /\ tool'.at = "read"
           /\ tool'.left = tool.left /\ tool'.rows = tool.rows /\ tool'.plan = tool.plan
           /\ tool'.ranges = tool.ranges /\ tool'.gap = tool.gap
<1>1. \E got, next, offset : tool' = [tool EXCEPT !.got = got, !.next = next, !.offset = offset]
    BY DEF ReadOn
<1>2. PICK got, next, offset : tool' = [tool EXCEPT !.got = got, !.next = next, !.offset = offset]
    BY <1>1
<1>3. QED
    BY <1>2 DEF Fields

LEMMA LoadStep ==
    ASSUME ListInv, TablesInv, LoadInv, [CheckpointNext]_checkpointVars
    PROVE  LoadInv'
<1>1. given' = given
    BY TablesStep
<1>2. DOMAIN tool = Fields
    BY DEF LoadInv
<1>3. CASE Inspection
  <2>1. DOMAIN tool' = Fields /\ (tool'.at # "load" \/ tool' = tool)
    <3>1. CASE Inspect
        BY <3>1 DEF Inspect, NoTool, Fields
    <3>2. CASE ReadHeader
      <4>1. tool.at = "headers"
        BY <3>2 DEF ReadHeader
      <4>2. tool' = NoTool \/ \E left, rows : tool' = [tool EXCEPT !.left = left, !.rows = rows]
        BY <3>2 DEF ReadHeader
      <4>3. CASE tool' = NoTool
        BY <4>3 DEF NoTool, Fields
      <4>4. ASSUME NEW left, NEW rows, tool' = [tool EXCEPT !.left = left, !.rows = rows]
            PROVE  DOMAIN tool' = Fields /\ tool'.at = "headers"
        BY <1>2, <4>1, <4>4 DEF Fields
      <4>5. QED
        BY <4>2, <4>3, <4>4
    <3>3. CASE Accept
        BY <1>2, <3>3 DEF Accept, NoTool, Fields
    <3>4. CASE WriteCsv
        BY <3>4 DEF WriteCsv, NoTool, Fields
    <3>5. CASE BuildManifest
        BY <1>2, <3>5 DEF BuildManifest
    <3>6. QED
        BY <1>3, <3>1, <3>2, <3>3, <3>4, <3>5 DEF Inspection
  <2>2. model' = model
    BY <1>3 DEF Inspection, Inspect, ReadHeader, Accept, WriteCsv, BuildManifest
  <2>3. CASE tool'.at # "load"
    BY <1>1, <2>1, <2>2, <2>3, OthersLoad
  <2>4. CASE tool'.at = "load"
    <3>1. tool' = tool /\ tool.at = "load"
        BY <2>1, <2>4
    <3>2. FALSE
        BY <1>3, <3>1 DEF Inspection, Inspect, ReadHeader, Accept, WriteCsv, BuildManifest
    <3>3. QED
        BY <3>2
  <2>5. QED
    BY <2>3, <2>4
<1>4. CASE Loading
  <2>1. CASE Load
    BY <2>1, LoadLoads
  <2>2. CASE SkipParam
    BY <2>2, SkipParamLoads DEF TablesInv
  <2>3. CASE CopyParam
    BY <2>3, CopyParamLoads DEF TablesInv
  <2>4. CASE LoadRaises \/ Unload
    <3>1. tool' = NoTool /\ model' = NoModel
        BY <2>4 DEF LoadRaises, Unload
    <3>2. QED
        BY <1>1, <3>1, OthersLoad DEF NoTool, Fields
  <2>5. QED
    BY <1>4, <2>1, <2>2, <2>3, <2>4 DEF Loading
<1>5. CASE Benchmarks
  <2>1. ASSUME NEW layer, NEW experts, NEW gap, PlanReads(layer, experts, gap)
        PROVE  DOMAIN tool' = Fields /\ tool'.at # "load" /\ model' = model
    BY <2>1 DEF PlanReads, NoTool, Fields
  <2>2. ASSUME NEW layer, NEW experts, PackExperts(layer, experts)
        PROVE  DOMAIN tool' = Fields /\ tool'.at # "load" /\ model' = model
    BY <2>2 DEF PackExperts, NoTool, Fields
  <2>3. ASSUME EndReads \/ EndPacked
        PROVE  DOMAIN tool' = Fields /\ tool'.at # "load" /\ model' = model
    BY <2>3 DEF EndReads, EndPacked, NoTool, Fields
  <2>4. ASSUME ReadChunk
        PROVE  DOMAIN tool' = Fields /\ tool'.at # "load" /\ model' = model
    <3>1. tool.at = "read" /\ model' = model /\ (tool' = NoTool \/ \E n : ReadOn(n))
        BY <2>4 DEF ReadChunk
    <3>2. tool' = NoTool => DOMAIN tool' = Fields /\ tool'.at # "load"
        BY DEF NoTool, Fields
    <3>3. ASSUME NEW n, ReadOn(n) PROVE DOMAIN tool' = Fields /\ tool'.at # "load"
        BY <1>2, <3>1, <3>3, ReadOnFields
    <3>4. QED
        BY <3>1, <3>2, <3>3
  <2>5. DOMAIN tool' = Fields /\ tool'.at # "load" /\ model' = model
    BY <1>5, <2>1, <2>2, <2>3, <2>4 DEF Benchmarks
  <2>6. QED
    BY <1>1, <2>5, OthersLoad
<1>6. CASE UNCHANGED checkpointVars
    BY <1>6 DEF checkpointVars, LoadInv, FilledIsOwn, Input
<1>7. QED
    BY <1>3, <1>4, <1>5, <1>6 DEF CheckpointNext

LEMMA LoadSuffices == LoadInv => LoadedRight
<1> SUFFICES ASSUME LoadInv PROVE LoadedRight
    OBVIOUS
<1>1. ASSUME Loaded, Input.whole, ~Input.stops, NEW p \in DOMAIN model
      PROVE  model[p] = Input.own[p]
  <2>1. Params \in Seq(Elements(Params)) /\ Len(Params) \in Nat /\ DOMAIN Params = 1..Len(Params)
    BY ParamsAssumption, LenProperties
  <2>2. p \in Elements(Params)
    BY <1>1 DEF LoadInv
  <2>3. PICK i \in 1..Len(Params) : Params[i] = p
    BY <2>1, <2>2 DEF Elements
  <2>4. tool.at = "load" /\ tool.next \in Nat /\ tool.next > Len(Params)
    BY <1>1, <2>1 DEF Loaded, LoadInv
  <2>5. i \in 1..(tool.next - 1)
    BY <2>1, <2>4
  <2>6. QED
    BY <1>1, <2>3, <2>4, <2>5 DEF LoadInv
<1>2. NothingLeftEmpty
    BY <1>1 DEF NothingLeftEmpty
<1>3. QED
    BY <1>2 DEF LoadInv, LoadedRight

-----------------------------------------------------------------------------
(* Merging *)

Extent == [file : Nat, start : Nat, end : Nat]

\* Ranges that have bytes and share none.
Apart(S) ==
    /\ IsFiniteSet(S)
    /\ \A x \in S : x \in Extent /\ x.start < x.end
    /\ \A x, y \in S : x # y /\ x.file = y.file => x.end <= y.start \/ y.end <= x.start

Follows(x, y) == x.file < y.file \/ (x.file = y.file /\ x.end <= y.start)

LEMMA ApartInOrder ==
    ASSUME NEW S, Apart(S)
    PROVE  /\ InOrder(S) \in Seq(S) /\ InOrder(S) \in Seq(Extent)
           /\ Len(InOrder(S)) = Cardinality(S) /\ Cardinality(S) \in Nat
           /\ Elements(InOrder(S)) = S
           /\ \A i, j \in 1..Cardinality(S) : i < j => Follows(InOrder(S)[i], InOrder(S)[j])
<1> DEFINE s == InOrder(S)
           n == Cardinality(S)
<1>1. Sortable(S)
  <2>1. IsFiniteSet(S) /\ \A x \in S : x.file \in Nat /\ x.start \in Nat /\ x.end \in Nat /\ x.start < x.end
    BY DEF Apart, Extent
  <2>2. \A x, y \in S : x # y => x.file # y.file \/ x.start # y.start
    BY <2>1 DEF Apart
  <2>3. QED
    BY <2>1, <2>2 DEF Sortable
<1>2. /\ s \in Seq(S) /\ Len(s) = n /\ n \in Nat
      /\ Elements(s) = S
      /\ \A i, j \in 1..n : i < j => Earlier(s[i], s[j])
    BY <1>1, InOrderSorts
<1>3. S \subseteq Extent
    BY DEF Apart
<1> HIDE DEF s, n
<1>4. s \in Seq(Extent)
    BY <1>2, <1>3
<1>5. ASSUME NEW i \in 1..n, NEW j \in 1..n, i < j PROVE Follows(s[i], s[j])
  <2>1. s[i] \in S /\ s[j] \in S /\ Earlier(s[i], s[j])
    BY <1>2, <1>5
  <2>2. /\ s[i].file \in Nat /\ s[i].start \in Nat /\ s[i].end \in Nat /\ s[i].start < s[i].end
        /\ s[j].file \in Nat /\ s[j].start \in Nat /\ s[j].end \in Nat /\ s[j].start < s[j].end
    BY <2>1 DEF Apart, Extent
  <2>3. s[i] # s[j]
    BY <2>1, <2>2 DEF Earlier
  <2>4. s[i].file = s[j].file => s[i].end <= s[j].start \/ s[j].end <= s[i].start
    BY <2>1, <2>3 DEF Apart
  <2>5. QED
    BY <2>1, <2>2, <2>4 DEF Earlier, Follows
<1>6. QED
    BY <1>2, <1>4, <1>5 DEF s, n

Last(m) == m[Len(m)]

\* One range more: it is joined to the last, or stands behind it.
Widened(m, r) == [m EXCEPT ![Len(m)].end = Larger(@, r.end)]
JoinedTo(m, r, gap) ==
    IF m # <<>> /\ r.file = Last(m).file /\ r.start <= Last(m).end + gap
    THEN Widened(m, r) ELSE Append(m, r)
JoinedTouching(m, r) ==
    IF m # <<>> /\ r.file = Last(m).file /\ Last(m).end = r.start
    THEN Widened(m, r) ELSE Append(m, r)

LEMMA WidenedTypes ==
    ASSUME NEW m \in Seq(Extent), m # <<>>, NEW r \in Extent
    PROVE  /\ Widened(m, r) \in Seq(Extent) /\ Len(Widened(m, r)) = Len(m)
           /\ Len(m) \in Nat \ {0} /\ Last(m) \in Extent
           /\ \A i \in 1..(Len(m) - 1) : Widened(m, r)[i] = m[i]
           /\ Last(Widened(m, r)) = [Last(m) EXCEPT !.end = Larger(Last(m).end, r.end)]
           /\ Last(Widened(m, r)).file = Last(m).file /\ Last(Widened(m, r)).start = Last(m).start
           /\ Last(Widened(m, r)).end = Larger(Last(m).end, r.end)
<1> DEFINE n == Len(m)
           x == [m[n] EXCEPT !.end = Larger(m[n].end, r.end)]
<1>1. n \in Nat \ {0} /\ DOMAIN m = 1..n
    BY EmptySeq, LenProperties
<1>2. m[n] \in Extent
    BY <1>1
<1>3. x \in Extent /\ x.file = m[n].file /\ x.start = m[n].start /\ x.end = Larger(m[n].end, r.end)
    BY <1>2 DEF Extent, Larger
<1>4. Widened(m, r) = [m EXCEPT ![n] = x]
    BY DEF Widened
<1> HIDE DEF x, n
<1>5. [m EXCEPT ![n] = x] \in Seq(Extent) /\ Len([m EXCEPT ![n] = x]) = Len(m)
      /\ [m EXCEPT ![n] = x][n] = x
      /\ \A i \in 1..(n - 1) : [m EXCEPT ![n] = x][i] = m[i]
    BY <1>1, <1>3, ExceptSeq
<1>6. QED
    BY <1>1, <1>2, <1>3, <1>4, <1>5 DEF n, Last, x

LEMMA JoinedTypes ==
    ASSUME NEW m \in Seq(Extent), NEW r \in Extent, NEW gap
    PROVE  JoinedTo(m, r, gap) \in Seq(Extent) /\ JoinedTouching(m, r) \in Seq(Extent)
    BY WidenedTypes, AppendProperties DEF JoinedTo, JoinedTouching

\* What the recursion of a merge comes to.
Merging(f, s, gap) ==
    f[0] = <<>> /\ \A k \in 1..Len(s) : f[k] = JoinedTo(f[k - 1], s[k], gap)
MergingTouching(f, s) ==
    f[0] = <<>> /\ \A k \in 1..Len(s) : f[k] = JoinedTouching(f[k - 1], s[k])

LEMMA MergingExists ==
    ASSUME NEW s \in Seq(Extent), NEW gap
    PROVE  \E g \in [0..Len(s) -> Seq(Extent)] : Merging(g, s, gap)
<1> DEFINE n == Len(s)
           V == Seq(Extent)
           step == [p \in V \X (1..n) |-> JoinedTo(p[1], s[p[2]], gap)]
<1>1. n \in Nat /\ \A k \in 1..n : s[k] \in Extent
    BY LenProperties
<1> HIDE DEF n
<1>2. <<>> \in V
    OBVIOUS
<1>3. step \in [V \X (1..n) -> V]
    BY <1>1, JoinedTypes
<1>4. \A x \in V, k \in 1..n : step[<<x, k>>] = JoinedTo(x, s[k], gap)
    OBVIOUS
<1> HIDE DEF step, V
<1>5. \E g \in [0..n -> V] : RunsFrom(g, <<>>, step, n)
    BY <1>1, <1>2, <1>3, RunExists
<1>6. PICK g \in [0..n -> V] : g[0] = <<>> /\ \A k \in 1..n : g[k] = step[<<g[k - 1], k>>]
    BY <1>5 DEF RunsFrom
<1>7. \A k \in 1..n : k - 1 \in 0..n
    BY <1>1
<1>8. \A k \in 1..n : g[k] = JoinedTo(g[k - 1], s[k], gap)
    BY <1>4, <1>6, <1>7
<1>9. QED
    BY <1>6, <1>8 DEF Merging, n, V

LEMMA CoalesceMerges ==
    ASSUME NEW S, InOrder(S) \in Seq(Extent), NEW gap
    PROVE  \E f : Merging(f, InOrder(S), gap) /\ Coalesce(S, gap) = f[Len(InOrder(S))]
<1> DEFINE s == InOrder(S)
           n == Len(s)
           Body(f) == [k \in 0..n |->
                IF k = 0 THEN <<>>
                ELSE IF f[k - 1] # <<>> /\ (s[k].file = f[k - 1][Len(f[k - 1])].file
                                            /\ s[k].start <= f[k - 1][Len(f[k - 1])].end + gap)
                     THEN [f[k - 1] EXCEPT ![Len(f[k - 1])].end = Larger(@, s[k].end)]
                     ELSE Append(f[k - 1], s[k])]
           upTo == CHOOSE f : f = Body(f)
<1>1. Coalesce(S, gap) = upTo[n]
    BY DEF Coalesce, Merged
<1> HIDE DEF s
<1>2. n \in Nat /\ \A k \in 1..n : s[k] \in Extent
    BY LenProperties DEF s
<1> HIDE DEF n
<1>b. \A f : /\ DOMAIN Body(f) = 0..n /\ Body(f) = [k \in 0..n |-> Body(f)[k]]
             /\ Body(f)[0] = <<>> /\ \A k \in 1..n : Body(f)[k] = JoinedTo(f[k - 1], s[k], gap)
  <2>1. ASSUME NEW f PROVE /\ DOMAIN Body(f) = 0..n /\ Body(f) = [k \in 0..n |-> Body(f)[k]]
                           /\ Body(f)[0] = <<>>
    BY <1>2
  <2>2. ASSUME NEW f, NEW k \in 1..n PROVE Body(f)[k] = JoinedTo(f[k - 1], s[k], gap)
    BY <1>2 DEF JoinedTo, Widened, Last
  <2> HIDE DEF Body
  <2>3. QED
    BY <2>1, <2>2
<1> HIDE DEF Body
<1>4. PICK g \in [0..n -> Seq(Extent)] : Merging(g, s, gap)
    BY MergingExists DEF s, n
<1>5. g[0] = <<>> /\ \A k \in 1..n : g[k] = JoinedTo(g[k - 1], s[k], gap)
    BY <1>4 DEF Merging, n
<1>6. \E f : f = Body(f)
  <2>1. \A k \in 0..n : k = 0 \/ k \in 1..n
    BY <1>2
  <2>2. \A k \in 0..n : g[k] = Body(g)[k]
    BY <1>4, <1>5, <1>b, <2>1
  <2>3. g = [k \in 0..n |-> g[k]]
    BY <1>4
  <2>4. g = Body(g)
    BY <1>b, <2>2, <2>3
  <2>5. QED
    BY <2>4
<1>7. upTo = Body(upTo)
    BY <1>6
<1> HIDE DEF upTo
<1>8. upTo[0] = <<>> /\ \A k \in 1..n : upTo[k] = JoinedTo(upTo[k - 1], s[k], gap)
    BY <1>7, <1>b
<1>9. Merging(upTo, s, gap)
    BY <1>8 DEF Merging, n
<1>10. QED
    BY <1>1, <1>9 DEF n, s

\* s is a sequence of ranges that have bytes, one behind another.
InTurn(s) ==
    /\ s \in Seq(Extent)
    /\ \A i \in 1..Len(s) : s[i].start < s[i].end
    /\ \A i, j \in 1..Len(s) : i < j => Follows(s[i], s[j])

LEMMA TurnTypes ==
    ASSUME NEW s, InTurn(s)
    PROVE  /\ s \in Seq(Extent) /\ Len(s) \in Nat
           /\ \A i \in 1..Len(s) : /\ s[i] \in Extent /\ s[i].start < s[i].end
                                   /\ s[i].file \in Nat /\ s[i].start \in Nat /\ s[i].end \in Nat
<1>1. s \in Seq(Extent) /\ Len(s) \in Nat
    BY LenProperties DEF InTurn
<1>2. \A i \in 1..Len(s) : s[i] \in Extent
    BY <1>1
<1>3. QED
    BY <1>1, <1>2 DEF InTurn, Extent

LEMMA ApartInTurn ==
    ASSUME NEW S, Apart(S)
    PROVE  InTurn(InOrder(S)) /\ Len(InOrder(S)) = Cardinality(S) /\ Cardinality(S) \in Nat
           /\ Elements(InOrder(S)) = S
<1> DEFINE s == InOrder(S)
           n == Cardinality(S)
<1>1. /\ s \in Seq(S) /\ s \in Seq(Extent) /\ Len(s) = n /\ n \in Nat /\ Elements(s) = S
      /\ \A i, j \in 1..n : i < j => Follows(s[i], s[j])
    BY ApartInOrder
<1> HIDE DEF s, n
<1>2. \A i \in 1..n : s[i].start < s[i].end
    BY <1>1 DEF Apart
<1>3. InTurn(s)
    BY <1>1, <1>2 DEF InTurn
<1>4. QED
    BY <1>1, <1>3 DEF s, n

Separate(m, gap) ==
    \A j \in 1..(Len(m) - 1) :
        /\ Earlier(m[j], m[j + 1])
        /\ m[j].file = m[j + 1].file => m[j].end + gap < m[j + 1].start

Within(x, y) == y.file = x.file /\ y.start <= x.start /\ x.end <= y.end
HasByte(x, file, b) == x.file = file /\ x.start <= b /\ b < x.end

\* m is what the first k ranges of s are merged to.
MergeInv(m, s, k, gap) ==
    /\ m \in Seq(Extent)
    /\ k = 0 => m = <<>>
    /\ k > 0 => m # <<>> /\ Last(m).file = s[k].file /\ Last(m).end = s[k].end
    /\ \A j \in 1..Len(m) : m[j].start < m[j].end
    /\ \A i \in 1..k : \E j \in 1..Len(m) : Within(s[i], m[j])
    /\ Separate(m, gap)
    /\ \A j \in 1..Len(m), b \in Nat : HasByte(m[j], m[j].file, b) =>
          \E d \in 0..gap, i \in 1..k : HasByte(s[i], m[j].file, b - d)

LEMMA WidenInv ==
    ASSUME NEW s, InTurn(s), NEW k \in 1..Len(s), NEW gap \in Nat,
           NEW m, MergeInv(m, s, k - 1, gap),
           m # <<>>, s[k].file = Last(m).file, s[k].start <= Last(m).end + gap
    PROVE  MergeInv(Widened(m, s[k]), s, k, gap)
<1> DEFINE r == s[k]
           w == Widened(m, r)
           n == Len(m)
<1>1. /\ Len(s) \in Nat /\ r \in Extent /\ r.start < r.end
      /\ r.file \in Nat /\ r.start \in Nat /\ r.end \in Nat
    BY TurnTypes
<1>2. k - 1 \in 1..Len(s) /\ k - 1 < k /\ k - 1 > 0
    BY <1>1 DEF MergeInv
<1>3. m \in Seq(Extent) /\ Last(m).file = s[k - 1].file /\ Last(m).end = s[k - 1].end
    BY <1>2 DEF MergeInv
<1>4. Follows(s[k - 1], r)
    BY <1>2 DEF InTurn
<1>5. Last(m).file \in Nat /\ Last(m).start \in Nat /\ Last(m).end \in Nat
    BY <1>3, WidenedTypes, <1>1 DEF Extent
<1>6. Last(m).end <= r.start
    BY <1>1, <1>3, <1>4, <1>5 DEF Follows
<1>7. Larger(Last(m).end, r.end) = r.end
    BY <1>1, <1>5, <1>6 DEF Larger
<1>8. /\ w \in Seq(Extent) /\ Len(w) = n /\ n \in Nat \ {0}
      /\ \A i \in 1..(n - 1) : w[i] = m[i]
      /\ w[n].file = r.file /\ w[n].start = m[n].start /\ w[n].end = r.end
    BY <1>1, <1>3, <1>7, WidenedTypes DEF Last
<1>9. \A j \in 1..n : /\ m[j].file \in Nat /\ m[j].start \in Nat /\ m[j].end \in Nat
                      /\ m[j].start < m[j].end
  <2>1. \A j \in 1..n : m[j] \in Extent
    BY <1>3
  <2>2. \A j \in 1..n : m[j].start < m[j].end
    BY DEF MergeInv
  <2>3. QED
    BY <2>1, <2>2 DEF Extent
<1>10. m[n].file = r.file /\ m[n].end <= r.start /\ r.start <= m[n].end + gap
       /\ m[n].end = s[k - 1].end /\ s[k - 1].file = r.file
    BY <1>3, <1>6 DEF Last
<1>11. n \in 1..n /\ \A j \in 1..n : j # n => j \in 1..(n - 1)
    BY <1>8
<1> HIDE DEF r, w, n
<1>12. \A j \in 1..n : w[j].start < w[j].end
  <2>1. w[n].start < w[n].end
    <3>1. m[n].start < m[n].end /\ m[n].start \in Nat /\ m[n].end \in Nat
        BY <1>9, <1>11
    <3>2. QED
        BY <3>1, <1>1, <1>8, <1>10
  <2>2. QED
    BY <2>1, <1>8, <1>9, <1>11
<1>13. ASSUME NEW i \in 1..k PROVE \E j \in 1..n : Within(s[i], w[j])
  <2>1. CASE i = k
    <3>1. Within(r, w[n])
        BY <1>1, <1>8, <1>9, <1>10, <1>11 DEF Within
    <3>2. QED
        BY <2>1, <3>1, <1>11 DEF r
  <2>2. CASE i # k
    <3>1. i \in 1..(k - 1)
        BY <2>2
    <3>2. PICK j \in 1..n : Within(s[i], m[j])
        BY <3>1 DEF MergeInv, n
    <3>3. CASE j = n
      <4>0. s[i].end \in Nat
        BY <3>1, TurnTypes
      <4>1. /\ m[n].file = s[i].file /\ m[n].start <= s[i].start /\ s[i].end <= m[n].end
            /\ m[n].end \in Nat
        BY <3>2, <3>3, <1>9, <1>11 DEF Within
      <4>2. s[i].end <= r.end
        BY <4>0, <4>1, <1>1, <1>10
      <4>3. Within(s[i], w[n])
        BY <4>1, <4>2, <1>8, <1>10 DEF Within
      <4>4. QED
        BY <4>3, <1>11
    <3>4. CASE j # n
        BY <3>2, <3>4, <1>8, <1>11
    <3>5. QED
        BY <3>3, <3>4
  <2>3. QED
    BY <2>1, <2>2
<1>14. Separate(w, gap)
  <2> SUFFICES ASSUME NEW j \in 1..(n - 1)
               PROVE  /\ Earlier(w[j], w[j + 1])
                      /\ w[j].file = w[j + 1].file => w[j].end + gap < w[j + 1].start
    BY <1>8 DEF Separate
  <2>1. /\ Earlier(m[j], m[j + 1])
        /\ m[j].file = m[j + 1].file => m[j].end + gap < m[j + 1].start
    BY DEF MergeInv, Separate, n
  <2>2. w[j] = m[j] /\ j + 1 \in 1..n
    BY <1>8
  <2>3. w[j + 1].file = m[j + 1].file /\ w[j + 1].start = m[j + 1].start
    BY <1>8, <1>10, <1>11, <2>2
  <2>4. QED
    BY <2>1, <2>2, <2>3 DEF Earlier
<1>15. ASSUME NEW j \in 1..n, NEW b \in Nat, HasByte(w[j], w[j].file, b)
       PROVE  \E d \in 0..gap, i \in 1..k : HasByte(s[i], w[j].file, b - d)
  <2>0. \A x \in 1..n, y \in Nat : HasByte(m[x], m[x].file, y) =>
          \E d \in 0..gap, i \in 1..(k - 1) : HasByte(s[i], m[x].file, y - d)
    BY DEF MergeInv, n
  <2>1. ASSUME HasByte(m[j], m[j].file, b), m[j].file = w[j].file
        PROVE  \E d \in 0..gap, i \in 1..k : HasByte(s[i], w[j].file, b - d)
    <3>1. PICK d \in 0..gap, i \in 1..(k - 1) : HasByte(s[i], m[j].file, b - d)
        BY <2>0, <2>1
    <3>2. i \in 1..k
        BY <1>2, <3>1
    <3>3. QED
        BY <2>1, <3>1, <3>2
  <2>2. CASE j # n
    <3>1. w[j] = m[j]
        BY <2>2, <1>8, <1>11
    <3>2. QED
        BY <1>15, <2>1, <3>1
  <2>3. CASE j = n
    <3>1. w[j].file = m[j].file
        BY <2>3, <1>8, <1>10
    <3>2. m[n].start <= b /\ b < r.end
        BY <2>3, <1>8, <1>15 DEF HasByte
    <3>3. CASE b < m[n].end
      <4>1. HasByte(m[j], m[j].file, b)
        BY <2>3, <3>2, <3>3 DEF HasByte
      <4>2. QED
        BY <2>1, <3>1, <4>1
    <3>4. CASE b >= m[n].end /\ b < r.start
      <4> DEFINE d == b - m[n].end + 1
      <4>1. d \in 0..gap /\ b - d = m[n].end - 1
        <5>1. m[n].end \in Nat
            BY <1>9, <1>11
        <5>2. ASSUME NEW e \in Nat, NEW x \in Nat, b >= e, b < x, x <= e + gap
              PROVE  b - e + 1 \in 0..gap /\ b - (b - e + 1) = e - 1
            BY <5>2
        <5>3. QED
            BY <5>1, <5>2, <3>4, <1>1, <1>10
      <4>2. s[k - 1].start \in Nat /\ s[k - 1].start < s[k - 1].end /\ s[k - 1].end \in Nat
        BY <1>2, TurnTypes
      <4>3. s[k - 1].start <= m[n].end - 1 /\ m[n].end - 1 < s[k - 1].end
        BY <4>2, <1>10
      <4>4. HasByte(s[k - 1], w[j].file, b - d)
        BY <4>1, <4>3, <1>8, <1>10, <2>3 DEF HasByte
      <4>5. k - 1 \in 1..k
        BY <1>2
      <4> HIDE DEF d
      <4>6. QED
        BY <4>1, <4>4, <4>5
    <3>5. CASE b >= r.start
      <4>1. HasByte(s[k], w[j].file, b - 0)
        BY <2>3, <3>2, <3>5, <1>1, <1>8 DEF HasByte, r
      <4>2. 0 \in 0..gap /\ k \in 1..k
        OBVIOUS
      <4>3. QED
        BY <4>1, <4>2
    <3>6. QED
        BY <3>3, <3>4, <3>5, <1>1, <1>9, <1>11
  <2>4. QED
    BY <2>2, <2>3
<1>16. w # <<>> /\ Last(w).file = s[k].file /\ Last(w).end = s[k].end
    BY <1>8 DEF Last, r
<1>17. k # 0 /\ Len(w) = n
    BY <1>8
<1>18. MergeInv(w, s, k, gap)
    BY <1>8, <1>12, <1>13, <1>14, <1>15, <1>16, <1>17 DEF MergeInv
<1>19. QED
    BY <1>18 DEF w, r

LEMMA AppendInv ==
    ASSUME NEW s, InTurn(s), NEW k \in 1..Len(s), NEW gap \in Nat,
           NEW m, MergeInv(m, s, k - 1, gap),
           m # <<>> => s[k].file # Last(m).file \/ s[k].start > Last(m).end + gap
    PROVE  MergeInv(Append(m, s[k]), s, k, gap)
<1> DEFINE r == s[k]
           w == Append(m, r)
           n == Len(m)
<1>1. /\ Len(s) \in Nat /\ r \in Extent /\ r.start < r.end
      /\ r.file \in Nat /\ r.start \in Nat /\ r.end \in Nat
    BY TurnTypes
<1>2. m \in Seq(Extent) /\ n \in Nat
    BY LenProperties DEF MergeInv
<1>3. /\ w \in Seq(Extent) /\ Len(w) = n + 1 /\ w[n + 1] = r
      /\ \A j \in 1..n : w[j] = m[j]
    BY <1>1, <1>2, AppendProperties
<1>4. n > 0 => m # <<>> /\ k > 1
  <2>1. n > 0 => m # <<>>
    BY <1>2, EmptySeq
  <2>2. m # <<>> => k - 1 # 0
    BY DEF MergeInv
  <2>3. QED
    BY <2>1, <2>2, <1>1
<1>5. ASSUME n > 0
      PROVE  /\ m[n] \in Extent /\ m[n].file = s[k - 1].file /\ m[n].end = s[k - 1].end
             /\ m[n].start < m[n].end
             /\ k - 1 \in 1..Len(s) /\ Follows(s[k - 1], r)
             /\ r.file # m[n].file \/ r.start > m[n].end + gap
  <2>1. k - 1 > 0 /\ k - 1 \in 1..Len(s) /\ k - 1 < k
    BY <1>1, <1>4, <1>5
  <2>2. n \in 1..n
    BY <1>2, <1>5
  <2>3. m[n] \in Extent /\ m[n].start < m[n].end
    BY <1>2, <2>2 DEF MergeInv
  <2>4. m[n].file = s[k - 1].file /\ m[n].end = s[k - 1].end
    BY <2>1 DEF MergeInv, Last
  <2>5. QED
    BY <1>4, <1>5, <2>1, <2>3, <2>4 DEF InTurn, Last
<1> HIDE DEF r, w, n
<1>6. \A j \in 1..(n + 1) : j # n + 1 => j \in 1..n
    BY <1>2
<1>7. \A j \in 1..(n + 1) : w[j].start < w[j].end
  <2>1. \A j \in 1..n : m[j].start < m[j].end
    BY DEF MergeInv, n
  <2>2. QED
    BY <1>1, <1>3, <1>6, <2>1
<1>8. n + 1 \in 1..(n + 1) /\ \A j \in 1..n : j \in 1..(n + 1)
    BY <1>2
<1>9. ASSUME NEW i \in 1..k PROVE \E j \in 1..(n + 1) : Within(s[i], w[j])
  <2>1. CASE i = k
    <3>1. Within(s[k], w[n + 1])
        BY <1>1, <1>3 DEF Within, r
    <3>2. QED
        BY <2>1, <3>1, <1>8
  <2>2. CASE i # k
    <3>1. i \in 1..(k - 1)
        BY <2>2
    <3>2. PICK j \in 1..n : Within(s[i], m[j])
        BY <3>1 DEF MergeInv, n
    <3>3. QED
        BY <3>2, <1>3, <1>8
  <2>3. QED
    BY <2>1, <2>2
<1>10. Separate(w, gap)
  <2> SUFFICES ASSUME NEW j \in 1..n
               PROVE  /\ Earlier(w[j], w[j + 1])
                      /\ w[j].file = w[j + 1].file => w[j].end + gap < w[j + 1].start
    BY <1>2, <1>3 DEF Separate
  <2>1. CASE j = n
    <3>1. n > 0
        BY <2>1
    <3>2. w[j] = m[n] /\ w[j + 1] = r
        BY <2>1, <1>3
    <3>3. /\ m[n].file \in Nat /\ m[n].start \in Nat /\ m[n].end \in Nat
        BY <1>5, <3>1 DEF Extent
    <3>4. /\ m[n].file = s[k - 1].file /\ m[n].end = s[k - 1].end /\ m[n].start < m[n].end
          /\ Follows(s[k - 1], r) /\ (r.file # m[n].file \/ r.start > m[n].end + gap)
        BY <1>5, <3>1
    <3>5. Earlier(m[n], r)
        BY <1>1, <3>3, <3>4 DEF Earlier, Follows
    <3>6. m[n].file = r.file => m[n].end + gap < r.start
        BY <1>1, <3>3, <3>4
    <3>7. QED
        BY <3>2, <3>5, <3>6
  <2>2. CASE j # n
    <3>1. j \in 1..(n - 1) /\ j + 1 \in 1..n
        BY <2>2, <1>2
    <3>2. /\ Earlier(m[j], m[j + 1])
          /\ m[j].file = m[j + 1].file => m[j].end + gap < m[j + 1].start
        BY <3>1 DEF MergeInv, Separate, n
    <3>3. QED
        BY <3>1, <3>2, <1>3
  <2>3. QED
    BY <2>1, <2>2
<1>11. ASSUME NEW j \in 1..(n + 1), NEW b \in Nat, HasByte(w[j], w[j].file, b)
       PROVE  \E d \in 0..gap, i \in 1..k : HasByte(s[i], w[j].file, b - d)
  <2>1. CASE j = n + 1
    <3>1. HasByte(s[k], w[j].file, b - 0)
        BY <1>3, <1>11, <2>1 DEF HasByte, r
    <3>2. 0 \in 0..gap /\ k \in 1..k
        OBVIOUS
    <3>3. QED
        BY <3>1, <3>2
  <2>2. CASE j # n + 1
    <3>1. j \in 1..n /\ w[j] = m[j]
        BY <2>2, <1>3, <1>6
    <3>2. PICK d \in 0..gap, i \in 1..(k - 1) : HasByte(s[i], m[j].file, b - d)
        BY <3>1, <1>11 DEF MergeInv, n
    <3>3. i \in 1..k
        BY <3>2, <1>1
    <3>4. QED
        BY <3>1, <3>2, <3>3
  <2>3. QED
    BY <2>1, <2>2
<1>12. w # <<>> /\ Last(w).file = s[k].file /\ Last(w).end = s[k].end
  <2>1. w # <<>>
    BY <1>2, <1>3
  <2>2. QED
    BY <2>1, <1>3 DEF Last, r
<1>13. MergeInv(w, s, k, gap)
    BY <1>3, <1>7, <1>9, <1>10, <1>11, <1>12 DEF MergeInv
<1>14. QED
    BY <1>13 DEF w, r

LEMMA MergingHolds ==
    ASSUME NEW s, InTurn(s), NEW gap \in Nat, NEW f, Merging(f, s, gap)
    PROVE  \A k \in 0..Len(s) : MergeInv(f[k], s, k, gap)
<1> DEFINE n == Len(s)
           P == {k \in 0..n : MergeInv(f[k], s, k, gap)}
<1>1. s \in Seq(Extent) /\ n \in Nat /\ \A k \in 1..n : s[k] \in Extent
    BY TurnTypes
<1>2. MergeInv(<<>>, s, 0, gap)
    BY DEF MergeInv, Separate
<1>3. 0 \in P
    BY <1>1, <1>2 DEF Merging
<1>4. ASSUME NEW k \in 1..n, k - 1 \in P PROVE k \in P
  <2>1. MergeInv(f[k - 1], s, k - 1, gap)
    BY <1>4
  <2>2. f[k] = JoinedTo(f[k - 1], s[k], gap)
    BY DEF Merging
  <2>3. CASE f[k - 1] # <<>> /\ s[k].file = Last(f[k - 1]).file /\ s[k].start <= Last(f[k - 1]).end + gap
    <3>1. MergeInv(Widened(f[k - 1], s[k]), s, k, gap)
        BY <2>1, <2>3, WidenInv
    <3>2. QED
        BY <2>2, <2>3, <3>1, <1>1 DEF JoinedTo
  <2>4. CASE ~(f[k - 1] # <<>> /\ s[k].file = Last(f[k - 1]).file /\ s[k].start <= Last(f[k - 1]).end + gap)
    <3>1. f[k - 1] # <<>> => s[k].file # Last(f[k - 1]).file \/ s[k].start > Last(f[k - 1]).end + gap
      <4>1. ASSUME f[k - 1] # <<>> PROVE Last(f[k - 1]).end \in Nat /\ s[k].start \in Nat
        <5>1. f[k - 1] \in Seq(Extent)
            BY <2>1 DEF MergeInv
        <5>2. Last(f[k - 1]) \in Extent
            BY <5>1, <4>1, <1>1, WidenedTypes
        <5>3. QED
            BY <5>2, <1>1 DEF Extent
      <4>2. QED
        BY <2>4, <4>1
    <3>2. MergeInv(Append(f[k - 1], s[k]), s, k, gap)
        BY <2>1, <3>1, AppendInv
    <3>3. QED
        BY <2>2, <2>4, <3>2, <1>1 DEF JoinedTo
  <2>5. QED
    BY <2>3, <2>4
<1>5. P \in SUBSET (0..n)
    OBVIOUS
<1> HIDE DEF P
<1>6. \A k \in 0..n : k \in P
    BY <1>1, <1>3, <1>4, <1>5, UpToAll
<1>7. QED
    BY <1>6 DEF P

LEMMA ElementsOf ==
    ASSUME NEW V, NEW s \in Seq(V)
    PROVE  Elements(s) = {s[i] : i \in 1..Len(s)} /\ Len(s) \in Nat
<1>1. DOMAIN s = 1..Len(s) /\ Len(s) \in Nat
    BY LenProperties
<1>2. QED
    BY <1>1 DEF Elements

LEMMA CoalescedHolds ==
    ASSUME NEW S, Apart(S), NEW gap \in Nat
    PROVE  /\ MergeInv(Coalesce(S, gap), InOrder(S), Cardinality(S), gap)
           /\ Cardinality(S) \in Nat
<1>1. /\ InTurn(InOrder(S)) /\ Len(InOrder(S)) = Cardinality(S) /\ Cardinality(S) \in Nat
      /\ InOrder(S) \in Seq(Extent)
    BY ApartInTurn DEF InTurn
<1>2. PICK f : Merging(f, InOrder(S), gap) /\ Coalesce(S, gap) = f[Len(InOrder(S))]
    BY <1>1, CoalesceMerges
<1>3. MergeInv(f[Cardinality(S)], InOrder(S), Cardinality(S), gap)
    BY <1>1, <1>2, MergingHolds
<1>4. QED
    BY <1>1, <1>2, <1>3

LEMMA CoalesceCovers ==
    ASSUME NEW S, Apart(S), NEW gap \in Nat
    PROVE  /\ Coalesce(S, gap) \in Seq(Extent)
           /\ Len(Coalesce(S, gap)) \in Nat
           /\ S # {} => Coalesce(S, gap) # <<>>
           /\ \A j \in 1..Len(Coalesce(S, gap)) : Coalesce(S, gap)[j].start < Coalesce(S, gap)[j].end
           /\ Bytes(S) \subseteq Bytes(Elements(Coalesce(S, gap)))
           /\ Separate(Coalesce(S, gap), gap)
           /\ \A b \in Bytes(Elements(Coalesce(S, gap))) :
                 \E k \in 0..gap : <<b[1], b[2] - k>> \in Bytes(S)
<1> DEFINE s == InOrder(S)
           n == Cardinality(S)
           m == Coalesce(S, gap)
<1>1. /\ InTurn(s) /\ Len(s) = n /\ n \in Nat /\ Elements(s) = S
    BY ApartInTurn
<1>2. MergeInv(m, s, n, gap)
    BY CoalescedHolds
<1> HIDE DEF s, n, m
<1>3. S = {s[i] : i \in 1..n}
  <2>1. s \in Seq(Extent)
    BY <1>1, TurnTypes
  <2>2. QED
    BY <1>1, <2>1, ElementsOf
<1>4. m \in Seq(Extent) /\ Len(m) \in Nat
    BY <1>2, LenProperties DEF MergeInv
<1>5. Elements(m) = {m[j] : j \in 1..Len(m)}
    BY <1>4, ElementsOf
<1>6. S # {} => m # <<>>
  <2>1. S # {} => n > 0
    BY <1>1, <1>3
  <2>2. QED
    BY <2>1, <1>2 DEF MergeInv
<1>7. \A j \in 1..Len(m) : m[j].start < m[j].end
    BY <1>2 DEF MergeInv
<1>8. \A x \in S : x.file \in Nat /\ x.start \in Nat /\ x.end \in Nat
    BY DEF Apart, Extent
<1>9. ASSUME NEW b \in Bytes(S) PROVE b \in Bytes(Elements(m))
  <2>1. PICK x \in S : b \in {<<x.file, c>> : c \in x.start..(x.end - 1)}
    BY DEF Bytes
  <2>2. PICK c \in x.start..(x.end - 1) : b = <<x.file, c>>
    BY <2>1
  <2>3. PICK i \in 1..n : x = s[i]
    BY <1>3
  <2>4. PICK j \in 1..Len(m) : Within(s[i], m[j])
    BY <1>2 DEF MergeInv
  <2>5. m[j] \in Extent /\ m[j] \in Elements(m)
    BY <1>4, <1>5
  <2>6. m[j].start \in Nat /\ m[j].end \in Nat
    BY <2>5 DEF Extent
  <2>7. c \in m[j].start..(m[j].end - 1) /\ b = <<m[j].file, c>>
    <3>1. x.start \in Nat /\ x.end \in Nat
        BY <1>8
    <3>2. m[j].file = x.file /\ m[j].start <= x.start /\ x.end <= m[j].end
        BY <2>3, <2>4 DEF Within
    <3>3. c \in m[j].start..(m[j].end - 1)
        BY <2>2, <2>6, <3>1, <3>2
    <3>4. QED
        BY <2>2, <3>2, <3>3
  <2>8. QED
    BY <2>5, <2>7 DEF Bytes
<1>10. ASSUME NEW b \in Bytes(Elements(m))
       PROVE  \E k \in 0..gap : <<b[1], b[2] - k>> \in Bytes(S)
  <2>1. PICK x \in Elements(m) : b \in {<<x.file, c>> : c \in x.start..(x.end - 1)}
    BY DEF Bytes
  <2>2. PICK c \in x.start..(x.end - 1) : b = <<x.file, c>>
    BY <2>1
  <2>3. PICK j \in 1..Len(m) : x = m[j]
    BY <1>5
  <2>4. m[j] \in Extent
    BY <1>4
  <2>5. m[j].start \in Nat /\ m[j].end \in Nat
    BY <2>4 DEF Extent
  <2>6. c \in Nat /\ HasByte(m[j], m[j].file, c)
    BY <2>2, <2>3, <2>5 DEF HasByte
  <2>7. PICK d \in 0..gap, i \in 1..n : HasByte(s[i], m[j].file, c - d)
    BY <2>6, <1>2 DEF MergeInv
  <2>8. s[i] \in S
    BY <1>3
  <2>9. c - d \in s[i].start..(s[i].end - 1) /\ s[i].file = m[j].file
    BY <2>6, <2>7, <2>8, <1>8 DEF HasByte
  <2>10. <<m[j].file, c - d>> \in Bytes(S)
    BY <2>8, <2>9 DEF Bytes
  <2>11. b[1] = m[j].file /\ b[2] = c
    BY <2>2, <2>3
  <2>12. QED
    BY <2>7, <2>10, <2>11
<1>11. Separate(m, gap)
    BY <1>2 DEF MergeInv
<1>12. QED
    BY <1>4, <1>6, <1>7, <1>9, <1>10, <1>11 DEF m

LEMMA MergingTouchingExists ==
    ASSUME NEW s \in Seq(Extent)
    PROVE  \E g \in [0..Len(s) -> Seq(Extent)] : MergingTouching(g, s)
<1> DEFINE n == Len(s)
           V == Seq(Extent)
           step == [p \in V \X (1..n) |-> JoinedTouching(p[1], s[p[2]])]
<1>1. n \in Nat /\ \A k \in 1..n : s[k] \in Extent
    BY LenProperties
<1> HIDE DEF n
<1>2. <<>> \in V
    OBVIOUS
<1>3. step \in [V \X (1..n) -> V]
    BY <1>1, JoinedTypes
<1>4. \A x \in V, k \in 1..n : step[<<x, k>>] = JoinedTouching(x, s[k])
    OBVIOUS
<1> HIDE DEF step, V
<1>5. \E g \in [0..n -> V] : RunsFrom(g, <<>>, step, n)
    BY <1>1, <1>2, <1>3, RunExists
<1>6. PICK g \in [0..n -> V] : g[0] = <<>> /\ \A k \in 1..n : g[k] = step[<<g[k - 1], k>>]
    BY <1>5 DEF RunsFrom
<1>7. \A k \in 1..n : k - 1 \in 0..n
    BY <1>1
<1>8. \A k \in 1..n : g[k] = JoinedTouching(g[k - 1], s[k])
    BY <1>4, <1>6, <1>7
<1>9. QED
    BY <1>6, <1>8 DEF MergingTouching, n, V

LEMMA CoalesceTouchingMerges ==
    ASSUME NEW S, InOrder(S) \in Seq(Extent)
    PROVE  \E f : MergingTouching(f, InOrder(S)) /\ CoalesceTouching(S) = f[Len(InOrder(S))]
<1> DEFINE s == InOrder(S)
           n == Len(s)
           Body(f) == [k \in 0..n |->
                IF k = 0 THEN <<>>
                ELSE IF f[k - 1] # <<>> /\ (s[k].file = f[k - 1][Len(f[k - 1])].file
                                            /\ f[k - 1][Len(f[k - 1])].end = s[k].start)
                     THEN [f[k - 1] EXCEPT ![Len(f[k - 1])].end = Larger(@, s[k].end)]
                     ELSE Append(f[k - 1], s[k])]
           upTo == CHOOSE f : f = Body(f)
<1>1. CoalesceTouching(S) = upTo[n]
    BY DEF CoalesceTouching, Merged
<1> HIDE DEF s
<1>2. n \in Nat
    BY LenProperties DEF s
<1> HIDE DEF n
<1>3. \A f : /\ DOMAIN Body(f) = 0..n /\ Body(f) = [k \in 0..n |-> Body(f)[k]]
             /\ Body(f)[0] = <<>> /\ \A k \in 1..n : Body(f)[k] = JoinedTouching(f[k - 1], s[k])
  <2>1. ASSUME NEW f PROVE /\ DOMAIN Body(f) = 0..n /\ Body(f) = [k \in 0..n |-> Body(f)[k]]
                           /\ Body(f)[0] = <<>>
    BY <1>2
  <2>2. ASSUME NEW f, NEW k \in 1..n PROVE Body(f)[k] = JoinedTouching(f[k - 1], s[k])
    BY <1>2 DEF JoinedTouching, Widened, Last
  <2> HIDE DEF Body
  <2>3. QED
    BY <2>1, <2>2
<1> HIDE DEF Body
<1>4. PICK g \in [0..n -> Seq(Extent)] : MergingTouching(g, s)
    BY MergingTouchingExists DEF s, n
<1>5. g[0] = <<>> /\ \A k \in 1..n : g[k] = JoinedTouching(g[k - 1], s[k])
    BY <1>4 DEF MergingTouching, n
<1>6. \E f : f = Body(f)
  <2>1. \A k \in 0..n : k = 0 \/ k \in 1..n
    BY <1>2
  <2>2. \A k \in 0..n : g[k] = Body(g)[k]
    BY <1>5, <1>3, <2>1
  <2>3. g = [k \in 0..n |-> g[k]]
    BY <1>4
  <2>4. g = Body(g)
    BY <1>3, <2>2, <2>3
  <2>5. QED
    BY <2>4
<1>7. upTo = Body(upTo)
    BY <1>6
<1> HIDE DEF upTo
<1>8. upTo[0] = <<>> /\ \A k \in 1..n : upTo[k] = JoinedTouching(upTo[k - 1], s[k])
    BY <1>7, <1>3
<1>9. MergingTouching(upTo, s)
    BY <1>8 DEF MergingTouching, n
<1>10. QED
    BY <1>1, <1>9 DEF n, s

\* Without gaps, ranges that are in turn are merged where they touch.
LEMMA TouchingAgrees ==
    ASSUME NEW s, InTurn(s), NEW k \in 1..Len(s), NEW m, MergeInv(m, s, k - 1, 0)
    PROVE  JoinedTo(m, s[k], 0) = JoinedTouching(m, s[k])
<1>1. ASSUME m # <<>>, s[k].file = Last(m).file
      PROVE  s[k].start <= Last(m).end + 0 <=> Last(m).end = s[k].start
  <2>1. k - 1 # 0 /\ k \in Nat /\ Len(s) \in Nat
    BY <1>1, TurnTypes DEF MergeInv
  <2>2. k - 1 \in 1..Len(s) /\ k - 1 < k /\ k - 1 > 0
    BY <2>1
  <2>3. Last(m).file = s[k - 1].file /\ Last(m).end = s[k - 1].end
    BY <2>2 DEF MergeInv
  <2>4. Follows(s[k - 1], s[k])
    BY <2>2 DEF InTurn
  <2>5. s[k - 1].end \in Nat /\ s[k].start \in Nat /\ s[k].file \in Nat
    BY <2>2, TurnTypes
  <2>6. s[k - 1].end <= s[k].start
    BY <1>1, <2>3, <2>4, <2>5 DEF Follows
  <2>7. QED
    BY <2>3, <2>5, <2>6
<1>2. QED
    BY <1>1 DEF JoinedTo, JoinedTouching

LEMMA CoalesceZero ==
    ASSUME NEW S, Apart(S)
    PROVE  Coalesce(S, 0) = CoalesceTouching(S)
<1> DEFINE s == InOrder(S)
           n == Len(s)
<1>1. InTurn(s) /\ s \in Seq(Extent)
    BY ApartInTurn DEF InTurn
<1>2. PICK f : Merging(f, s, 0) /\ Coalesce(S, 0) = f[n]
    BY <1>1, CoalesceMerges
<1>3. PICK g : MergingTouching(g, s) /\ CoalesceTouching(S) = g[n]
    BY <1>1, CoalesceTouchingMerges
<1> HIDE DEF s
<1> DEFINE P == {k \in 0..n : f[k] = g[k]}
<1>4. n \in Nat
    BY <1>1, TurnTypes
<1>5. \A k \in 0..n : MergeInv(f[k], s, k, 0)
    BY <1>1, <1>2, MergingHolds
<1>6. 0 \in P
    BY <1>2, <1>3, <1>4 DEF Merging, MergingTouching
<1>7. ASSUME NEW k \in 1..n, k - 1 \in P PROVE k \in P
  <2>1. k \in 0..n /\ k - 1 \in 0..n /\ f[k - 1] = g[k - 1]
    BY <1>7, <1>4
  <2>2. MergeInv(f[k - 1], s, k - 1, 0)
    BY <1>5, <2>1
  <2>3. JoinedTo(f[k - 1], s[k], 0) = JoinedTouching(f[k - 1], s[k])
    BY <1>1, <2>2, TouchingAgrees
  <2>4. f[k] = JoinedTo(f[k - 1], s[k], 0) /\ g[k] = JoinedTouching(g[k - 1], s[k])
    BY <1>2, <1>3 DEF Merging, MergingTouching
  <2>5. QED
    BY <2>1, <2>3, <2>4
<1>8. P \in SUBSET (0..n)
    OBVIOUS
<1> HIDE DEF P
<1>9. \A k \in 0..n : k \in P
    BY <1>4, <1>6, <1>7, <1>8, UpToAll
<1>10. n \in P
    BY <1>4, <1>9
<1>11. QED
    BY <1>2, <1>3, <1>10 DEF P

-----------------------------------------------------------------------------
(* Runs *)

FilesTo(s, k) == {s[i].file : i \in 1..k}
BreaksTo(s, k) == {i \in 1..(k - 1) : s[i].file = s[i + 1].file /\ s[i].end # s[i + 1].start}

LEMMA FilesGrow ==
    ASSUME NEW s, InTurn(s), NEW k \in 1..Len(s)
    PROVE  /\ IsFiniteSet(FilesTo(s, k - 1)) /\ Cardinality(FilesTo(s, k - 1)) \in Nat
           /\ Cardinality(FilesTo(s, k)) =
                 IF k > 1 /\ s[k - 1].file = s[k].file
                 THEN Cardinality(FilesTo(s, k - 1)) ELSE Cardinality(FilesTo(s, k - 1)) + 1
<1>1. Len(s) \in Nat /\ \A i \in 1..Len(s) : s[i].file \in Nat
    BY TurnTypes
<1>2. IsFiniteSet(FilesTo(s, k - 1)) /\ Cardinality(FilesTo(s, k - 1)) \in Nat
  <2>1. IsFiniteSet(1..(k - 1))
    BY <1>1, FS_Interval
  <2> DEFINE f == [i \in 1..(k - 1) |-> s[i].file]
  <2>a. f \in Surjection(1..(k - 1), {s[i].file : i \in 1..(k - 1)})
    BY DEF Surjection
  <2>2. IsFiniteSet({s[i].file : i \in 1..(k - 1)})
    BY <2>1, <2>a, FS_Surjection
  <2>3. QED
    BY <2>2, FS_CardinalityType DEF FilesTo
<1>3. FilesTo(s, k) = FilesTo(s, k - 1) \cup {s[k].file}
    BY <1>1 DEF FilesTo
<1>4. CASE k > 1 /\ s[k - 1].file = s[k].file
  <2>1. s[k].file \in FilesTo(s, k - 1)
    BY <1>1, <1>4 DEF FilesTo
  <2>2. FilesTo(s, k) = FilesTo(s, k - 1)
    BY <1>3, <2>1
  <2>3. QED
    BY <1>2, <1>4, <2>2
<1>5. CASE ~(k > 1 /\ s[k - 1].file = s[k].file)
  <2>1. ASSUME NEW i \in 1..(k - 1) PROVE s[i].file # s[k].file
    <3>1. k - 1 \in 1..Len(s) /\ i \in 1..Len(s) /\ k > 1 /\ i < k /\ k - 1 < k
        BY <1>1
    <3>2. s[k - 1].file # s[k].file
        BY <1>5, <3>1
    <3>3. Follows(s[k - 1], s[k])
        BY <3>1 DEF InTurn
    <3>4. s[k - 1].file < s[k].file
        BY <3>2, <3>3 DEF Follows
    <3>5. s[i].file <= s[k - 1].file
      <4>1. CASE i = k - 1
        BY <4>1, <1>1, <3>1
      <4>2. CASE i < k - 1
        <5>1. Follows(s[i], s[k - 1])
            BY <4>2, <3>1 DEF InTurn
        <5>2. QED
            BY <5>1, <1>1, <3>1 DEF Follows
      <4>3. QED
        BY <4>1, <4>2, <3>1
    <3>6. QED
        BY <3>1, <3>4, <3>5, <1>1
  <2>2. s[k].file \notin FilesTo(s, k - 1)
    BY <2>1 DEF FilesTo
  <2>3. Cardinality(FilesTo(s, k - 1) \cup {s[k].file}) = Cardinality(FilesTo(s, k - 1)) + 1
    BY <1>2, <2>2, FS_AddElement
  <2>4. QED
    BY <1>2, <1>3, <1>5, <2>3
<1>6. QED
    BY <1>2, <1>4, <1>5

LEMMA BreaksGrow ==
    ASSUME NEW s, InTurn(s), NEW k \in 1..Len(s)
    PROVE  /\ IsFiniteSet(BreaksTo(s, k - 1)) /\ Cardinality(BreaksTo(s, k - 1)) \in Nat
           /\ Cardinality(BreaksTo(s, k)) =
                 IF k > 1 /\ s[k - 1].file = s[k].file /\ s[k - 1].end # s[k].start
                 THEN Cardinality(BreaksTo(s, k - 1)) + 1 ELSE Cardinality(BreaksTo(s, k - 1))
<1>1. Len(s) \in Nat
    BY TurnTypes
<1>2. IsFiniteSet(BreaksTo(s, k - 1)) /\ Cardinality(BreaksTo(s, k - 1)) \in Nat
  <2>1. IsFiniteSet(1..(k - 1 - 1))
    BY <1>1, FS_Interval
  <2>2. BreaksTo(s, k - 1) \subseteq 1..(k - 1 - 1)
    BY DEF BreaksTo
  <2>3. QED
    BY <2>1, <2>2, FS_Subset, FS_CardinalityType
<1>3. CASE k > 1 /\ s[k - 1].file = s[k].file /\ s[k - 1].end # s[k].start
  <2>1. BreaksTo(s, k) = BreaksTo(s, k - 1) \cup {k - 1}
    BY <1>1, <1>3 DEF BreaksTo
  <2>2. k - 1 \notin BreaksTo(s, k - 1)
    BY <1>1 DEF BreaksTo
  <2>3. QED
    BY <1>2, <1>3, <2>1, <2>2, FS_AddElement
<1>4. CASE ~(k > 1 /\ s[k - 1].file = s[k].file /\ s[k - 1].end # s[k].start)
  <2>1. BreaksTo(s, k) = BreaksTo(s, k - 1)
    BY <1>1, <1>4 DEF BreaksTo
  <2>2. QED
    BY <1>2, <1>4, <2>1
<1>5. QED
    BY <1>2, <1>3, <1>4

\* A merge without gaps has one range for each file, and one for each break.
LEMMA MergedCounts ==
    ASSUME NEW s, InTurn(s), NEW f, Merging(f, s, 0)
    PROVE  \A k \in 0..Len(s) :
              Len(f[k]) = Cardinality(FilesTo(s, k)) + Cardinality(BreaksTo(s, k))
<1> DEFINE n == Len(s)
           P == {k \in 0..n : Len(f[k]) = Cardinality(FilesTo(s, k)) + Cardinality(BreaksTo(s, k))}
<1>1. n \in Nat /\ \A i \in 1..n : s[i] \in Extent
    BY TurnTypes
<1>2. \A k \in 0..n : MergeInv(f[k], s, k, 0)
    BY MergingHolds
<1>3. 0 \in P
  <2>1. FilesTo(s, 0) = {} /\ BreaksTo(s, 0) = {}
    BY DEF FilesTo, BreaksTo
  <2>2. Cardinality({}) = 0
    BY FS_EmptySet
  <2>3. Len(f[0]) = 0
    BY DEF Merging
  <2>4. QED
    BY <1>1, <2>1, <2>2, <2>3
<1>4. ASSUME NEW k \in 1..n, k - 1 \in P PROVE k \in P
  <2> DEFINE m == f[k - 1]
             r == s[k]
             files == Cardinality(FilesTo(s, k - 1))
             breaks == Cardinality(BreaksTo(s, k - 1))
  <2>1. MergeInv(m, s, k - 1, 0) /\ Len(m) = files + breaks /\ k - 1 \in 0..n /\ k \in 0..n
    BY <1>1, <1>2, <1>4
  <2>2. f[k] = JoinedTouching(m, r)
    BY <2>1, TouchingAgrees DEF Merging
  <2>3. files \in Nat /\ breaks \in Nat
    BY FilesGrow, BreaksGrow
  <2>4. Cardinality(FilesTo(s, k)) = IF k > 1 /\ s[k - 1].file = r.file THEN files ELSE files + 1
    BY FilesGrow
  <2>5. Cardinality(BreaksTo(s, k)) =
            IF k > 1 /\ s[k - 1].file = r.file /\ s[k - 1].end # r.start THEN breaks + 1 ELSE breaks
    BY BreaksGrow
  <2>6. m # <<>> <=> k > 1
    BY <2>1, <1>1 DEF MergeInv
  <2>7. k > 1 => Last(m).file = s[k - 1].file /\ Last(m).end = s[k - 1].end
    BY <2>1, <1>1 DEF MergeInv
  <2>8. m \in Seq(Extent) /\ r \in Extent
    BY <2>1, <1>1 DEF MergeInv
  <2> HIDE DEF m, r, files, breaks
  <2>9. CASE m # <<>> /\ r.file = Last(m).file /\ Last(m).end = r.start
    <3>1. f[k] = Widened(m, r)
        BY <2>2, <2>9 DEF JoinedTouching
    <3>2. Len(f[k]) = files + breaks
        BY <2>1, <2>8, <2>9, <3>1, WidenedTypes
    <3>3. Cardinality(FilesTo(s, k)) = files /\ Cardinality(BreaksTo(s, k)) = breaks
        BY <2>4, <2>5, <2>6, <2>7, <2>9
    <3>4. QED
        BY <2>1, <3>2, <3>3
  <2>10. CASE ~(m # <<>> /\ r.file = Last(m).file /\ Last(m).end = r.start)
    <3>1. f[k] = Append(m, r)
        BY <2>2, <2>10 DEF JoinedTouching
    <3>2. Len(f[k]) = files + breaks + 1
        BY <2>1, <2>8, <3>1, AppendProperties
    <3>3. Cardinality(FilesTo(s, k)) + Cardinality(BreaksTo(s, k)) = files + breaks + 1
      <4>1. CASE k > 1 /\ s[k - 1].file = r.file
        <5>1. s[k - 1].end # r.start
            BY <4>1, <2>6, <2>7, <2>10
        <5>2. Cardinality(FilesTo(s, k)) = files /\ Cardinality(BreaksTo(s, k)) = breaks + 1
            BY <4>1, <5>1, <2>4, <2>5
        <5>3. QED
            BY <5>2, <2>3
      <4>2. CASE ~(k > 1 /\ s[k - 1].file = r.file)
        <5>1. Cardinality(FilesTo(s, k)) = files + 1 /\ Cardinality(BreaksTo(s, k)) = breaks
            BY <4>2, <2>4, <2>5
        <5>2. QED
            BY <5>1, <2>3
      <4>3. QED
        BY <4>1, <4>2
    <3>4. QED
        BY <2>1, <3>2, <3>3
  <2>11. QED
    BY <2>9, <2>10
<1>5. P \in SUBSET (0..n)
    OBVIOUS
<1> HIDE DEF P
<1>6. \A k \in 0..n : k \in P
    BY <1>1, <1>3, <1>4, <1>5, UpToAll
<1>7. QED
    BY <1>6 DEF P

LEMMA CoalesceCounts ==
    ASSUME NEW S, Apart(S)
    PROVE  Len(Coalesce(S, 0)) = ContiguousRuns(S)
<1> DEFINE s == InOrder(S)
           n == Len(s)
<1>1. InTurn(s) /\ s \in Seq(Extent) /\ Elements(s) = S /\ n \in Nat
    BY ApartInTurn, TurnTypes
<1>2. PICK f : Merging(f, s, 0) /\ Coalesce(S, 0) = f[n]
    BY <1>1, CoalesceMerges
<1>3. S = {s[i] : i \in 1..n}
    BY <1>1, ElementsOf
<1>4. ContiguousRuns(S) = Cardinality({x.file : x \in S})
        + Cardinality({i \in 1..(n - 1) : s[i].file = s[i + 1].file /\ s[i].end # s[i + 1].start})
    BY DEF ContiguousRuns
<1> HIDE DEF s, n
<1>5. {x.file : x \in S} = FilesTo(s, n)
    BY <1>3 DEF FilesTo
<1>6. ContiguousRuns(S) = Cardinality(FilesTo(s, n)) + Cardinality(BreaksTo(s, n))
    BY <1>4, <1>5 DEF BreaksTo
<1>7. \A k \in 0..n : Len(f[k]) = Cardinality(FilesTo(s, k)) + Cardinality(BreaksTo(s, k))
    BY <1>1, <1>2, MergedCounts DEF n
<1>8. n \in 0..n
    BY <1>1
<1>9. QED
    BY <1>2, <1>6, <1>7, <1>8

-----------------------------------------------------------------------------
(* Sequences of bytes *)

Concats(f, q) == f[0] = <<>> /\ \A k \in 1..Len(q) : f[k] = f[k - 1] \o q[k]

LEMMA ConcatRuns ==
    ASSUME NEW V, NEW q \in Seq(Seq(V))
    PROVE  \E f \in [0..Len(q) -> Seq(V)] : Concats(f, q) /\ Concat(q) = f[Len(q)]
<1> DEFINE n == Len(q)
           W == Seq(V)
           step == [p \in W \X (1..n) |-> p[1] \o q[p[2]]]
           Body(f) == [k \in 0..n |-> IF k = 0 THEN <<>> ELSE f[k - 1] \o q[k]]
           upTo == CHOOSE f : f = Body(f)
<1>1. Concat(q) = upTo[n]
    BY DEF Concat
<1>2. n \in Nat /\ \A k \in 1..n : q[k] \in W
    BY LenProperties
<1> HIDE DEF n
<1>3. <<>> \in W
    OBVIOUS
<1>4. \A x \in W, y \in W : x \o y \in W
    BY ConcatProperties
<1> HIDE DEF W
<1>5. step \in [W \X (1..n) -> W]
    BY <1>2, <1>4
<1>6. \A x \in W, k \in 1..n : step[<<x, k>>] = x \o q[k]
    OBVIOUS
<1> HIDE DEF step
<1>7. \E g \in [0..n -> W] : RunsFrom(g, <<>>, step, n)
    BY <1>2, <1>3, <1>5, RunExists
<1>8. PICK g \in [0..n -> W] : g[0] = <<>> /\ \A k \in 1..n : g[k] = step[<<g[k - 1], k>>]
    BY <1>7 DEF RunsFrom
<1>9. \A k \in 1..n : k - 1 \in 0..n
    BY <1>2
<1>10. \A k \in 1..n : g[k] = g[k - 1] \o q[k]
    BY <1>6, <1>8, <1>9
<1>11. \A f : /\ Body(f) = [k \in 0..n |-> Body(f)[k]] /\ Body(f)[0] = <<>>
              /\ \A k \in 1..n : Body(f)[k] = f[k - 1] \o q[k]
  <2>1. ASSUME NEW f PROVE Body(f) = [k \in 0..n |-> Body(f)[k]] /\ Body(f)[0] = <<>>
    BY <1>2
  <2>2. ASSUME NEW f, NEW k \in 1..n PROVE Body(f)[k] = f[k - 1] \o q[k]
    <3>1. k \in 0..n /\ k # 0
        BY <1>2
    <3>2. QED
        BY <3>1, Zenon
  <2> HIDE DEF Body
  <2>3. QED
    BY <2>1, <2>2
<1> HIDE DEF Body
<1>12. \E f : f = Body(f)
  <2>1. \A k \in 0..n : k = 0 \/ k \in 1..n
    BY <1>2
  <2>2. \A k \in 0..n : g[k] = Body(g)[k]
    BY <1>8, <1>10, <1>11, <2>1
  <2>3. g = [k \in 0..n |-> g[k]]
    BY <1>8
  <2>4. g = Body(g)
    BY <1>11, <2>2, <2>3
  <2>5. QED
    BY <2>4
<1>13. upTo = Body(upTo)
    BY <1>12
<1> HIDE DEF upTo
<1>14. upTo = [k \in 0..n |-> upTo[k]] /\ upTo[0] = <<>> /\ \A k \in 1..n : upTo[k] = upTo[k - 1] \o q[k]
    BY <1>13, <1>11
<1> DEFINE P == {k \in 0..n : upTo[k] \in W}
<1>15. \A k \in 0..n : k \in P
  <2>1. 0 \in P
    BY <1>2, <1>3, <1>14
  <2>2. ASSUME NEW k \in 1..n, k - 1 \in P PROVE k \in P
    <3>1. k \in 0..n /\ upTo[k - 1] \in W /\ q[k] \in W
        BY <1>2, <2>2
    <3>2. QED
        BY <3>1, <1>4, <1>14
  <2>3. P \in SUBSET (0..n)
    OBVIOUS
  <2> HIDE DEF P
  <2>4. QED
    BY <1>2, <2>1, <2>2, <2>3, UpToAll
<1>16. upTo \in [0..n -> W]
    BY <1>14, <1>15
<1>17. Concats(upTo, q)
    BY <1>14 DEF Concats, n
<1>18. QED
    BY <1>1, <1>16, <1>17 DEF n, W

LEMMA ConcatType ==
    ASSUME NEW V, NEW q \in Seq(Seq(V))
    PROVE  Concat(q) \in Seq(V)
<1>1. PICK f \in [0..Len(q) -> Seq(V)] : Concats(f, q) /\ Concat(q) = f[Len(q)]
    BY ConcatRuns
<1>2. Len(q) \in 0..Len(q)
    BY LenProperties
<1>3. QED
    BY <1>1, <1>2

LEMMA ConcatNone == Concat(<<>>) = <<>>
<1>1. <<>> \in Seq(Seq({})) /\ Len(<<>>) = 0
    OBVIOUS
<1>2. PICK f : Concats(f, <<>>) /\ Concat(<<>>) = f[Len(<<>>)]
    BY <1>1, ConcatRuns
<1>3. QED
    BY <1>1, <1>2 DEF Concats

LEMMA ConcatAppend ==
    ASSUME NEW V, NEW q \in Seq(Seq(V)), NEW x \in Seq(V)
    PROVE  Concat(Append(q, x)) = Concat(q) \o x
<1> DEFINE n == Len(q)
           r == Append(q, x)
<1>1. n \in Nat /\ r \in Seq(Seq(V)) /\ Len(r) = n + 1 /\ r[n + 1] = x
      /\ \A k \in 1..n : r[k] = q[k]
    BY LenProperties, AppendProperties
<1>2. PICK f : Concats(f, q) /\ Concat(q) = f[n]
    BY ConcatRuns
<1>3. PICK g : Concats(g, r) /\ Concat(r) = g[n + 1]
    BY <1>1, ConcatRuns
<1> HIDE DEF n, r
<1> DEFINE P == {k \in 0..n : f[k] = g[k]}
<1>4. \A k \in 0..n : k \in P
  <2>1. 0 \in P
    BY <1>1, <1>2, <1>3 DEF Concats
  <2>2. ASSUME NEW k \in 1..n, k - 1 \in P PROVE k \in P
    <3>1. k \in 0..n /\ k \in 1..(n + 1) /\ f[k - 1] = g[k - 1]
        BY <1>1, <2>2
    <3>2. f[k] = f[k - 1] \o q[k]
        BY <1>2 DEF Concats, n
    <3>3. g[k] = g[k - 1] \o r[k]
        BY <1>1, <1>3, <3>1 DEF Concats
    <3>4. QED
        BY <1>1, <3>1, <3>2, <3>3
  <2>3. P \in SUBSET (0..n)
    OBVIOUS
  <2> HIDE DEF P
  <2>4. QED
    BY <1>1, <2>1, <2>2, <2>3, UpToAll
<1>5. n \in 0..n /\ n + 1 \in 1..(n + 1) /\ (n + 1) - 1 = n
    BY <1>1
<1>6. f[n] = g[n]
    BY <1>4, <1>5
<1>7. g[n + 1] = g[(n + 1) - 1] \o r[n + 1]
    BY <1>1, <1>3, <1>5 DEF Concats
<1>8. QED
    BY <1>1, <1>2, <1>3, <1>5, <1>6, <1>7 DEF r

\* The bytes of a range, and of ranges.
Place == Nat \X Nat
Stretch == {x \in Extent : x.start <= x.end}
Piece(x) == [b \in 1..(x.end - x.start) |-> <<x.file, x.start + b>>]
Pieces(q) == [i \in DOMAIN q |-> Piece(q[i])]

LEMMA PieceType ==
    ASSUME NEW x \in Stretch
    PROVE  /\ x.file \in Nat /\ x.start \in Nat /\ x.end \in Nat /\ x.end - x.start \in Nat
           /\ Piece(x) \in Seq(Place) /\ Len(Piece(x)) = x.end - x.start
           /\ \A b \in 1..(x.end - x.start) : Piece(x)[b] = <<x.file, x.start + b>>
<1> DEFINE n == x.end - x.start
<1>1. x.file \in Nat /\ x.start \in Nat /\ x.end \in Nat /\ n \in Nat
    BY DEF Stretch, Extent
<1>2. \A b \in 1..n : <<x.file, x.start + b>> \in Place
    BY <1>1 DEF Place
<1>3. Piece(x) = [b \in 1..n |-> <<x.file, x.start + b>>]
    BY DEF Piece
<1> HIDE DEF n
<1>4. Piece(x) \in Seq(Place) /\ Len(Piece(x)) = n
    BY <1>1, <1>2, <1>3
<1>5. QED
    BY <1>1, <1>3, <1>4 DEF n

LEMMA PieceJoins ==
    ASSUME NEW f \in Nat, NEW a \in Nat, NEW b \in Nat, NEW c \in Nat, a <= b, b <= c
    PROVE  Piece([file |-> f, start |-> a, end |-> b]) \o Piece([file |-> f, start |-> b, end |-> c])
           = Piece([file |-> f, start |-> a, end |-> c])
<1> DEFINE x == [file |-> f, start |-> a, end |-> b]
           y == [file |-> f, start |-> b, end |-> c]
           z == [file |-> f, start |-> a, end |-> c]
<1>1. x \in Stretch /\ y \in Stretch /\ z \in Stretch
    BY DEF Stretch, Extent
<1>2. /\ Piece(x) \in Seq(Place) /\ Len(Piece(x)) = b - a
      /\ \A k \in 1..(b - a) : Piece(x)[k] = <<f, a + k>>
    BY <1>1, PieceType
<1>3. /\ Piece(y) \in Seq(Place) /\ Len(Piece(y)) = c - b
      /\ \A k \in 1..(c - b) : Piece(y)[k] = <<f, b + k>>
    BY <1>1, PieceType
<1>4. /\ Piece(z) \in Seq(Place) /\ Len(Piece(z)) = c - a
      /\ \A k \in 1..(c - a) : Piece(z)[k] = <<f, a + k>>
    BY <1>1, PieceType
<1> HIDE DEF x, y, z
<1> DEFINE w == Piece(x) \o Piece(y)
<1>5. /\ w \in Seq(Place) /\ Len(w) = (b - a) + (c - b)
      /\ \A k \in 1..((b - a) + (c - b)) :
            w[k] = IF k <= b - a THEN Piece(x)[k] ELSE Piece(y)[k - (b - a)]
  <2> DEFINE p == Piece(x)
             q == Piece(y)
  <2>1. p \in Seq(Place) /\ Len(p) = b - a /\ q \in Seq(Place) /\ Len(q) = c - b
    BY <1>2, <1>3
  <2> HIDE DEF p, q
  <2>2. /\ p \o q \in Seq(Place) /\ Len(p \o q) = Len(p) + Len(q)
        /\ \A k \in 1..(Len(p) + Len(q)) : (p \o q)[k] = IF k <= Len(p) THEN p[k] ELSE q[k - Len(p)]
    BY <2>1, ConcatProperties
  <2>3. /\ Len(p \o q) = (b - a) + (c - b)
        /\ \A k \in 1..((b - a) + (c - b)) : (p \o q)[k] = IF k <= b - a THEN p[k] ELSE q[k - (b - a)]
    BY <2>1, <2>2
  <2>4. QED
    BY <2>2, <2>3 DEF p, q
<1> HIDE DEF w
<1>6. (b - a) + (c - b) = c - a
    OBVIOUS
<1>7. ASSUME NEW k \in 1..(c - a) PROVE w[k] = Piece(z)[k]
  <2>1. CASE k <= b - a
    <3>1. k \in 1..(b - a)
        BY <2>1
    <3>2. w[k] = Piece(x)[k]
        BY <1>5, <1>6, <2>1
    <3>3. QED
        BY <1>2, <1>4, <3>1, <3>2
  <2>2. CASE k > b - a
    <3>1. k - (b - a) \in 1..(c - b) /\ ~(k <= b - a) /\ b + (k - (b - a)) = a + k
        BY <2>2
    <3>2. w[k] = Piece(y)[k - (b - a)]
        BY <1>5, <1>6, <3>1
    <3>3. Piece(y)[k - (b - a)] = <<f, b + (k - (b - a))>>
        BY <1>3, <3>1
    <3>4. QED
        BY <1>4, <3>1, <3>2, <3>3
  <2>3. QED
    BY <2>1, <2>2
<1>8. w = Piece(z)
    BY <1>4, <1>5, <1>6, <1>7, SeqEqual
<1>9. QED
    BY <1>8 DEF w, x, y, z

LEMMA PiecesType ==
    ASSUME NEW q \in Seq(Stretch)
    PROVE  Pieces(q) \in Seq(Seq(Place)) /\ Len(Pieces(q)) = Len(q) /\ Len(q) \in Nat
           /\ \A i \in 1..Len(q) : Pieces(q)[i] = Piece(q[i])
<1>1. Len(q) \in Nat /\ DOMAIN q = 1..Len(q) /\ \A i \in 1..Len(q) : q[i] \in Stretch
    BY LenProperties
<1>2. \A i \in 1..Len(q) : Piece(q[i]) \in Seq(Place)
    BY <1>1, PieceType
<1>3. Pieces(q) = [i \in 1..Len(q) |-> Piece(q[i])]
    BY <1>1 DEF Pieces
<1> DEFINE n == Len(q)
           T == Seq(Place)
<1> HIDE DEF n, T
<1>4. Pieces(q) \in Seq(T) /\ Len(Pieces(q)) = n
    BY <1>1, <1>2, <1>3 DEF n, T
<1>5. QED
    BY <1>1, <1>3, <1>4 DEF n, T

LEMMA PiecesAppend ==
    ASSUME NEW q \in Seq(Stretch), NEW x \in Stretch
    PROVE  Append(q, x) \in Seq(Stretch) /\ Pieces(Append(q, x)) = Append(Pieces(q), Piece(x))
<1> DEFINE r == Append(q, x)
           n == Len(q)
<1>1. r \in Seq(Stretch) /\ Len(r) = n + 1 /\ r[n + 1] = x /\ \A i \in 1..n : r[i] = q[i]
    BY AppendProperties
<1>2. /\ Pieces(q) \in Seq(Seq(Place)) /\ Len(Pieces(q)) = n /\ n \in Nat
      /\ \A i \in 1..n : Pieces(q)[i] = Piece(q[i])
    BY PiecesType
<1>3. /\ Pieces(r) \in Seq(Seq(Place)) /\ Len(Pieces(r)) = n + 1
      /\ \A i \in 1..(n + 1) : Pieces(r)[i] = Piece(r[i])
    BY <1>1, PiecesType
<1>4. Piece(x) \in Seq(Place)
    BY PieceType
<1> DEFINE a == Append(Pieces(q), Piece(x))
<1>5. /\ a \in Seq(Seq(Place)) /\ Len(a) = n + 1 /\ a[n + 1] = Piece(x)
      /\ \A i \in 1..n : a[i] = Pieces(q)[i]
    BY <1>2, <1>4, AppendProperties
<1> HIDE DEF a, r, n
<1>6. ASSUME NEW i \in 1..(n + 1) PROVE Pieces(r)[i] = a[i]
  <2>1. CASE i = n + 1
    BY <2>1, <1>1, <1>3, <1>5
  <2>2. CASE i # n + 1
    <3>1. i \in 1..n
        BY <2>2, <1>2
    <3>2. QED
        BY <3>1, <1>1, <1>2, <1>3, <1>5
  <2>3. QED
    BY <2>1, <2>2
<1>7. Pieces(r) = a
    BY <1>3, <1>5, <1>6, SeqEqual
<1>8. QED
    BY <1>1, <1>7 DEF a, r

-----------------------------------------------------------------------------
(* Reading *)

\* What has been read of the range that is next.
ReadOfNext(plan, next, offset) ==
    IF next <= Len(plan)
    THEN Piece([file |-> plan[next].file, start |-> plan[next].start, end |-> offset])
    ELSE <<>>

\* got is what the plan says up to offset in its range next.
ReadTo(plan, next, offset, got) ==
    /\ next \in 1..(Len(plan) + 1) /\ offset \in Nat
    /\ next <= Len(plan) => plan[next].start <= offset /\ offset < plan[next].end
    /\ got \in Seq(Stretch)
    /\ Concat(Pieces(got)) = Concat(Pieces(SubSeq(plan, 1, next - 1))) \o ReadOfNext(plan, next, offset)

IsPlan(plan) == plan \in Seq(Extent) /\ \A j \in 1..Len(plan) : plan[j].start < plan[j].end

LEMMA PlanSpans ==
    ASSUME NEW plan, IsPlan(plan)
    PROVE  /\ plan \in Seq(Stretch) /\ Len(plan) \in Nat /\ DOMAIN plan = 1..Len(plan)
           /\ \A j \in 1..Len(plan) :
                 /\ plan[j] \in Stretch /\ plan[j] = [file |-> plan[j].file, start |-> plan[j].start, end |-> plan[j].end]
                 /\ plan[j].file \in Nat /\ plan[j].start \in Nat /\ plan[j].end \in Nat
                 /\ plan[j].start < plan[j].end
<1>1. plan \in Seq(Extent) /\ Len(plan) \in Nat /\ DOMAIN plan = 1..Len(plan)
    BY LenProperties DEF IsPlan
<1>2. \A j \in 1..Len(plan) : plan[j] \in Extent /\ plan[j].start < plan[j].end
    BY <1>1 DEF IsPlan
<1>a. \A j \in 1..Len(plan) :
        plan[j].file \in Nat /\ plan[j].start \in Nat /\ plan[j].end \in Nat
    BY <1>2 DEF Extent
<1>3. \A j \in 1..Len(plan) : plan[j] = [file |-> plan[j].file, start |-> plan[j].start, end |-> plan[j].end]
    BY <1>2 DEF Extent
<1>4. \A j \in 1..Len(plan) : plan[j] \in Stretch
  <2>1. \A j \in 1..Len(plan) : plan[j].start <= plan[j].end
    BY <1>2, <1>a
  <2>2. QED
    BY <1>2, <2>1 DEF Stretch
<1>5. plan \in Seq(Stretch)
  <2> DEFINE n == Len(plan)
             copy == [j \in 1..n |-> plan[j]]
  <2>1. plan = copy
    BY <1>1
  <2>2. n \in Nat /\ \A j \in 1..n : plan[j] \in Stretch
    BY <1>1, <1>4
  <2> HIDE DEF n
  <2>3. copy \in Seq(Stretch)
    BY <2>2
  <2>4. QED
    BY <2>1, <2>3
<1>6. QED
    BY <1>1, <1>2, <1>a, <1>3, <1>4, <1>5

LEMMA PrefixSpans ==
    ASSUME NEW plan, IsPlan(plan), NEW k \in 0..Len(plan)
    PROVE  /\ SubSeq(plan, 1, k) \in Seq(Stretch) /\ Len(SubSeq(plan, 1, k)) = k
           /\ k > 0 => SubSeq(plan, 1, k) = Append(SubSeq(plan, 1, k - 1), plan[k])
<1>1. plan \in Seq(Stretch) /\ Len(plan) \in Nat /\ \A j \in 1..Len(plan) : plan[j] \in Stretch
    BY PlanSpans
<1>2. SubSeq(plan, 1, k) \in Seq(Stretch) /\ Len(SubSeq(plan, 1, k)) = k
    BY <1>1
<1>3. ASSUME k > 0 PROVE SubSeq(plan, 1, k) = Append(SubSeq(plan, 1, k - 1), plan[k])
    BY <1>1, <1>3
<1>4. QED
    BY <1>2, <1>3

LEMMA BytesRead ==
    ASSUME NEW q \in Seq(Stretch)
    PROVE  /\ Concat(Pieces(q)) \in Seq(Place)
           /\ \A x \in Stretch : Concat(Pieces(Append(q, x))) = Concat(Pieces(q)) \o Piece(x)
<1>1. Pieces(q) \in Seq(Seq(Place))
    BY PiecesType
<1>2. ASSUME NEW x \in Stretch
      PROVE  Concat(Pieces(Append(q, x))) = Concat(Pieces(q)) \o Piece(x)
  <2>1. Piece(x) \in Seq(Place)
    BY PieceType
  <2>2. Pieces(Append(q, x)) = Append(Pieces(q), Piece(x))
    BY PiecesAppend
  <2>3. QED
    BY <1>1, <2>1, <2>2, ConcatAppend
<1>3. QED
    BY <1>1, <1>2, ConcatType

\* The next n bytes.
LEMMA ReadsOn ==
    ASSUME NEW plan, IsPlan(plan), NEW next \in 1..Len(plan), NEW offset, NEW got,
           ReadTo(plan, next, offset, got), NEW n \in 1..(plan[next].end - offset)
    PROVE  LET more == Append(got, [file |-> plan[next].file, start |-> offset, end |-> offset + n]) IN
           IF offset + n = plan[next].end
           THEN ReadTo(plan, next + 1, IF next < Len(plan) THEN plan[next + 1].start ELSE 0, more)
           ELSE ReadTo(plan, next, offset + n, more)
<1> DEFINE r == plan[next]
           f == r.file
           a == r.start
           e == r.end
           x == [file |-> f, start |-> offset, end |-> offset + n]
           more == Append(got, x)
           upto == SubSeq(plan, 1, next - 1)
<1>1. /\ r \in Stretch /\ r = [file |-> f, start |-> a, end |-> e]
      /\ f \in Nat /\ a \in Nat /\ e \in Nat /\ Len(plan) \in Nat
    BY PlanSpans
<1>2. offset \in Nat /\ a <= offset /\ offset < e /\ got \in Seq(Stretch)
      /\ Concat(Pieces(got)) = Concat(Pieces(upto)) \o Piece([file |-> f, start |-> a, end |-> offset])
    BY DEF ReadTo, ReadOfNext
<1>3. upto \in Seq(Stretch) /\ SubSeq(plan, 1, next) = Append(upto, r)
  <2>1. next - 1 \in 0..Len(plan) /\ next \in 0..Len(plan) /\ next > 0
    BY <1>1
  <2>2. QED
    BY <2>1, PrefixSpans
<1> HIDE DEF upto, f, a, e, r
<1>4. n \in Nat /\ offset + n \in Nat /\ offset + n <= e /\ offset <= offset + n
  <2>1. n \in 1..(e - offset)
    BY DEF e, r
  <2>2. QED
    BY <2>1, <1>1, <1>2
<1>5. x \in Stretch
    BY <1>1, <1>2, <1>4 DEF Stretch, Extent
<1> DEFINE y == [file |-> f, start |-> a, end |-> offset]
           z == [file |-> f, start |-> a, end |-> offset + n]
<1>6. y \in Stretch /\ z \in Stretch
    BY <1>1, <1>2, <1>4 DEF Stretch, Extent
<1>7. Piece(y) \o Piece(x) = Piece(z)
  <2> DEFINE m == offset + n
  <2>1. f \in Nat /\ a \in Nat /\ offset \in Nat /\ m \in Nat /\ a <= offset /\ offset <= m
    BY <1>1, <1>2, <1>4
  <2> HIDE DEF m
  <2>2. Piece([file |-> f, start |-> a, end |-> offset]) \o Piece([file |-> f, start |-> offset, end |-> m])
        = Piece([file |-> f, start |-> a, end |-> m])
    <3>1. \A g, i, j, k \in Nat : i <= j /\ j <= k =>
            Piece([file |-> g, start |-> i, end |-> j]) \o Piece([file |-> g, start |-> j, end |-> k])
            = Piece([file |-> g, start |-> i, end |-> k])
        BY PieceJoins
    <3> HIDE DEF x, y, z, more
    <3>2. QED
        BY <2>1, <3>1, ZenonT(60)
  <2>3. QED
    BY <2>2 DEF m
<1>8. Concat(Pieces(got)) = Concat(Pieces(upto)) \o Piece(y)
    BY <1>2
<1>9. z.end = offset + n
    OBVIOUS
<1> HIDE DEF x, y, z
<1>10. more \in Seq(Stretch)
    BY <1>2, <1>5, PiecesAppend
<1>11. Concat(Pieces(more)) = Concat(Pieces(upto)) \o Piece(z)
  <2>1. Concat(Pieces(more)) = Concat(Pieces(got)) \o Piece(x)
    BY <1>2, <1>5, BytesRead
  <2>2. /\ Concat(Pieces(upto)) \in Seq(Place) /\ Piece(x) \in Seq(Place) /\ Piece(y) \in Seq(Place)
    BY <1>3, <1>5, <1>6, BytesRead, PieceType
  <2>3. (Concat(Pieces(upto)) \o Piece(y)) \o Piece(x) = Concat(Pieces(upto)) \o (Piece(y) \o Piece(x))
    BY <2>2, ConcatAssociative
  <2>4. QED
    BY <1>7, <1>8, <2>1, <2>3
<1> HIDE DEF more
<1>12. ASSUME offset + n # e PROVE ReadTo(plan, next, offset + n, more)
  <2>1. offset + n < e /\ a <= offset + n
    BY <1>1, <1>2, <1>4, <1>12
  <2>2. ReadOfNext(plan, next, offset + n) = Piece(z)
    BY DEF ReadOfNext, z, f, a, r
  <2>3. next \in 1..(Len(plan) + 1)
    BY <1>1
  <2>4. QED
    BY <1>4, <1>10, <1>11, <2>1, <2>2, <2>3 DEF ReadTo, upto, a, e, r
<1>13. ASSUME offset + n = e
       PROVE  ReadTo(plan, next + 1, IF next < Len(plan) THEN plan[next + 1].start ELSE 0, more)
  <2> DEFINE o == IF next < Len(plan) THEN plan[next + 1].start ELSE 0
  <2>1. z = r
    BY <1>1, <1>13 DEF z
  <2>2. Concat(Pieces(more)) = Concat(Pieces(SubSeq(plan, 1, next)))
    BY <1>1, <1>3, <1>11, <2>1, BytesRead
  <2>3. Concat(Pieces(SubSeq(plan, 1, next))) \in Seq(Place)
    <3>1. next \in 0..Len(plan)
        BY <1>1
    <3>2. QED
        BY <3>1, PrefixSpans, BytesRead
  <2>4. next + 1 \in 1..(Len(plan) + 1) /\ (next + 1) - 1 = next
    BY <1>1
  <2>5. CASE next < Len(plan)
    <3>1. next + 1 \in 1..Len(plan)
        BY <1>1, <2>5
    <3>2. /\ plan[next + 1].start \in Nat /\ plan[next + 1].file \in Nat
          /\ plan[next + 1].start < plan[next + 1].end
        BY <3>1, PlanSpans
    <3> DEFINE s == plan[next + 1].start
               w == [file |-> plan[next + 1].file, start |-> s, end |-> s]
    <3>3. Piece(w) = <<>>
      <4>1. w \in Stretch /\ w.end - w.start = 0
        BY <3>2 DEF Stretch, Extent
      <4> HIDE DEF w
      <4>2. Piece(w) \in Seq(Place) /\ Len(Piece(w)) = 0
        BY <4>1, PieceType
      <4>3. QED
        BY <4>2, EmptySeq
    <3>4. ReadOfNext(plan, next + 1, s) = <<>>
        BY <3>1, <3>3 DEF ReadOfNext
    <3> HIDE DEF w
    <3>5. ReadTo(plan, next + 1, s, more)
      <4>1. Concat(Pieces(more)) = Concat(Pieces(SubSeq(plan, 1, next))) \o <<>>
        BY <2>2, <2>3, ConcatEmptySeq
      <4>2. s \in Nat /\ s <= s
        BY <3>2
      <4>3. QED
        BY <1>10, <2>4, <3>2, <3>4, <4>1, <4>2 DEF ReadTo
    <3>6. QED
        BY <2>5, <3>5
  <2>6. CASE ~(next < Len(plan))
    <3>1. ~(next + 1 <= Len(plan))
        BY <1>1, <2>6
    <3>2. ReadOfNext(plan, next + 1, 0) = <<>>
        BY <3>1 DEF ReadOfNext
    <3>3. Concat(Pieces(more)) = Concat(Pieces(SubSeq(plan, 1, next))) \o <<>>
        BY <2>2, <2>3, ConcatEmptySeq
    <3>4. ReadTo(plan, next + 1, 0, more)
        BY <1>10, <2>4, <3>1, <3>2, <3>3 DEF ReadTo
    <3>5. QED
        BY <2>6, <3>4
  <2>7. QED
    BY <2>5, <2>6
<1>14. QED
    BY <1>12, <1>13 DEF more, x, f, e, r

-----------------------------------------------------------------------------
(* The read benchmark *)

\* The plan is what the ranges are merged to, and got is what it says so far.
PlanInv ==
    tool.at = "read" =>
        /\ Apart(tool.ranges) /\ tool.gap \in Nat
        /\ tool.plan = Coalesce(tool.ranges, tool.gap)
        /\ ReadTo(tool.plan, tool.next, tool.offset, tool.got)

\* Ranges of the table's rows share no bytes.
LEMMA RangesApart ==
    ASSUME given \in DOMAIN Checkpoints, CsvInv, csv # Absent, NEW layer, NEW experts
    PROVE  Apart(Ranges(layer, experts))
<1> DEFINE T == {y \in RoutedRows(Listed) : y.name[2] = layer /\ y.name[5] \in experts}
           R == Ranges(layer, experts)
           range == [x \in T |-> ReadRange(x)]
<1>1. csv \in Seq(Table)
    BY DEF CsvInv
<1>2. \A x \in Listed : x \in Table
  <2>1. Elements(csv) = {csv[i] : i \in 1..Len(csv)} /\ Len(csv) \in Nat
    BY <1>1, ElementsOf
  <2>2. QED
    BY <1>1, <2>1 DEF Listed
<1>3. T \subseteq Table
    BY <1>2 DEF RoutedRows
<1>4. R = {ReadRange(x) : x \in T}
    BY DEF Ranges
<1>5. /\ IsFiniteSet(Table)
      /\ \A x \in Table : x.file \in Nat /\ x.start \in Nat /\ x.end \in Nat /\ x.start < x.end
      /\ \A x, y \in Table : x # y /\ x.file = y.file => x.end <= y.start \/ y.end <= x.start
    BY TableTypes
<1> HIDE DEF T, R
<1>6. IsFiniteSet(T)
    BY <1>3, <1>5, FS_Subset
<1>7. IsFiniteSet(R)
  <2>1. range \in Surjection(T, R)
    BY <1>4 DEF Surjection
  <2>2. QED
    BY <1>6, <2>1, FS_Surjection
<1>8. ASSUME NEW r \in R
      PROVE  \E x \in Table : /\ r = ReadRange(x) /\ r.file = x.file /\ r.start = x.start /\ r.end = x.end
    BY <1>3, <1>4 DEF ReadRange
<1>9. ASSUME NEW r \in R PROVE r \in Extent /\ r.start < r.end
  <2>1. PICK x \in Table : r = ReadRange(x)
    BY <1>8
  <2>2. QED
    BY <1>5, <2>1 DEF ReadRange, Extent
<1>10. ASSUME NEW r \in R, NEW t \in R, r # t, r.file = t.file
       PROVE  r.end <= t.start \/ t.end <= r.start
  <2>1. PICK x \in Table : /\ r = ReadRange(x) /\ r.file = x.file /\ r.start = x.start /\ r.end = x.end
    BY <1>8
  <2>2. PICK y \in Table : /\ t = ReadRange(y) /\ t.file = y.file /\ t.start = y.start /\ t.end = y.end
    BY <1>8
  <2>3. x # y
    BY <1>10, <2>1, <2>2
  <2>4. QED
    BY <1>5, <1>10, <2>1, <2>2, <2>3
<1>11. QED
    BY <1>7, <1>9, <1>10 DEF Apart, R

LEMMA CoalescePlans ==
    ASSUME NEW S, Apart(S), NEW gap \in Nat
    PROVE  IsPlan(Coalesce(S, gap)) /\ (S # {} => Coalesce(S, gap) # <<>>)
<1>1. /\ Coalesce(S, gap) \in Seq(Extent) /\ (S # {} => Coalesce(S, gap) # <<>>)
      /\ \A j \in 1..Len(Coalesce(S, gap)) : Coalesce(S, gap)[j].start < Coalesce(S, gap)[j].end
    BY CoalesceCovers
<1>2. QED
    BY <1>1 DEF IsPlan

\* A scenario begins with nothing read.
LEMMA PlanReadsPlans ==
    ASSUME ListInv, TablesInv, NEW layer, NEW experts, NEW gap \in Gaps, PlanReads(layer, experts, gap)
    PROVE  PlanInv'
<1> DEFINE R == Ranges(layer, experts)
           plan == Coalesce(R, gap)
<1>1. /\ csv # Absent /\ R # {}
      /\ tool' = [NoTool EXCEPT !.at = "read", !.ranges = R, !.gap = gap,
                     !.plan = plan, !.next = 1, !.offset = plan[1].start]
    BY DEF PlanReads
<1>2. gap \in Nat
    BY GapsAssumption
<1>3. Apart(R)
    BY <1>1, RangesApart DEF ListInv, TablesInv
<1>4. IsPlan(plan) /\ plan # <<>>
    BY <1>1, <1>2, <1>3, CoalescePlans
<1> HIDE DEF R, plan
<1>5. /\ tool'.at = "read" /\ tool'.ranges = R /\ tool'.gap = gap /\ tool'.plan = plan
      /\ tool'.next = 1 /\ tool'.offset = plan[1].start /\ tool'.got = <<>>
    BY <1>1 DEF NoTool
<1>6. 1 \in 1..Len(plan) /\ Len(plan) \in Nat
  <2>1. Len(plan) \in Nat /\ Len(plan) # 0
    BY <1>4, PlanSpans, EmptySeq DEF IsPlan
  <2>2. QED
    BY <2>1
<1>7. /\ plan[1].file \in Nat /\ plan[1].start \in Nat /\ plan[1].start < plan[1].end
    BY <1>4, <1>6, PlanSpans
<1>8. ReadOfNext(plan, 1, plan[1].start) = <<>>
  <2> DEFINE w == [file |-> plan[1].file, start |-> plan[1].start, end |-> plan[1].start]
  <2>1. w \in Stretch /\ w.end - w.start = 0
    BY <1>7 DEF Stretch, Extent
  <2>2. ReadOfNext(plan, 1, plan[1].start) = Piece(w)
    BY <1>6 DEF ReadOfNext
  <2> HIDE DEF w
  <2>3. Piece(w) \in Seq(Place) /\ Len(Piece(w)) = 0
    BY <2>1, PieceType
  <2>4. QED
    BY <2>2, <2>3, EmptySeq
<1>9. ReadTo(plan, 1, plan[1].start, <<>>)
  <2>1. Pieces(<<>>) = <<>>
    BY DEF Pieces
  <2>2. SubSeq(plan, 1, 1 - 1) = <<>>
    <3>1. 0 \in 0..Len(plan)
        BY <1>6
    <3>2. SubSeq(plan, 1, 0) \in Seq(Stretch) /\ Len(SubSeq(plan, 1, 0)) = 0
        BY <1>4, <3>1, PrefixSpans
    <3>3. QED
        BY <3>2, EmptySeq
  <2>3. Concat(<<>>) = <<>>
    BY ConcatNone
  <2>4. <<>> \o <<>> = <<>>
    OBVIOUS
  <2>5. <<>> \in Seq(Stretch) /\ 1 \in 1..(Len(plan) + 1)
    BY <1>6
  <2>6. Concat(Pieces(<<>>)) = Concat(Pieces(SubSeq(plan, 1, 1 - 1))) \o ReadOfNext(plan, 1, plan[1].start)
    BY <1>8, <2>1, <2>2, <2>3, <2>4
  <2>7. plan[1].start \in Nat /\ plan[1].start <= plan[1].start
    BY <1>7
  <2>8. QED
    BY <1>7, <2>5, <2>6, <2>7 DEF ReadTo
<1>10. QED
    BY <1>2, <1>3, <1>5, <1>9 DEF PlanInv, plan

LEMMA ReadOnPlans ==
    ASSUME PlanInv, DOMAIN tool = Fields, tool.at = "read", tool.next <= Len(tool.plan),
           NEW n \in 1..(tool.plan[tool.next].end - tool.offset), ReadOn(n)
    PROVE  PlanInv'
<1> DEFINE plan == tool.plan
           next == tool.next
           offset == tool.offset
           more == Append(tool.got, [file |-> plan[next].file, start |-> offset, end |-> offset + n])
           o == IF next < Len(plan) THEN plan[next + 1].start ELSE 0
<1>1. /\ Apart(tool.ranges) /\ tool.gap \in Nat /\ plan = Coalesce(tool.ranges, tool.gap)
      /\ ReadTo(plan, next, offset, tool.got)
    BY DEF PlanInv
<1>2. IsPlan(plan)
    BY <1>1, CoalescePlans
<1>3. next \in 1..Len(plan)
  <2>1. Len(plan) \in Nat
    BY <1>2, PlanSpans
  <2>2. QED
    BY <1>1, <2>1 DEF ReadTo
<1>4. /\ tool'.at = "read" /\ tool'.ranges = tool.ranges /\ tool'.gap = tool.gap /\ tool'.plan = plan
    BY ReadOnFields
<1>5. IF offset + n = plan[next].end
      THEN ReadTo(plan, next + 1, o, more) ELSE ReadTo(plan, next, offset + n, more)
    BY <1>1, <1>2, <1>3, ReadsOn
<1>6. /\ tool'.got = more
      /\ offset + n = plan[next].end => tool'.next = next + 1 /\ tool'.offset = o
      /\ offset + n # plan[next].end => tool'.next = next /\ tool'.offset = offset + n
  <2>1. tool' = [tool EXCEPT
           !.got = more,
           !.next = IF offset + n = plan[next].end THEN next + 1 ELSE next,
           !.offset = IF ~(offset + n = plan[next].end) THEN offset + n ELSE o]
    BY DEF ReadOn
  <2> HIDE DEF plan, next, offset, more, o
  <2>2. QED
    BY <2>1 DEF Fields
<1> HIDE DEF plan, next, offset, more, o
<1>7. ReadTo(tool'.plan, tool'.next, tool'.offset, tool'.got)
    BY <1>4, <1>5, <1>6
<1>8. QED
    BY <1>1, <1>4, <1>7 DEF PlanInv

LEMMA PlanStep ==
    ASSUME ListInv, TablesInv, DOMAIN tool = Fields, PlanInv, [CheckpointNext]_checkpointVars
    PROVE  PlanInv'
<1>1. CASE Inspection \/ Loading
  <2>1. tool'.at # "read" \/ tool' = tool
    <3>1. ASSUME NEW left, NEW rows, tool' = [tool EXCEPT !.left = left, !.rows = rows], tool.at = "headers"
          PROVE  tool'.at # "read"
        BY <3>1 DEF Fields
    <3>a. tool' = NoTool => tool'.at # "read"
        BY DEF NoTool
    <3>b. CASE Inspect
        BY <3>b DEF Inspect, NoTool
    <3>c. CASE Accept
        BY <3>a, <3>c DEF Accept, Fields
    <3>2. CASE WriteCsv \/ BuildManifest
        BY <3>a, <3>2 DEF WriteCsv, BuildManifest
    <3>3. CASE ReadHeader
      <4>1. tool.at = "headers" /\
            (tool' = NoTool \/ \E left, rows : tool' = [tool EXCEPT !.left = left, !.rows = rows])
        BY <3>3 DEF ReadHeader
      <4>2. QED
        BY <3>1, <3>a, <4>1
    <3>d. CASE Load
        BY <3>d DEF Load, NoTool
    <3>4. CASE LoadRaises \/ Unload
        BY <3>a, <3>4 DEF LoadRaises, Unload
    <3>5. CASE SkipParam \/ CopyParam
        BY <3>5 DEF SkipParam, CopyParam, LoadedNext, Fields
    <3>6. QED
        BY <1>1, <3>b, <3>c, <3>2, <3>3, <3>d, <3>4, <3>5 DEF Inspection, Loading
  <2>2. QED
    BY <2>1 DEF PlanInv
<1>2. ASSUME NEW layer, NEW experts, NEW gap \in Gaps, PlanReads(layer, experts, gap) PROVE PlanInv'
    BY <1>2, PlanReadsPlans
<1>3. ASSUME NEW layer, NEW experts, PackExperts(layer, experts) PROVE PlanInv'
  <2>1. tool'.at = "packed"
    BY <1>3 DEF PackExperts, NoTool
  <2>2. QED
    BY <2>1 DEF PlanInv
<1>4. CASE EndReads \/ EndPacked
    BY <1>4 DEF EndReads, EndPacked, NoTool, PlanInv
<1>5. CASE ReadChunk
  <2>1. /\ tool.at = "read" /\ tool.next <= Len(tool.plan)
        /\ (tool' = NoTool \/ \E n \in 1..(tool.plan[tool.next].end - tool.offset) : ReadOn(n))
    BY <1>5 DEF ReadChunk
  <2>2. CASE tool' = NoTool
    BY <2>2 DEF NoTool, PlanInv
  <2>3. ASSUME NEW n \in 1..(tool.plan[tool.next].end - tool.offset), ReadOn(n) PROVE PlanInv'
    BY <2>1, <2>3, ReadOnPlans
  <2>4. QED
    BY <2>1, <2>2, <2>3
<1>6. CASE Benchmarks
  <2>1. (\E layer, experts : \E gap \in Gaps : PlanReads(layer, experts, gap))
        \/ (\E layer, experts : PackExperts(layer, experts)) \/ ReadChunk \/ EndReads \/ EndPacked
    BY <1>6 DEF Benchmarks
  <2>2. QED
    BY <2>1, <1>2, <1>3, <1>4, <1>5
<1>7. CASE UNCHANGED checkpointVars
    BY <1>7 DEF checkpointVars, PlanInv
<1>8. QED
    BY <1>1, <1>6, <1>7 DEF CheckpointNext

LEMMA InitPlans == CheckpointInit => PlanInv
    BY DEF CheckpointInit, PlanInv, NoTool

LEMMA PlanSuffices == ASSUME PlanInv PROVE PlanIsRight /\ ReadIsPlan
<1> DEFINE S == tool.ranges
           gap == tool.gap
           plan == tool.plan
<1>1. ASSUME tool.at = "read"
      PROVE  /\ Apart(S) /\ gap \in Nat /\ plan = Coalesce(S, gap)
             /\ ReadTo(plan, tool.next, tool.offset, tool.got) /\ IsPlan(plan)
    BY <1>1, CoalescePlans DEF PlanInv
<1>2. RunsAgree
  <2> SUFFICES ASSUME tool.at = "read", gap = 0
               PROVE  plan = CoalesceTouching(S) /\ Len(plan) = ContiguousRuns(S)
    BY DEF RunsAgree
  <2>1. Apart(S) /\ plan = Coalesce(S, 0)
    BY <1>1
  <2>2. QED
    BY <2>1, CoalesceZero, CoalesceCounts
<1>3. PlanCovers
  <2> SUFFICES ASSUME tool.at = "read"
               PROVE  /\ Bytes(S) \subseteq Bytes(Elements(plan))
                      /\ \A i \in 1..(Len(plan) - 1) :
                            /\ Earlier(plan[i], plan[i + 1])
                            /\ plan[i].file = plan[i + 1].file => plan[i].end + gap < plan[i + 1].start
                      /\ \A b \in Bytes(Elements(plan)) :
                            \E k \in 0..gap : <<b[1], b[2] - k>> \in Bytes(S)
    BY DEF PlanCovers
  <2>1. Apart(S) /\ gap \in Nat /\ plan = Coalesce(S, gap)
    BY <1>1
  <2> HIDE DEF S, gap, plan
  <2>2. /\ Bytes(S) \subseteq Bytes(Elements(plan)) /\ Separate(plan, gap)
        /\ \A b \in Bytes(Elements(plan)) : \E k \in 0..gap : <<b[1], b[2] - k>> \in Bytes(S)
    BY <2>1, CoalesceCovers
  <2>3. QED
    BY <2>2 DEF Separate
<1>4. ReadIsPlan
  <2> SUFFICES ASSUME HasRead PROVE Concat(Pieces(tool.got)) = Concat(Pieces(plan))
    BY DEF ReadIsPlan, Pieces, Piece
  <2>1. tool.at = "read" /\ tool.next > Len(plan)
    BY DEF HasRead
  <2>2. IsPlan(plan) /\ ReadTo(plan, tool.next, tool.offset, tool.got)
    BY <1>1, <2>1
  <2> DEFINE n == Len(plan)
  <2>3. plan \in Seq(Stretch) /\ n \in Nat
    BY <2>2, PlanSpans
  <2>4. tool.next = n + 1 /\ ~(tool.next <= n) /\ tool.next - 1 = n
    BY <2>1, <2>2, <2>3 DEF ReadTo
  <2>5. SubSeq(plan, 1, n) = plan
    BY <2>3, SubSeqFull
  <2>6. ReadOfNext(plan, tool.next, tool.offset) = <<>>
    BY <2>4 DEF ReadOfNext
  <2>7. Concat(Pieces(tool.got)) = Concat(Pieces(plan)) \o <<>>
    BY <2>2, <2>4, <2>5, <2>6 DEF ReadTo
  <2>8. Concat(Pieces(plan)) \in Seq(Place)
    BY <2>3, BytesRead
  <2>9. QED
    BY <2>7, <2>8, ConcatEmptySeq
<1>5. QED
    BY <1>2, <1>3, <1>4 DEF PlanIsRight

-----------------------------------------------------------------------------
(* The packed benchmark *)

LEMMA NameRanks ==
    ASSUME NEW n \in Names, NEW m \in Names, n[1] = "layers", m[1] = "layers",
           Role(ConvertedName(n)) = "lazy_routed_expert", Role(ConvertedName(m)) = "lazy_routed_expert",
           n[2] = m[2], n[5] = m[5]
    PROVE  /\ NameRank(n) \in Nat /\ NameRank(m) \in Nat
           /\ NameRank(n) = NameRank(m) => n = m
<1>1. /\ n = <<"layers", n[2], "ffn", "experts", n[5], n[6], n[7]>>
      /\ n[6] \in {"w1", "w2", "w3"} /\ n[7] \in {"scale", "weight"}
    BY ExpertNamesAssumption
<1>2. /\ m = <<"layers", m[2], "ffn", "experts", m[5], m[6], m[7]>>
      /\ m[6] \in {"w1", "w2", "w3"} /\ m[7] \in {"scale", "weight"}
    BY ExpertNamesAssumption
<1> DEFINE matrix == [w1 |-> 0, w2 |-> 2, w3 |-> 4]
           kind == [scale |-> 0, weight |-> 1]
<1>3. NameRank(n) = matrix[n[6]] + kind[n[7]] /\ NameRank(m) = matrix[m[6]] + kind[m[7]]
    BY DEF NameRank
<1>4. /\ \A w, u \in {"w1", "w2", "w3"}, k, l \in {"scale", "weight"} :
            /\ matrix[w] + kind[k] \in Nat
            /\ matrix[w] + kind[k] = matrix[u] + kind[l] => w = u /\ k = l
  <2>1. matrix["w1"] = 0 /\ matrix["w2"] = 2 /\ matrix["w3"] = 4
    OBVIOUS
  <2>2. kind["scale"] = 0 /\ kind["weight"] = 1
    OBVIOUS
  <2> HIDE DEF matrix, kind
  <2>3. QED
    BY <2>1, <2>2
<1> HIDE DEF matrix, kind
<1>5. ASSUME NameRank(n) = NameRank(m) PROVE n = m
  <2>1. n[6] = m[6] /\ n[7] = m[7]
    BY <1>1, <1>2, <1>3, <1>4, <1>5
  <2>2. QED
    BY <1>1, <1>2, <2>1
<1>6. QED
    BY <1>1, <1>2, <1>3, <1>4, <1>5

LEMMA RowsOfTable ==
    ASSUME given \in DOMAIN Checkpoints, ManifestInv, manifest # Absent
    PROVE  /\ Len(manifest) \in Nat /\ DOMAIN manifest = 1..Len(manifest)
           /\ \A i \in DOMAIN manifest :
                 /\ manifest[i].source \in Names
                 /\ manifest[i].role = Role(ConvertedName(manifest[i].source))
                 /\ manifest[i].shard \in Nat /\ manifest[i].offset \in Nat /\ manifest[i].bytes \in Nat
           /\ \A i, j \in DOMAIN manifest : i # j => manifest[i].source # manifest[j].source
<1>1. /\ Len(manifest) \in Nat /\ DOMAIN manifest = 1..Len(manifest)
      /\ \A i \in DOMAIN manifest : \E x \in Table : manifest[i] = ManifestRow(x)
      /\ \A i, j \in DOMAIN manifest : i # j => manifest[i].source # manifest[j].source
    BY DEF ManifestInv
<1>2. ASSUME NEW i \in DOMAIN manifest
      PROVE  /\ manifest[i].source \in Names
             /\ manifest[i].role = Role(ConvertedName(manifest[i].source))
             /\ manifest[i].shard \in Nat /\ manifest[i].offset \in Nat /\ manifest[i].bytes \in Nat
  <2>1. PICK x \in Table : manifest[i] = ManifestRow(x)
    BY <1>1
  <2>2. /\ x.name \in Names /\ x.file \in Nat /\ x.start \in Nat /\ x.end \in Nat /\ x.start < x.end
    BY TableTypes
  <2>3. /\ ManifestRow(x).source = x.name /\ ManifestRow(x).role = Role(ConvertedName(x.name))
        /\ ManifestRow(x).shard = x.file /\ ManifestRow(x).offset = x.start
        /\ ManifestRow(x).bytes = x.end - x.start
    BY DEF ManifestRow
  <2>4. x.end - x.start \in Nat
    BY <2>2
  <2>5. QED
    BY <2>1, <2>2, <2>3, <2>4
<1>3. QED
    BY <1>1, <1>2

\* The names order the rows of an expert, and its bytes are a sequence.
LEMMA ExpertBytesType ==
    ASSUME given \in DOMAIN Checkpoints, ManifestInv, manifest # Absent, NEW layer, NEW expert
    PROVE  ExpertBytes(layer, expert) \in Seq(Place)
<1> DEFINE S == Block(layer, expert)
           rank(i) == NameRank(manifest[i].source)
           R == {p \in S \X S : rank(p[1]) < rank(p[2])}
           Rank(i) == Cardinality({j \in S : NameRank(manifest[j].source) < NameRank(manifest[i].source)})
           n == Cardinality(S)
           nth == [k \in 1..n |-> manifest[CHOOSE i \in S : Rank(i) = k - 1]]
           q == [k \in DOMAIN nth |-> [b \in 1..nth[k].bytes |-> <<nth[k].shard, nth[k].offset + b>>]]
<1>1. /\ Len(manifest) \in Nat /\ DOMAIN manifest = 1..Len(manifest)
      /\ \A i \in DOMAIN manifest :
            /\ manifest[i].source \in Names
            /\ manifest[i].role = Role(ConvertedName(manifest[i].source))
            /\ manifest[i].shard \in Nat /\ manifest[i].offset \in Nat /\ manifest[i].bytes \in Nat
      /\ \A i, j \in DOMAIN manifest : i # j => manifest[i].source # manifest[j].source
    BY RowsOfTable
<1>2. ExpertBytes(layer, expert) = Concat(q)
    BY DEF ExpertBytes
<1>3. \A i \in S : /\ i \in DOMAIN manifest /\ manifest[i].role = "lazy_routed_expert"
                   /\ manifest[i].source[1] = "layers" /\ manifest[i].source[2] = layer
                   /\ manifest[i].source[5] = expert
    BY DEF Block
<1>4. IsFiniteSet(S)
  <2>1. S \subseteq 1..Len(manifest)
    BY <1>1, <1>3
  <2>2. QED
    <3>1. IsFiniteSet(1..Len(manifest))
        BY <1>1, FS_Interval
    <3>2. QED
        BY <2>1, <3>1, FS_Subset
<1>5. \A i \in S, j \in S : <<i, j>> \in R <=> rank(i) < rank(j)
    OBVIOUS
<1> HIDE DEF S, R
<1>6. \A i \in S, j \in S : rank(i) \in Nat /\ rank(j) \in Nat /\ (i # j => rank(i) # rank(j))
    BY <1>1, <1>3, NameRanks
<1>7. Orders(R, S)
  <2> HIDE DEF rank
  <2>1. \A i \in S : <<i, i>> \notin R
    BY <1>5, <1>6
  <2>2. \A i, j \in S : i # j => <<i, j>> \in R \/ <<j, i>> \in R
    BY <1>5, <1>6
  <2>3. \A i, j, k \in S : <<i, j>> \in R /\ <<j, k>> \in R => <<i, k>> \in R
    BY <1>5, <1>6
  <2>4. QED
    BY <2>1, <2>2, <2>3 DEF Orders
<1>8. n \in Nat /\ \A k \in 1..n : \E i \in S : Cardinality(Below(R, S, i)) = k - 1
    BY <1>4, <1>7, RankOnto
<1>9. \A i \in S : Rank(i) = Cardinality(Below(R, S, i))
    BY <1>5 DEF Below
<1>10. \A k \in 1..n : \E i \in S : Rank(i) = k - 1
    BY <1>8, <1>9
<1> HIDE DEF n, Rank
<1>11. \A k \in 1..n : nth[k] = manifest[CHOOSE i \in S : Rank(i) = k - 1]
    OBVIOUS
<1>12. DOMAIN nth = 1..n
    OBVIOUS
<1>13. \A k \in 1..n : \E i \in S : nth[k] = manifest[i]
    BY <1>10, <1>11
<1> HIDE DEF nth
<1>14. \A k \in 1..n : nth[k].bytes \in Nat /\ nth[k].shard \in Nat /\ nth[k].offset \in Nat
    BY <1>1, <1>3, <1>13
<1> DEFINE piece(k) == [b \in 1..nth[k].bytes |-> <<nth[k].shard, nth[k].offset + b>>]
<1>15. ASSUME NEW k \in 1..n PROVE piece(k) \in Seq(Place)
  <2> DEFINE m == nth[k].bytes
  <2>1. m \in Nat /\ \A b \in 1..m : <<nth[k].shard, nth[k].offset + b>> \in Place
    BY <1>14 DEF Place
  <2> HIDE DEF m
  <2>2. [b \in 1..m |-> <<nth[k].shard, nth[k].offset + b>>] \in Seq(Place)
    BY <2>1
  <2>3. QED
    BY <2>2 DEF m
<1>16. q = [k \in 1..n |-> piece(k)]
    BY <1>12
<1> HIDE DEF piece, q
<1> DEFINE T == Seq(Place)
<1>17. q \in Seq(T)
  <2> HIDE DEF T
  <2>1. \A k \in 1..n : piece(k) \in T
    BY <1>15 DEF T
  <2>2. QED
    BY <1>8, <1>16, <2>1
<1>18. QED
    BY <1>2, <1>17, ConcatType

\* One block, or two, one after another.
LEMMA OneBlock ==
    ASSUME NEW V, NEW b \in Seq(V)
    PROVE  Concat(<<b>>) = b
<1>1. <<>> \in Seq(Seq(V)) /\ Append(<<>>, b) = <<b>>
    OBVIOUS
<1>2. Concat(<<b>>) = Concat(<<>>) \o b
    BY <1>1, ConcatAppend
<1>3. QED
    BY <1>2, ConcatNone, ConcatEmptySeq

LEMMA TwoBlocks ==
    ASSUME NEW V, NEW b \in Seq(V), NEW c \in Seq(V)
    PROVE  Concat(<<b, c>>) = b \o c
<1> DEFINE T == Seq(V)
<1>1. <<b>> \in Seq(T) /\ Append(<<b>>, c) = <<b, c>>
  <2>1. b \in T /\ c \in T
    OBVIOUS
  <2> HIDE DEF T
  <2>2. <<b>> \in Seq(T) /\ Len(<<b>>) = 1 /\ <<b>>[1] = b
    BY <2>1
  <2>3. <<b, c>> \in Seq(T) /\ Len(<<b, c>>) = 2 /\ <<b, c>>[1] = b /\ <<b, c>>[2] = c
    BY <2>1
  <2> DEFINE r == <<b>>
             p == <<b, c>>
  <2> HIDE DEF r, p
  <2>4. /\ Append(r, c) \in Seq(T) /\ Len(Append(r, c)) = 2
        /\ Append(r, c)[1] = b /\ Append(r, c)[2] = c
    BY <2>1, <2>2, AppendProperties DEF r
  <2>5. \A i \in 1..2 : Append(r, c)[i] = p[i]
    BY <2>3, <2>4 DEF p
  <2>6. Append(r, c) = p
    BY <2>3, <2>4, <2>5, SeqEqual DEF p
  <2>7. QED
    BY <2>2, <2>6 DEF r, p
<1>2. QED
    BY <1>1, ConcatAppend, OneBlock

LEMMA FirstBlock ==
    ASSUME NEW V, NEW b \in Seq(V), NEW c \in Seq(V)
    PROVE  SubSeq(b \o c, 1, Len(b)) = b
<1> DEFINE n == Len(b)
           s == b \o c
           t == SubSeq(s, 1, n)
<1>1. n \in Nat /\ Len(c) \in Nat /\ s \in Seq(V) /\ Len(s) = n + Len(c)
      /\ \A i \in 1..n : s[i] = b[i]
    BY ConcatProperties, LenProperties
<1> HIDE DEF n, s
<1>2. t \in Seq(V) /\ Len(t) = n /\ \A i \in 1..n : t[i] = s[i]
    BY <1>1
<1> HIDE DEF t
<1>3. t = b
    BY <1>1, <1>2, SeqEqual DEF n
<1>4. QED
    BY <1>3 DEF t, s, n

LEMMA SecondBlock ==
    ASSUME NEW V, NEW b \in Seq(V), NEW c \in Seq(V), Len(b) = Len(c)
    PROVE  SubSeq(b \o c, Len(b) + 1, 2 * Len(b)) = c
<1> DEFINE n == Len(b)
           s == b \o c
           t == SubSeq(s, n + 1, 2 * n)
<1>1. n \in Nat /\ Len(c) = n /\ s \in Seq(V) /\ Len(s) = n + n
      /\ \A i \in 1..n : s[n + i] = c[i]
    BY ConcatProperties, LenProperties
<1> HIDE DEF n, s
<1>2. t \in Seq(V) /\ Len(t) = n /\ \A i \in 1..n : t[i] = s[n + i]
  <2>1. n + 1 \in 1..(Len(s) + 1) /\ 2 * n = n + n /\ n + n \in (n + 1 - 1)..Len(s)
    BY <1>1
  <2>2. t = SubSeq(s, n + 1, n + n)
    BY <2>1
  <2> HIDE DEF t
  <2>3. \A i \in (n + 1)..(n + n) : s[i] \in V
    BY <1>1
  <2>4. t \in Seq(V) /\ Len(t) = (IF n + 1 <= n + n THEN n + n - (n + 1) + 1 ELSE 0)
        /\ \A i \in 1..(n + n - (n + 1) + 1) : t[i] = s[(n + 1) + i - 1]
    BY <1>1, <2>2, <2>3, SubSeqProperties
  <2>5. n + n - (n + 1) + 1 = n /\ \A i \in 1..n : (n + 1) + i - 1 = n + i
    BY <1>1
  <2>6. QED
    BY <1>1, <2>4, <2>5
<1> HIDE DEF t
<1>3. t = c
    BY <1>1, <1>2, SeqEqual
<1>4. QED
    BY <1>3 DEF t, s, n

LEMMA SameBytes ==
    ASSUME manifest' = manifest
    PROVE  \A l, x : ExpertBytes(l, x)' = ExpertBytes(l, x)
    BY DEF ExpertBytes, Block

LEMMA PackExpertsHolds ==
    ASSUME ListInv, TablesInv, NEW layer, NEW e, NEW f, NEW experts,
           experts = <<e>> \/ (e # f /\ experts = <<e, f>>), PackExperts(layer, experts)
    PROVE  PackedRangesHold'
<1> DEFINE b(i) == ExpertBytes(layer, experts[i])
           blocks == [i \in DOMAIN experts |-> ExpertBytes(layer, experts[i])]
           size == Len(blocks[1])
           plan == [i \in DOMAIN experts |->
                       [layer |-> layer, expert |-> experts[i], start |-> (i - 1) * size, end |-> i * size]]
<1>1. /\ manifest # Absent /\ manifest' = manifest
      /\ tool' = [NoTool EXCEPT !.at = "packed", !.got = Concat(blocks), !.plan = plan]
    BY DEF PackExperts
<1>2. \A x : ExpertBytes(layer, x) \in Seq(Place)
    BY <1>1, ExpertBytesType DEF ListInv, TablesInv
<1>3. \A l, x : ExpertBytes(l, x)' = ExpertBytes(l, x)
    BY <1>1, SameBytes
<1>4. tool'.got = Concat(blocks) /\ tool'.plan = plan
  <2> HIDE DEF blocks, plan
  <2>1. QED
    BY <1>1 DEF NoTool
<1> DEFINE Good(x) == SubSeq(Concat(blocks), x.start + 1, x.end) = ExpertBytes(x.layer, x.expert)
           Even == \A x, y \in Elements(plan) :
                      Len(ExpertBytes(x.layer, x.expert)) = Len(ExpertBytes(y.layer, y.expert))
<1>5. CASE experts = <<e>>
  <2>1. DOMAIN experts = {1} /\ experts[1] = e
    BY <1>5
  <2> DEFINE c == ExpertBytes(layer, e)
  <2>2. blocks = <<c>>
    <3>1. blocks = [i \in {1} |-> ExpertBytes(layer, experts[i])]
        BY <2>1
    <3>2. blocks = [i \in 1..1 |-> c]
        BY <2>1, <3>1
    <3> HIDE DEF blocks, c
    <3>3. [i \in 1..1 |-> c] = <<c>>
        OBVIOUS
    <3>4. QED
        BY <3>2, <3>3
  <2>3. c \in Seq(Place)
    BY <1>2
  <2>4. Concat(blocks) = c /\ size = Len(c) /\ size \in Nat
    BY <2>2, <2>3, OneBlock, LenProperties
  <2>5. SubSeq(c, 1, Len(c)) = c
    BY <2>3, SubSeqFull
  <2>6. ASSUME NEW x \in Elements(plan) PROVE Good(x)
    <3> HIDE DEF size, c, blocks
    <3>1. \E i \in DOMAIN experts : x = plan[i]
        BY DEF Elements
    <3>2. x = plan[1]
        BY <2>1, <3>1
    <3>3. x.layer = layer /\ x.expert = e /\ x.start = (1 - 1) * size /\ x.end = 1 * size
        BY <2>1, <3>2
    <3>4. x.start + 1 = 1 /\ x.end = Len(c)
        BY <2>4, <3>3
    <3>5. QED
        BY <2>4, <2>5, <3>3, <3>4 DEF c
  <2> HIDE DEF blocks, plan
  <2>7. QED
    BY <1>3, <1>4, <2>6 DEF PackedRangesHold
<1>6. CASE e # f /\ experts = <<e, f>>
  <2>1. DOMAIN experts = {1, 2} /\ experts[1] = e /\ experts[2] = f
    BY <1>6
  <2> DEFINE c == ExpertBytes(layer, e)
             d == ExpertBytes(layer, f)
  <2>2. blocks = <<c, d>>
    <3>1. blocks = [i \in {1, 2} |-> ExpertBytes(layer, experts[i])]
        BY <2>1
    <3>2. blocks = [i \in 1..2 |-> IF i = 1 THEN c ELSE d]
        BY <2>1, <3>1
    <3> HIDE DEF blocks, c, d
    <3>3. [i \in 1..2 |-> IF i = 1 THEN c ELSE d] = <<c, d>>
        OBVIOUS
    <3>4. QED
        BY <3>2, <3>3
  <2>3. c \in Seq(Place) /\ d \in Seq(Place)
    BY <1>2
  <2>4. Concat(blocks) = c \o d /\ size = Len(c) /\ size \in Nat
    BY <2>2, <2>3, TwoBlocks, LenProperties
  <2> HIDE DEF size, blocks
  <2>5. /\ plan[1] \in Elements(plan) /\ plan[1].layer = layer /\ plan[1].expert = e
        /\ plan[1].start = (1 - 1) * size /\ plan[1].end = 1 * size
    BY <2>1 DEF Elements
  <2>6. /\ plan[2] \in Elements(plan) /\ plan[2].layer = layer /\ plan[2].expert = f
        /\ plan[2].start = (2 - 1) * size /\ plan[2].end = 2 * size
    BY <2>1 DEF Elements
  <2>7. \A x \in Elements(plan) : x = plan[1] \/ x = plan[2]
    BY <2>1 DEF Elements
  <2> HIDE DEF plan
  <2>8. ASSUME Even, NEW x \in Elements(plan) PROVE Good(x)
    <3>1. Len(c) = Len(d)
        BY <2>5, <2>6, <2>8
    <3>2. SubSeq(c \o d, 1, Len(c)) = c /\ SubSeq(c \o d, Len(c) + 1, 2 * Len(c)) = d
        BY <2>3, <3>1, FirstBlock, SecondBlock
    <3> HIDE DEF c, d
    <3>3. plan[1].start + 1 = 1 /\ plan[1].end = Len(c)
        BY <2>4, <2>5
    <3>4. plan[2].start + 1 = Len(c) + 1 /\ plan[2].end = 2 * Len(c)
        BY <2>4, <2>6
    <3>5. Good(plan[1]) /\ Good(plan[2])
        BY <2>4, <2>5, <2>6, <3>2, <3>3, <3>4 DEF c, d
    <3>6. QED
        BY <2>7, <3>5
  <2>9. QED
    BY <1>3, <1>4, <2>8 DEF PackedRangesHold
<1>7. QED
    BY <1>5, <1>6

LEMMA PackedStep ==
    ASSUME ListInv, TablesInv, DOMAIN tool = Fields, PackedRangesHold,
           [CheckpointNext]_checkpointVars
    PROVE  PackedRangesHold'
<1>0. tool' = NoTool => tool'.at # "packed"
    BY DEF NoTool
<1>1. CASE Inspection
  <2>1. ASSUME NEW left, NEW rows, tool' = [tool EXCEPT !.left = left, !.rows = rows], tool.at = "headers"
        PROVE  tool'.at # "packed"
    BY <2>1 DEF Fields
  <2>2. ReadHeader => tool'.at # "packed"
    <3>1. ReadHeader => /\ tool.at = "headers"
                        /\ tool' = NoTool \/ \E left, rows : tool' = [tool EXCEPT !.left = left, !.rows = rows]
        BY DEF ReadHeader
    <3>2. QED
        BY <1>0, <2>1, <3>1
  <2>3. Inspect => tool'.at # "packed"
    BY DEF Inspect, NoTool
  <2>4. Accept => tool'.at # "packed"
    BY <1>0 DEF Accept, Fields
  <2>5. WriteCsv \/ BuildManifest => tool'.at # "packed"
    BY <1>0 DEF WriteCsv, BuildManifest
  <2>6. tool'.at # "packed"
    BY <1>1, <2>2, <2>3, <2>4, <2>5 DEF Inspection
  <2>7. QED
    BY <2>6 DEF PackedRangesHold
<1>2. CASE Loading
  <2>1. Load => tool'.at # "packed"
    BY DEF Load, NoTool
  <2>2. LoadRaises \/ Unload => tool'.at # "packed"
    BY <1>0 DEF LoadRaises, Unload
  <2>3. SkipParam \/ CopyParam => tool'.at # "packed"
    BY DEF SkipParam, CopyParam, LoadedNext, Fields
  <2>4. tool'.at # "packed"
    BY <1>2, <2>1, <2>2, <2>3 DEF Loading
  <2>5. QED
    BY <2>4 DEF PackedRangesHold
<1>3. ASSUME NEW layer, NEW experts, NEW gap, PlanReads(layer, experts, gap) PROVE PackedRangesHold'
  <2>1. tool'.at = "read"
    BY <1>3 DEF PlanReads, NoTool
  <2>2. QED
    BY <2>1 DEF PackedRangesHold
<1>4. CASE ReadChunk \/ EndReads \/ EndPacked
  <2>1. tool'.at # "packed"
    <3>1. ReadChunk => tool'.at # "packed"
      <4>1. ReadChunk => tool.at = "read" /\ (tool' = NoTool \/ \E n : ReadOn(n))
        BY DEF ReadChunk
      <4>2. QED
        BY <1>0, <4>1, ReadOnFields
    <3>2. EndReads \/ EndPacked => tool'.at # "packed"
        BY <1>0 DEF EndReads, EndPacked
    <3>3. QED
        BY <1>4, <3>1, <3>2
  <2>2. QED
    BY <2>1 DEF PackedRangesHold
<1>5. CASE Benchmarks
  <2>1. \/ \E layer, experts, gap : PlanReads(layer, experts, gap)
        \/ ReadChunk \/ EndReads \/ EndPacked
        \/ \E layer, e, f : PackExperts(layer, IF e = f THEN <<e>> ELSE <<e, f>>)
    BY <1>5 DEF Benchmarks
  <2>2. ASSUME NEW layer, NEW e, NEW f, PackExperts(layer, IF e = f THEN <<e>> ELSE <<e, f>>)
        PROVE  PackedRangesHold'
    <3> DEFINE experts == IF e = f THEN <<e>> ELSE <<e, f>>
    <3>1. experts = <<e>> \/ (e # f /\ experts = <<e, f>>)
        OBVIOUS
    <3>2. PackExperts(layer, experts)
        BY <2>2
    <3> HIDE DEF experts
    <3>3. QED
        BY <3>1, <3>2, PackExpertsHolds
  <2>3. QED
    BY <1>3, <1>4, <2>1, <2>2
<1>6. CASE UNCHANGED checkpointVars
  <2>1. tool' = tool /\ manifest' = manifest
    BY <1>6 DEF checkpointVars
  <2>2. \A l, x : ExpertBytes(l, x)' = ExpertBytes(l, x)
    BY <2>1, SameBytes
  <2>3. QED
    BY <2>1, <2>2 DEF PackedRangesHold
<1>7. QED
    BY <1>1, <1>2, <1>5, <1>6 DEF CheckpointNext

-----------------------------------------------------------------------------
(* Types *)

\* The values of what the loops over shards keep.
KindInv ==
    /\ tool.at \in {"idle", "headers", "csv", "load", "read", "packed"}
    /\ tool.left \subseteq DOMAIN Input.header
    /\ \A x \in tool.rows : x.name \in Names /\ x.file \in DOMAIN Input.header

LEMMA InitKind == CheckpointInit => KindInv
    BY DEF CheckpointInit, KindInv, NoTool

\* A program that begins, or that ends, has read no shards.
LEMMA FreshKind ==
    ASSUME tool'.at \in {"idle", "headers", "csv", "load", "read", "packed"},
           tool'.left = {}, tool'.rows = {}
    PROVE  KindInv'
    BY DEF KindInv

LEMMA SameKind ==
    ASSUME KindInv, given' = given, tool'.left = tool.left, tool'.rows = tool.rows,
           tool'.at \in {"idle", "headers", "csv", "load", "read", "packed"}
    PROVE  KindInv'
<1>1. Input' = Input
    BY DEF Input
<1>2. QED
    BY <1>1 DEF KindInv

LEMMA KindStep ==
    ASSUME ListInv, TablesInv, DOMAIN tool = Fields, KindInv, [CheckpointNext]_checkpointVars
    PROVE  KindInv'
<1>1. given' = given /\ Input' = Input /\ given \in DOMAIN Checkpoints
    BY TablesStep DEF ListInv, Input
<1>2. /\ \A n \in DOMAIN Input.index : Input.index[n] \in DOMAIN Input.header
      /\ \A s \in DOMAIN Input.header : DOMAIN Input.header[s] \subseteq Names
    BY <1>1, CheckpointAssumption DEF Input
<1>3. tool' = NoTool => KindInv'
  <2>1. tool' = NoTool => tool'.at = "idle" /\ tool'.left = {} /\ tool'.rows = {}
    BY DEF NoTool
  <2>2. QED
    BY <2>1, FreshKind
<1>4. ASSUME Inspect PROVE KindInv'
  <2>1. tool'.at = "headers" /\ tool'.rows = {}
        /\ tool'.left = {Input.index[n] : n \in DOMAIN Input.index}
    BY <1>4 DEF Inspect, NoTool
  <2>2. tool'.left \subseteq DOMAIN Input.header
    BY <1>2, <2>1
  <2>3. QED
    BY <1>1, <2>1, <2>2 DEF KindInv
<1>5. ASSUME ReadHeader PROVE KindInv'
  <2>1. PICK s \in tool.left :
           tool' = IF Indexed(s)
                   THEN [tool EXCEPT !.left = @ \ {s},
                            !.rows = @ \cup {Row(s, n) : n \in DOMAIN Input.header[s]}]
                   ELSE NoTool
    BY <1>5 DEF ReadHeader
  <2>2. ASSUME Indexed(s) PROVE KindInv'
    <3>1. tool'.left = tool.left \ {s} /\ tool'.at = tool.at
          /\ tool'.rows = tool.rows \cup {Row(s, n) : n \in DOMAIN Input.header[s]}
        BY <2>1, <2>2 DEF Fields
    <3>2. s \in DOMAIN Input.header /\ tool'.left \subseteq DOMAIN Input.header
        BY <3>1 DEF KindInv
    <3>3. \A n \in DOMAIN Input.header[s] : Row(s, n).name \in Names /\ Row(s, n).file = s
        BY <1>2, <3>2 DEF Row
    <3>4. \A x \in tool'.rows : x.name \in Names /\ x.file \in DOMAIN Input.header
        BY <3>1, <3>2, <3>3 DEF KindInv
    <3>5. QED
        BY <1>1, <3>1, <3>2, <3>4 DEF KindInv
  <2>3. QED
    BY <1>3, <2>1, <2>2
<1>6. ASSUME Accept PROVE KindInv'
  <2>1. tool' = [tool EXCEPT !.at = "csv"] \/ tool' = NoTool
    BY <1>6 DEF Accept
  <2>2. tool' = [tool EXCEPT !.at = "csv"] => KindInv'
    <3>1. tool' = [tool EXCEPT !.at = "csv"] =>
             tool'.at = "csv" /\ tool'.left = tool.left /\ tool'.rows = tool.rows
        BY DEF Fields
    <3>2. QED
        BY <1>1, <3>1, SameKind
  <2>3. QED
    BY <1>3, <2>1, <2>2
<1>7. ASSUME WriteCsv \/ LoadRaises \/ Unload \/ EndReads \/ EndPacked PROVE KindInv'
    BY <1>3, <1>7 DEF WriteCsv, LoadRaises, Unload, EndReads, EndPacked
<1>8. ASSUME BuildManifest \/ UNCHANGED checkpointVars PROVE KindInv'
  <2>1. tool' = tool
    BY <1>8 DEF BuildManifest, checkpointVars
  <2>2. QED
    BY <1>1, <2>1, SameKind DEF KindInv
<1>9. ASSUME Load PROVE KindInv'
  <2>1. tool'.at = "load" /\ tool'.left = {} /\ tool'.rows = {}
    BY <1>9 DEF Load, NoTool
  <2>2. QED
    BY <2>1, FreshKind
<1>10. ASSUME SkipParam \/ CopyParam PROVE KindInv'
  <2>1. tool.at = "load" /\ tool' = [tool EXCEPT !.next = @ + 1]
    BY <1>10 DEF SkipParam, CopyParam, LoadedNext
  <2>2. tool'.at = "load" /\ tool'.left = tool.left /\ tool'.rows = tool.rows
    BY <2>1 DEF Fields
  <2>3. QED
    BY <1>1, <2>2, SameKind
<1>11. ASSUME NEW layer, NEW experts, NEW gap, PlanReads(layer, experts, gap) PROVE KindInv'
  <2>1. tool'.at = "read" /\ tool'.left = {} /\ tool'.rows = {}
    BY <1>11 DEF PlanReads, NoTool
  <2>2. QED
    BY <2>1, FreshKind
<1>12. ASSUME NEW layer, NEW experts, PackExperts(layer, experts) PROVE KindInv'
  <2>1. tool'.at = "packed" /\ tool'.left = {} /\ tool'.rows = {}
    BY <1>12 DEF PackExperts, NoTool
  <2>2. QED
    BY <2>1, FreshKind
<1>13. ASSUME ReadChunk PROVE KindInv'
  <2>1. tool.at = "read" /\ (tool' = NoTool \/ \E n : ReadOn(n))
    BY <1>13 DEF ReadChunk
  <2>2. ASSUME NEW n, ReadOn(n) PROVE KindInv'
    <3>1. tool'.at = "read" /\ tool'.left = tool.left /\ tool'.rows = tool.rows
        BY <2>1, <2>2, ReadOnFields
    <3>2. QED
        BY <1>1, <3>1, SameKind
  <2>3. QED
    BY <1>3, <2>1, <2>2
<1>14. QED
    BY <1>4, <1>5, <1>6, <1>7, <1>8, <1>9, <1>10, <1>11, <1>12, <1>13
       DEF CheckpointNext, Inspection, Loading, Benchmarks

\* All of it together is inductive.
CheckpointInv ==
    ListInv /\ TablesInv /\ LoadInv /\ PlanInv /\ PackedRangesHold /\ KindInv

LEMMA InvStarts == CheckpointInit => CheckpointInv
<1> SUFFICES ASSUME CheckpointInit PROVE CheckpointInv
    OBVIOUS
<1>1. csv = Absent /\ manifest = Absent /\ tool = NoTool
    BY DEF CheckpointInit
<1>2. TablesInv
    BY <1>1 DEF TablesInv, CsvInv, ManifestInv
<1>3. PackedRangesHold
    BY <1>1 DEF PackedRangesHold, NoTool
<1>4. QED
    BY <1>2, <1>3, ListingStarts, InitLoads, InitPlans, InitKind DEF CheckpointInv

LEMMA InvStep == CheckpointInv /\ [CheckpointNext]_checkpointVars => CheckpointInv'
<1> SUFFICES ASSUME CheckpointInv, [CheckpointNext]_checkpointVars PROVE CheckpointInv'
    OBVIOUS
<1>1. ListInv /\ TablesInv /\ LoadInv /\ PlanInv /\ PackedRangesHold /\ KindInv
    BY DEF CheckpointInv
<1>2. DOMAIN tool = Fields
    BY <1>1 DEF LoadInv
<1>3. ListInv' /\ TablesInv' /\ LoadInv'
    BY <1>1, ListNext, TablesStep, LoadStep
<1>4. PlanInv' /\ PackedRangesHold' /\ KindInv'
    BY <1>1, <1>2, PlanStep, PackedStep, KindStep
<1>5. QED
    BY <1>3, <1>4 DEF CheckpointInv

LEMMA InvTypes == ASSUME CheckpointInv PROVE CheckpointTypeOK
<1>1. ListInv /\ CsvInv /\ ManifestInv /\ LoadInv /\ PlanInv /\ KindInv
    BY DEF CheckpointInv, TablesInv
<1>2. given \in DOMAIN Checkpoints
    BY <1>1 DEF ListInv
<1>3. csv # Absent => \A i \in 1..Len(csv) : csv[i].name \in Names
  <2> SUFFICES ASSUME csv # Absent PROVE \A i \in 1..Len(csv) : csv[i].name \in Names
    OBVIOUS
  <2>1. \A i \in 1..Len(csv) : csv[i] \in Table
    BY <1>1 DEF CsvInv
  <2>2. QED
    BY <1>2, <2>1, TableTypes
<1>4. manifest # Absent => \A i \in 1..Len(manifest) : manifest[i].source \in Names
    BY <1>1, <1>2, RowsOfTable
<1>5. tool.at = "read" => tool.next \in 1..(Len(tool.plan) + 1) /\ tool.offset \in Nat
    BY <1>1 DEF PlanInv, ReadTo
<1>6. QED
    BY <1>1, <1>2, <1>3, <1>4, <1>5 DEF CheckpointTypeOK, LoadInv, KindInv

LEMMA InvAlways == CheckpointSpec => []CheckpointInv
<1>1. CheckpointInit => CheckpointInv
    BY InvStarts
<1>2. CheckpointInv /\ [CheckpointNext]_checkpointVars => CheckpointInv'
    BY InvStep
<1>3. QED
    BY <1>1, <1>2, PTL DEF CheckpointSpec

\* The tables, the parameters and the programs' states have their types, whatever was
\* inspected, cut off, loaded or read before.
THEOREM CheckpointTypes == CheckpointSpec => []CheckpointTypeOK
<1>1. CheckpointInv => CheckpointTypeOK
    BY InvTypes
<1>2. QED
    BY <1>1, InvAlways, PTL

\* WeightStore and the loop over named_parameters (LoadedRight): a parameter that is filled
\* has the tensors that are its own, whatever tables are on disk by then, and if these are
\* of a whole checkpoint none is left empty that the checkpoint has.
THEOREM LoadsRight == CheckpointSpec => []LoadedRight
<1>1. CheckpointInv => LoadedRight
    BY LoadSuffices DEF CheckpointInv
<1>2. QED
    BY <1>1, InvAlways, PTL

\* The plan of a read benchmark (PlanIsRight): what coalesce_ranges leaves is apart and in
\* order, holds every byte of the experts wanted, and besides only gaps of at most max_gap
\* bytes; without gaps it is what the other two programs count as contiguous runs.
THEOREM PlansRight == CheckpointSpec => []PlanIsRight
<1>1. CheckpointInv => PlanIsRight
    BY PlanSuffices DEF CheckpointInv
<1>2. QED
    BY <1>1, InvAlways, PTL

\* A benchmark that has read its plan to the end has read the bytes of the plan, each
\* once and in order, however short the single reads were, and one that has packed experts
\* of one size reads each where it was put (ReadsItsRanges).
THEOREM ReadsRanges == CheckpointSpec => []ReadsItsRanges
<1>1. CheckpointInv => ReadsItsRanges
    BY PlanSuffices DEF CheckpointInv, ReadsItsRanges
<1>2. QED
    BY <1>1, InvAlways, PTL
=============================================================================
