------------------------- MODULE EngineServer_proofs -------------------------
(***************************************************************************)
(* Slots, calls and shutdown of the server, for any number of requests,    *)
(* sessions and prefixes, any queue limit, and calls that end, raise or    *)
(* are cancelled in any order; the health snapshot and the postfills while *)
(* no call fails.                                                          *)
(***************************************************************************)
EXTENDS EngineServer, Integers, FiniteSetTheorems, TLAPS

-----------------------------------------------------------------------------
(* Counting *)

LEMMA Positions ==
    ASSUME NEW n \in Nat, NEW S, S \subseteq 1..n
    PROVE  /\ IsFiniteSet(S) /\ Cardinality(S) \in Nat
           /\ S # {} => Cardinality(S) # 0
<1>1. IsFiniteSet(1..n)
    BY FS_Interval
<1>2. IsFiniteSet(S)
    BY <1>1, FS_Subset
<1>3. QED
    BY <1>2, FS_CardinalityType, FS_EmptySet

\* Positions among the first n + 1, with and without the last one.
LEMMA LastCounted ==
    ASSUME NEW n \in Nat, NEW S, S \subseteq 1..(n + 1)
    PROVE  Cardinality(S) = Cardinality(S \ {n + 1}) + (IF n + 1 \in S THEN 1 ELSE 0)
<1>1. n + 1 \in Nat
    OBVIOUS
<1>2. IsFiniteSet(S) /\ Cardinality(S) \in Nat
    BY <1>1, Positions
<1>3. Cardinality(S \ {n + 1}) = IF n + 1 \in S THEN Cardinality(S) - 1 ELSE Cardinality(S)
    BY <1>2, FS_RemoveElement
<1>4. QED
    BY <1>2, <1>3

\* The same with the first position; the others move up.
LEMMA FirstCounted ==
    ASSUME NEW n \in Nat, NEW S, S \subseteq 1..(n + 1)
    PROVE  /\ Cardinality({i \in 1..n : i + 1 \in S}) \in Nat
           /\ Cardinality(S) = Cardinality({i \in 1..n : i + 1 \in S}) + (IF 1 \in S THEN 1 ELSE 0)
<1> DEFINE Rest == {i \in 1..n : i + 1 \in S}
           up == [i \in Rest |-> i + 1]
<1>1. IsFiniteSet(S)
    BY n + 1 \in Nat, Positions
<1>2. Cardinality(S) \in Nat
    BY <1>1, FS_CardinalityType
<1>3. /\ IsFiniteSet(S \ {1})
      /\ Cardinality(S \ {1}) = IF 1 \in S THEN Cardinality(S) - 1 ELSE Cardinality(S)
    BY <1>1, FS_RemoveElement
<1>4. Cardinality(S \ {1}) \in Nat
    BY <1>3, FS_CardinalityType
<1>5. IsFiniteSet(Rest)
    BY Rest \subseteq 1..n, Positions
<1>6. up \in Bijection(Rest, S \ {1})
  <2>1. \A i \in Rest : up[i] \in S \ {1}
    OBVIOUS
  <2>2. \A i, j \in Rest : up[i] = up[j] => i = j
    OBVIOUS
  <2>3. ASSUME NEW k \in S \ {1} PROVE \E i \in Rest : up[i] = k
    <3>1. k - 1 \in Rest
      OBVIOUS
    <3>2. QED
      BY <3>1
  <2>4. QED
    BY <2>1, <2>2, <2>3 DEF Bijection, Injection, Surjection, IsInjective
<1>7. Cardinality(S \ {1}) = Cardinality(Rest)
  <2>1. ExistsBijection(Rest, S \ {1})
    BY <1>6 DEF ExistsBijection
  <2>2. QED
    BY <1>5, <2>1, FS_Bijection
<1>8. QED
    BY <1>2, <1>3, <1>4, <1>7

Queued(c) == Cardinality({i \in 1..Len(queue) : queue[i] = c})
Ended(c) == Cardinality({i \in 1..Len(done) : done[i].call = c})
Runs(c) == IF running = c THEN 1 ELSE 0
Read(c) == IF refreshing # None /\ refreshing.call = c THEN 1 ELSE 0

Dones == [call : Calls, raised : BOOLEAN]

LEMMA Counted ==
    ASSUME NEW c, queue \in Seq(Calls), done \in Seq(Dones)
    PROVE  /\ InFlight(c) = Queued(c) + Ended(c) + Runs(c) + Read(c)
           /\ InFlight(c) \in Nat /\ Queued(c) \in Nat /\ Ended(c) \in Nat
           /\ Runs(c) \in {0, 1} /\ Read(c) \in {0, 1}
<1>1. Len(queue) \in Nat /\ Len(done) \in Nat
    OBVIOUS
<1>2. Queued(c) \in Nat
    BY <1>1, Positions DEF Queued
<1>3. Ended(c) \in Nat
    BY <1>1, Positions DEF Ended
<1>4. QED
    BY <1>2, <1>3 DEF InFlight, Queued, Ended, Runs, Read

LEMMA QueueAppends ==
    ASSUME NEW c, NEW d \in Calls, queue \in Seq(Calls), queue' = Append(queue, d)
    PROVE  Queued(c)' = Queued(c) + (IF d = c THEN 1 ELSE 0)
<1> DEFINE n == Len(queue)
           S == {i \in 1..(n + 1) : queue'[i] = c}
<1>1. n \in Nat /\ Len(queue') = n + 1
    OBVIOUS
<1>2. (\A i \in 1..n : queue'[i] = queue[i]) /\ queue'[n + 1] = d
    OBVIOUS
<1>3. S \ {n + 1} = {i \in 1..n : queue[i] = c}
    BY <1>1, <1>2
<1>4. n + 1 \in S <=> d = c
    BY <1>1, <1>2
<1>5. S \subseteq 1..(n + 1)
    OBVIOUS
<1> HIDE DEF S
<1>6. Cardinality(S) = Cardinality(S \ {n + 1}) + (IF n + 1 \in S THEN 1 ELSE 0)
    BY <1>1, <1>5, LastCounted
<1>7. QED
    BY <1>1, <1>3, <1>4, <1>6 DEF Queued, S

LEMMA QueueTakes ==
    ASSUME NEW c, queue \in Seq(Calls), queue # <<>>, queue' = Tail(queue)
    PROVE  Queued(c)' \in Nat /\ Queued(c) = Queued(c)' + (IF Head(queue) = c THEN 1 ELSE 0)
<1> DEFINE n == Len(queue) - 1
           S == {i \in 1..(n + 1) : queue[i] = c}
<1>1. n \in Nat /\ Len(queue) = n + 1 /\ Len(queue') = n
    OBVIOUS
<1>2. (\A i \in 1..n : queue'[i] = queue[i + 1]) /\ Head(queue) = queue[1]
    OBVIOUS
<1>3. {i \in 1..n : i + 1 \in S} = {i \in 1..n : queue'[i] = c}
    BY <1>1, <1>2
<1>4. 1 \in S <=> Head(queue) = c
    BY <1>1, <1>2
<1>5. S \subseteq 1..(n + 1)
    OBVIOUS
<1> HIDE DEF S
<1>6. /\ Cardinality({i \in 1..n : i + 1 \in S}) \in Nat
      /\ Cardinality(S) = Cardinality({i \in 1..n : i + 1 \in S}) + (IF 1 \in S THEN 1 ELSE 0)
    BY <1>1, <1>5, FirstCounted
<1>7. QED
    BY <1>1, <1>3, <1>4, <1>6 DEF Queued, S

LEMMA DoneAppends ==
    ASSUME NEW c, NEW d \in Dones, done \in Seq(Dones), done' = Append(done, d)
    PROVE  Ended(c)' = Ended(c) + (IF d.call = c THEN 1 ELSE 0)
<1> DEFINE n == Len(done)
           S == {i \in 1..(n + 1) : done'[i].call = c}
<1>1. n \in Nat /\ Len(done') = n + 1
    OBVIOUS
<1>2. (\A i \in 1..n : done'[i] = done[i]) /\ done'[n + 1] = d
    OBVIOUS
<1>3. S \ {n + 1} = {i \in 1..n : done[i].call = c}
    BY <1>1, <1>2
<1>4. n + 1 \in S <=> d.call = c
    BY <1>1, <1>2
<1>5. S \subseteq 1..(n + 1)
    OBVIOUS
<1> HIDE DEF S
<1>6. Cardinality(S) = Cardinality(S \ {n + 1}) + (IF n + 1 \in S THEN 1 ELSE 0)
    BY <1>1, <1>5, LastCounted
<1>7. QED
    BY <1>1, <1>3, <1>4, <1>6 DEF Ended, S

LEMMA DoneTakes ==
    ASSUME NEW c, done \in Seq(Dones), done # <<>>, done' = Tail(done)
    PROVE  Ended(c)' \in Nat /\ Ended(c) = Ended(c)' + (IF Head(done).call = c THEN 1 ELSE 0)
<1> DEFINE n == Len(done) - 1
           S == {i \in 1..(n + 1) : done[i].call = c}
<1>1. n \in Nat /\ Len(done) = n + 1 /\ Len(done') = n
    OBVIOUS
<1>2. (\A i \in 1..n : done'[i] = done[i + 1]) /\ Head(done) = done[1]
    OBVIOUS
<1>3. {i \in 1..n : i + 1 \in S} = {i \in 1..n : done'[i].call = c}
    BY <1>1, <1>2
<1>4. 1 \in S <=> Head(done).call = c
    BY <1>1, <1>2
<1>5. S \subseteq 1..(n + 1)
    OBVIOUS
<1> HIDE DEF S
<1>6. /\ Cardinality({i \in 1..n : i + 1 \in S}) \in Nat
      /\ Cardinality(S) = Cardinality({i \in 1..n : i + 1 \in S}) + (IF 1 \in S THEN 1 ELSE 0)
    BY <1>1, <1>5, FirstCounted
<1>7. QED
    BY <1>1, <1>3, <1>4, <1>6 DEF Ended, S

\* Wherever a call is, it is counted.
LEMMA Somewhere ==
    ASSUME NEW c, queue \in Seq(Calls), done \in Seq(Dones),
           \/ \E i \in 1..Len(queue) : queue[i] = c
           \/ \E i \in 1..Len(done) : done[i].call = c
           \/ running = c
           \/ refreshing # None /\ refreshing.call = c
    PROVE  InFlight(c) >= 1
<1>1. Len(queue) \in Nat /\ Len(done) \in Nat
    OBVIOUS
<1>2. ASSUME \E i \in 1..Len(queue) : queue[i] = c PROVE Queued(c) >= 1
  <2> DEFINE S == {i \in 1..Len(queue) : queue[i] = c}
  <2>1. S \subseteq 1..Len(queue) /\ S # {}
    BY <1>2
  <2> HIDE DEF S
  <2>2. Cardinality(S) \in Nat /\ Cardinality(S) # 0
    BY <1>1, <2>1, Positions
  <2>3. QED
    BY <2>2 DEF Queued, S
<1>3. ASSUME \E i \in 1..Len(done) : done[i].call = c PROVE Ended(c) >= 1
  <2> DEFINE S == {i \in 1..Len(done) : done[i].call = c}
  <2>1. S \subseteq 1..Len(done) /\ S # {}
    BY <1>3
  <2> HIDE DEF S
  <2>2. Cardinality(S) \in Nat /\ Cardinality(S) # 0
    BY <1>1, <2>1, Positions
  <2>3. QED
    BY <2>2 DEF Ended, S
<1>4. QED
    BY <1>2, <1>3, Counted DEF Runs, Read

-----------------------------------------------------------------------------
(* Calls that move *)

LEMMA Sum ==
    ASSUME NEW c
    PROVE  /\ InFlight(c) = Queued(c) + Ended(c) + Runs(c) + Read(c)
           /\ InFlight(c)' = Queued(c)' + Ended(c)' + Runs(c)' + Read(c)'
BY DEF InFlight, Queued, Ended, Runs, Read

LEMMA Types ==
    ASSUME TypeOK
    PROVE  /\ queue \in Seq(Calls) /\ done \in Seq(Dones) /\ running \in Calls \cup {None}
           /\ refreshing \in Scans \cup {None} /\ None \notin Calls /\ None \notin Scans
BY NoneAssumption DEF TypeOK, Dones

\* A call of the queue, or of a future that is done.
LEMMA Heads ==
    ASSUME TypeOK
    PROVE  /\ queue # <<>> => Head(queue) \in Calls /\ Head(queue) = queue[1] /\ 1 \in 1..Len(queue)
           /\ done # <<>> => /\ Head(done) \in Dones /\ Head(done) = done[1]
                             /\ Head(done).call \in Calls /\ 1 \in 1..Len(done)
<1>1. queue \in Seq(Calls) /\ done \in Seq(Dones)
    BY Types
<1>2. queue # <<>> => Head(queue) \in Calls /\ Head(queue) = queue[1] /\ 1 \in 1..Len(queue)
    BY <1>1
<1>3. done # <<>> => Head(done) \in Dones /\ Head(done) = done[1] /\ 1 \in 1..Len(done)
    BY <1>1
<1>4. QED
    BY <1>2, <1>3 DEF Dones

LEMMA Submitting ==
    ASSUME TypeOK, NEW d \in Calls, queue' = Append(queue, d),
           UNCHANGED <<running, done, refreshing>>, NEW c
    PROVE  InFlight(c)' = InFlight(c) + (IF d = c THEN 1 ELSE 0) /\ InFlight(c) \in Nat
<1>1. Queued(c)' = Queued(c) + (IF d = c THEN 1 ELSE 0)
    BY Types, QueueAppends
<1>2. Ended(c)' = Ended(c) /\ Runs(c)' = Runs(c) /\ Read(c)' = Read(c)
    BY DEF Ended, Runs, Read
<1>3. /\ Queued(c) \in Nat /\ Ended(c) \in Nat /\ Runs(c) \in {0, 1} /\ Read(c) \in {0, 1}
      /\ InFlight(c) \in Nat
    BY Types, Counted
<1>4. QED
    BY <1>1, <1>2, <1>3, Sum

\* The worker drops a call.
LEMMA Discarding ==
    ASSUME TypeOK, Discard, NEW c
    PROVE  InFlight(c)' = InFlight(c) - (IF Head(queue) = c THEN 1 ELSE 0)
<1>1. Queued(c)' \in Nat /\ Queued(c) = Queued(c)' + (IF Head(queue) = c THEN 1 ELSE 0)
    BY Types, QueueTakes DEF Discard, Take
<1>2. Ended(c)' = Ended(c) /\ Runs(c)' = Runs(c) /\ Read(c)' = Read(c)
    BY DEF Ended, Runs, Read, Discard
<1>3. Queued(c) \in Nat /\ Ended(c) \in Nat /\ Runs(c) \in {0, 1} /\ Read(c) \in {0, 1}
    BY Types, Counted
<1>4. QED
    BY <1>1, <1>2, <1>3, Sum

\* The worker begins a call.
LEMMA Starting ==
    ASSUME TypeOK, Start, NEW c \in Calls
    PROVE  InFlight(c)' = InFlight(c)
<1>1. Queued(c)' \in Nat /\ Queued(c) = Queued(c)' + (IF Head(queue) = c THEN 1 ELSE 0)
    BY Types, QueueTakes DEF Start, Take
<1>2. Ended(c)' = Ended(c) /\ Read(c)' = Read(c)
    BY DEF Ended, Read, Start
<1>3. Runs(c) = 0 /\ Runs(c)' = IF Head(queue) = c THEN 1 ELSE 0
    BY Types DEF Runs, Start, Take
<1>4. Queued(c) \in Nat /\ Ended(c) \in Nat /\ Read(c) \in {0, 1}
    BY Types, Counted
<1>5. QED
    BY <1>1, <1>2, <1>3, <1>4, Sum

\* A call raises as it begins.
LEMMA Refusing ==
    ASSUME TypeOK, Refuse, NEW c
    PROVE  InFlight(c)' = InFlight(c)
<1>1. Queued(c)' \in Nat /\ Queued(c) = Queued(c)' + (IF Head(queue) = c THEN 1 ELSE 0)
    BY Types, QueueTakes DEF Refuse, Take
<1>2. PICK d \in Dones : d.call = Head(queue) /\ done' = Append(done, d)
    BY Heads DEF Refuse, Take, Dones
<1>3. Ended(c)' = Ended(c) + (IF Head(queue) = c THEN 1 ELSE 0)
    BY <1>2, Types, DoneAppends
<1>4. Runs(c)' = Runs(c) /\ Read(c)' = Read(c)
    BY DEF Runs, Read, Refuse
<1>5. Queued(c) \in Nat /\ Ended(c) \in Nat /\ Runs(c) \in {0, 1} /\ Read(c) \in {0, 1}
    BY Types, Counted
<1>6. QED
    BY <1>1, <1>3, <1>4, <1>5, Sum

\* A call ends.
LEMMA Finishing ==
    ASSUME TypeOK, Finish, NEW c \in Calls
    PROVE  InFlight(c)' = InFlight(c)
<1>1. PICK d \in Dones : d.call = running /\ done' = Append(done, d)
    BY Types DEF Finish, Dones
<1>2. Ended(c)' = Ended(c) + (IF running = c THEN 1 ELSE 0)
    BY <1>1, Types, DoneAppends
<1>3. Runs(c) = (IF running = c THEN 1 ELSE 0) /\ Runs(c)' = 0
    BY Types DEF Runs, Finish
<1>4. Queued(c)' = Queued(c) /\ Read(c)' = Read(c)
    BY DEF Queued, Read, Finish
<1>5. Queued(c) \in Nat /\ Ended(c) \in Nat /\ Read(c) \in {0, 1}
    BY Types, Counted
<1>6. QED
    BY <1>2, <1>3, <1>4, <1>5, Sum

\* A handler is resumed or is gone, or it enters health().
LEMMA Delivering ==
    ASSUME TypeOK, Deliver, NEW c
    PROVE  /\ UNCHANGED refreshing =>
                InFlight(c)' = InFlight(c) - (IF Head(done).call = c THEN 1 ELSE 0)
           /\ refreshing' # None /\ refreshing'.call = Head(done).call =>
                InFlight(c)' = InFlight(c)
<1>1. Ended(c)' \in Nat /\ Ended(c) = Ended(c)' + (IF Head(done).call = c THEN 1 ELSE 0)
    BY Types, DoneTakes DEF Deliver
<1>2. Queued(c)' = Queued(c) /\ Runs(c)' = Runs(c) /\ Read(c) = 0
    BY DEF Queued, Runs, Read, Deliver, LoopFree
<1>3. Queued(c) \in Nat /\ Ended(c) \in Nat /\ Runs(c) \in {0, 1}
    BY Types, Counted
<1>4. UNCHANGED refreshing => Read(c)' = 0
    BY <1>2 DEF Read
<1>5. refreshing' # None /\ refreshing'.call = Head(done).call =>
          Read(c)' = IF Head(done).call = c THEN 1 ELSE 0
    BY DEF Read
<1>6. QED
    BY <1>1, <1>2, <1>3, <1>4, <1>5, Sum

\* health() goes on with its scan.
LEMMA Scanning ==
    ASSUME TypeOK, NEW s \in Sessions, Scan(s), NEW c
    PROVE  InFlight(c)' = InFlight(c)
<1>1. Queued(c)' = Queued(c) /\ Runs(c)' = Runs(c) /\ Ended(c)' = Ended(c)
    BY DEF Queued, Runs, Ended, Scan, workerVars
<1>2. refreshing \in Scans /\ refreshing'.call = refreshing.call /\ refreshing' \in Scans
    BY Types DEF Scan, Scans
<1>3. Read(c)' = Read(c)
    BY <1>2, Types DEF Read, Scan
<1>4. QED
    BY <1>1, <1>3, Sum

\* health() is over, and its handler goes on.
LEMMA Refreshing ==
    ASSUME TypeOK, Refreshed \/ RefreshRaises, NEW c
    PROVE  InFlight(c)' = InFlight(c) - (IF refreshing.call = c THEN 1 ELSE 0)
<1>1. Queued(c)' = Queued(c) /\ Runs(c)' = Runs(c) /\ Ended(c)' = Ended(c)
    BY DEF Queued, Runs, Ended, Refreshed, RefreshRaises, workerVars
<1>2. Read(c) = (IF refreshing.call = c THEN 1 ELSE 0) /\ Read(c)' = 0
    BY DEF Read, Refreshed, RefreshRaises
<1>3. Queued(c) \in Nat /\ Ended(c) \in Nat /\ Runs(c) \in {0, 1}
    BY Types, Counted
<1>4. QED
    BY <1>1, <1>2, <1>3, Sum

-----------------------------------------------------------------------------
(* The invariant *)

Generate(r) == Call("generate", r)
Reset(r) == Call("reset", r)
Prepare(r) == Call("prepare", r)

\* A request that has been sent has asked for something, and what is under way for it
\* is what it has asked for.
AskedInv ==
    \A r \in Requests :
        /\ status[r] # "new" => asked[r] \in Asks
        /\ InFlight(Generate(r)) >= 1 => asked[r].kind = "generate"
        /\ InFlight(Reset(r)) >= 1 => asked[r].kind = "reset"

\* The postfill of a task is under way exactly when the task waits for it; the worker
\* may still drop, or end, that of a cancelled one.
TasksInv ==
    \A r \in Requests :
        /\ InFlight(Prepare(r)) <= 1
        /\ tasks[r] = "submitted" => InFlight(Prepare(r)) = 1
        /\ tasks[r] \notin {"submitted", "cancelled"} => InFlight(Prepare(r)) = 0
        /\ tasks[r] # "none" => status[r] \notin {"new", "waiting"} /\ asked[r].kind = "generate"

\* engine.close is submitted once, when no request and no task is left.
CloseInv ==
    /\ InFlight(Close) = IF life = "closing" THEN 1 ELSE 0
    /\ life # "serving" =>
          \A r \in Requests : status[r] # "waiting" /\ tasks[r] \notin {"sleeping", "submitted"}

\* Where engine.close is, nothing comes after it.
CloseOrder ==
    /\ \A i \in 1..Len(queue) : queue[i] = Close => i = Len(queue)
    /\ running = Close => queue = <<>>
    /\ \/ \E i \in 1..Len(done) : done[i].call = Close
       \/ refreshing # None /\ refreshing.call = Close
       \/ life = "closed"
       => queue = <<>> /\ running = None

Books == AskedInv /\ TasksInv /\ CloseInv /\ SlotAccounting /\ CallsMatchRequests

ServerInv == TypeOK /\ Books /\ CloseOrder

LEMMA CallShape ==
    ASSUME NEW c \in Calls
    PROVE  \/ c = Close
           \/ \E r \in Requests : c \in {Generate(r), Reset(r), Prepare(r)} /\ c.of = r
BY DEF Calls, Close, Call, Generate, Reset, Prepare

LEMMA CallFields ==
    ASSUME NEW r \in Requests
    PROVE  /\ {Generate(r), Reset(r), Prepare(r), Close} \subseteq Calls
           /\ Generate(r).kind = "generate" /\ Reset(r).kind = "reset"
           /\ Prepare(r).kind = "prepare" /\ Close.kind = "close"
           /\ Generate(r).of = r /\ Reset(r).of = r /\ Prepare(r).of = r
           /\ \A q \in Requests : /\ Generate(r) # Reset(q) /\ Generate(r) # Prepare(q)
                                  /\ Reset(r) # Prepare(q)
                                  /\ (Generate(r) = Generate(q) => r = q)
                                  /\ (Reset(r) = Reset(q) => r = q)
                                  /\ (Prepare(r) = Prepare(q) => r = q)
           /\ Close # Generate(r) /\ Close # Reset(r) /\ Close # Prepare(r)
BY DEF Calls, Close, Call, Generate, Reset, Prepare

LEMMA CloseIsCall == Close \in Calls
BY DEF Calls

\* Each request, and engine.close, are somewhere a whole number of times.
LEMMA Whole ==
    ASSUME TypeOK, NEW c
    PROVE  InFlight(c) \in Nat
BY Types, Counted

LEMMA WaitingFinite ==
    ASSUME NEW k
    PROVE  IsFiniteSet(Waiting(k)) /\ Cardinality(Waiting(k)) \in Nat
<1>1. Waiting(k) \subseteq Requests
    BY DEF Waiting
<1>2. IsFiniteSet(Waiting(k))
    BY <1>1, RequestAssumption, FS_Subset
<1>3. QED
    BY <1>2, FS_CardinalityType

\* Steps of the worker and the loop that end no request, task or server: calls move,
\* and those of cancelled tasks may be dropped.
LEMMA BooksKept ==
    ASSUME TypeOK, Books, UNCHANGED <<config, clientVars, tasks, life>>,
           \A c \in Calls : \/ InFlight(c)' = InFlight(c)
                            \/ Abandoned(c) /\ InFlight(c) >= 1 /\ InFlight(c)' = InFlight(c) - 1
    PROVE  Books'
<1>1. asked' = asked /\ status' = status /\ pending' = pending /\ tasks' = tasks /\ life' = life
      /\ Asks' = Asks
    BY DEF clientVars, Asks
<1>2. ASSUME NEW r \in Requests
      PROVE  /\ InFlight(Generate(r))' = InFlight(Generate(r))
             /\ InFlight(Reset(r))' = InFlight(Reset(r))
             /\ \/ InFlight(Prepare(r))' = InFlight(Prepare(r))
                \/ tasks[r] = "cancelled" /\ InFlight(Prepare(r))' = InFlight(Prepare(r)) - 1
    BY CallFields DEF Abandoned
<1>3. InFlight(Close)' = InFlight(Close)
    BY CallFields, CloseIsCall DEF Abandoned, Close, Call
<1>4. \A r \in Requests : InFlight(Prepare(r)) \in Nat
    BY Whole
<1>5. AskedInv'
    BY <1>1, <1>2 DEF Books, AskedInv
<1>6. TasksInv'
    BY <1>1, <1>2, <1>4 DEF Books, TasksInv
<1>7. CloseInv'
    BY <1>1, <1>3 DEF Books, CloseInv
<1>8. SlotAccounting'
    BY <1>1 DEF Books, SlotAccounting, Waiting
<1>9. CallsMatchRequests'
    BY <1>1, <1>2 DEF Books, CallsMatchRequests, Generate, Reset
<1>10. QED
    BY <1>5, <1>6, <1>7, <1>8, <1>9 DEF Books

\* A handler gets to its end.
Resumes(call, answer) ==
    /\ call \in Calls /\ answer \in {"ok", "error"}
    /\ InFlight(call) >= 1 /\ UNCHANGED config
    /\ Resume(call, answer)
    /\ \A c \in Calls : InFlight(c)' = InFlight(c) - (IF call = c THEN 1 ELSE 0)

\* The handler of a completion request gives its slot back and may make a task.
LEMMA GenerateResumes ==
    ASSUME TypeOK, Books, NEW r \in Requests, NEW answer, Resumes(Generate(r), answer)
    PROVE  Books'
<1>1. /\ asked' = asked /\ life' = life /\ Asks' = Asks
      /\ status' = [status EXCEPT ![r] = answer] /\ pending' = pending - 1
    BY CallFields DEF Resumes, Resume, Answered, Released, Asks
<1>2. InFlight(Generate(r)) = 1 /\ status[r] = "waiting" /\ InFlight(Reset(r)) = 0
  <2>1. InFlight(Generate(r)) + InFlight(Reset(r)) = IF status[r] = "waiting" THEN 1 ELSE 0
    BY DEF Books, CallsMatchRequests, Generate, Reset
  <2>2. InFlight(Generate(r)) \in Nat /\ InFlight(Reset(r)) \in Nat /\ InFlight(Generate(r)) >= 1
    BY Whole DEF Resumes
  <2>3. QED
    BY <2>1, <2>2
<1>3. life = "serving" /\ tasks[r] = "none" /\ asked[r].kind = "generate" /\ asked[r] \in Asks
    BY <1>2 DEF Books, CloseInv, TasksInv, AskedInv
<1>4. tasks' \in {tasks, [tasks EXCEPT ![r] = "sleeping"]}
    BY CallFields DEF Resumes, Resume
<1>5. /\ InFlight(Generate(r))' = 0
      /\ \A q \in Requests \ {r} : InFlight(Generate(q))' = InFlight(Generate(q))
      /\ \A q \in Requests : /\ InFlight(Reset(q))' = InFlight(Reset(q))
                             /\ InFlight(Prepare(q))' = InFlight(Prepare(q))
      /\ InFlight(Close)' = InFlight(Close)
  <2>1. \A c \in Calls : InFlight(c) \in Nat
    BY Whole
  <2>2. \A c \in Calls \ {Generate(r)} : InFlight(c)' = InFlight(c)
    BY <2>1 DEF Resumes
  <2>3. Generate(r) \in Calls /\ InFlight(Generate(r))' = InFlight(Generate(r)) - 1
    BY CallFields DEF Resumes
  <2>4. QED
    BY <1>2, <2>2, <2>3, CallFields, CloseIsCall
<1>6. status \in [Requests -> {"new", "waiting", "ok", "error", "rejected"}]
      /\ tasks \in [Requests -> {"none", "sleeping", "submitted", "done", "cancelled"}]
      /\ answer \in {"ok", "error"}
    BY DEF TypeOK, Resumes
<1>7. AskedInv'
    BY <1>1, <1>3, <1>5, <1>6 DEF Books, AskedInv
<1>8. TasksInv'
    BY <1>1, <1>2, <1>3, <1>4, <1>5, <1>6 DEF Books, TasksInv
<1>9. CloseInv'
    BY <1>1, <1>3, <1>5 DEF Books, CloseInv
<1>10. SlotAccounting'
  <2>1. r \in Waiting("generate") /\ Waiting("generate")' = Waiting("generate") \ {r}
    BY <1>1, <1>2, <1>3, <1>6 DEF Waiting
  <2>2. Cardinality(Waiting("generate") \ {r}) = Cardinality(Waiting("generate")) - 1
    BY <2>1, WaitingFinite, FS_RemoveElement
  <2>3. QED
    BY <1>1, <2>1, <2>2, WaitingFinite, QueueAssumption DEF Books, SlotAccounting
<1>11. CallsMatchRequests'
  <2>1. ASSUME NEW q \in Requests
        PROVE  InFlight(Generate(q))' + InFlight(Reset(q))'
                   = IF status'[q] = "waiting" THEN 1 ELSE 0
    <3>1. CASE q = r
      BY <3>1, <1>1, <1>2, <1>5, <1>6
    <3>2. CASE q # r
      BY <3>2, <1>1, <1>5, <1>6 DEF Books, CallsMatchRequests, Generate, Reset
    <3>3. QED
      BY <3>1, <3>2
  <2>2. QED
    BY <2>1 DEF CallsMatchRequests, Generate, Reset
<1>12. QED
    BY <1>7, <1>8, <1>9, <1>10, <1>11 DEF Books

\* The handler of a reset took no slot.
LEMMA ResetResumes ==
    ASSUME TypeOK, Books, NEW r \in Requests, NEW answer, Resumes(Reset(r), answer)
    PROVE  Books'
<1>1. /\ asked' = asked /\ life' = life /\ Asks' = Asks /\ tasks' = tasks
      /\ status' = [status EXCEPT ![r] = answer] /\ pending' = pending
    BY CallFields DEF Resumes, Resume, Answered, Released, Asks, Schedules
<1>2. InFlight(Reset(r)) = 1 /\ status[r] = "waiting" /\ InFlight(Generate(r)) = 0
  <2>1. InFlight(Generate(r)) + InFlight(Reset(r)) = IF status[r] = "waiting" THEN 1 ELSE 0
    BY DEF Books, CallsMatchRequests, Generate, Reset
  <2>2. InFlight(Generate(r)) \in Nat /\ InFlight(Reset(r)) \in Nat /\ InFlight(Reset(r)) >= 1
    BY Whole DEF Resumes
  <2>3. QED
    BY <2>1, <2>2
<1>3. life = "serving" /\ tasks[r] = "none" /\ asked[r].kind = "reset" /\ asked[r] \in Asks
    BY <1>2 DEF Books, CloseInv, TasksInv, AskedInv
<1>4. /\ InFlight(Reset(r))' = 0
      /\ \A q \in Requests \ {r} : InFlight(Reset(q))' = InFlight(Reset(q))
      /\ \A q \in Requests : /\ InFlight(Generate(q))' = InFlight(Generate(q))
                             /\ InFlight(Prepare(q))' = InFlight(Prepare(q))
      /\ InFlight(Close)' = InFlight(Close)
  <2>1. \A c \in Calls : InFlight(c) \in Nat
    BY Whole
  <2>2. \A c \in Calls \ {Reset(r)} : InFlight(c)' = InFlight(c)
    BY <2>1 DEF Resumes
  <2>3. Reset(r) \in Calls /\ InFlight(Reset(r))' = InFlight(Reset(r)) - 1
    BY CallFields DEF Resumes
  <2>4. QED
    BY <1>2, <2>2, <2>3, CallFields, CloseIsCall
<1>5. status \in [Requests -> {"new", "waiting", "ok", "error", "rejected"}]
      /\ answer \in {"ok", "error"}
    BY DEF TypeOK, Resumes
<1>6. AskedInv'
    BY <1>1, <1>3, <1>4, <1>5 DEF Books, AskedInv
<1>7. TasksInv'
    BY <1>1, <1>3, <1>4, <1>5 DEF Books, TasksInv
<1>8. CloseInv'
    BY <1>1, <1>3, <1>4 DEF Books, CloseInv
<1>9. SlotAccounting'
  <2>1. Waiting("generate")' = Waiting("generate")
    BY <1>1, <1>3, <1>5 DEF Waiting
  <2>2. QED
    BY <1>1, <2>1 DEF Books, SlotAccounting
<1>10. CallsMatchRequests'
  <2>1. ASSUME NEW q \in Requests
        PROVE  InFlight(Generate(q))' + InFlight(Reset(q))'
                   = IF status'[q] = "waiting" THEN 1 ELSE 0
    <3>1. CASE q = r
      BY <3>1, <1>1, <1>2, <1>4, <1>5
    <3>2. CASE q # r
      BY <3>2, <1>1, <1>4, <1>5 DEF Books, CallsMatchRequests, Generate, Reset
    <3>3. QED
      BY <3>1, <3>2
  <2>2. QED
    BY <2>1 DEF CallsMatchRequests, Generate, Reset
<1>11. QED
    BY <1>6, <1>7, <1>8, <1>9, <1>10 DEF Books

\* A postfill task is over.
LEMMA PrepareResumes ==
    ASSUME TypeOK, Books, NEW r \in Requests, NEW answer, Resumes(Prepare(r), answer)
    PROVE  Books'
<1>1. /\ asked' = asked /\ life' = life /\ Asks' = Asks /\ status' = status
      /\ pending' = pending /\ tasks' = [tasks EXCEPT ![r] = "done"]
  <2>1. Prepare(r).kind = "prepare" /\ Prepare(r).of = r
    BY CallFields
  <2>2. Resume(Prepare(r), answer) /\ config' = config
    BY DEF Resumes
  <2>3. status' = status /\ pending' = pending /\ asked' = asked
    BY <2>1, <2>2 DEF Resume, Answered, Released
  <2>4. tasks' = [tasks EXCEPT ![r] = "done"] /\ life' = life
    BY <2>1, <2>2 DEF Resume, Schedules
  <2>5. QED
    BY <2>2, <2>3, <2>4 DEF Asks
<1>2. tasks \in [Requests -> {"none", "sleeping", "submitted", "done", "cancelled"}]
    BY DEF TypeOK
<1>3. InFlight(Prepare(r)) = 1 /\ tasks[r] \in {"submitted", "cancelled"}
  <2>1. InFlight(Prepare(r)) >= 1 /\ InFlight(Prepare(r)) \in Nat
    BY Whole DEF Resumes
  <2>2. QED
    BY <2>1 DEF Books, TasksInv
<1>4. /\ InFlight(Prepare(r))' = 0
      /\ \A q \in Requests \ {r} : InFlight(Prepare(q))' = InFlight(Prepare(q))
      /\ \A q \in Requests : /\ InFlight(Generate(q))' = InFlight(Generate(q))
                             /\ InFlight(Reset(q))' = InFlight(Reset(q))
      /\ InFlight(Close)' = InFlight(Close)
  <2>1. \A c \in Calls : InFlight(c) \in Nat
    BY Whole
  <2>2. \A c \in Calls \ {Prepare(r)} : InFlight(c)' = InFlight(c)
    BY <2>1 DEF Resumes
  <2>3. Prepare(r) \in Calls /\ InFlight(Prepare(r))' = InFlight(Prepare(r)) - 1
    BY CallFields DEF Resumes
  <2>4. QED
    BY <1>3, <2>2, <2>3, CallFields, CloseIsCall
<1>5. AskedInv'
    BY <1>1, <1>4 DEF Books, AskedInv
<1>6. TasksInv'
    BY <1>1, <1>2, <1>3, <1>4 DEF Books, TasksInv
<1>7. CloseInv'
    BY <1>1, <1>2, <1>4 DEF Books, CloseInv
<1>8. SlotAccounting'
    BY <1>1 DEF Books, SlotAccounting, Waiting
<1>9. CallsMatchRequests'
    BY <1>1, <1>4 DEF Books, CallsMatchRequests, Generate, Reset
<1>10. QED
    BY <1>5, <1>6, <1>7, <1>8, <1>9 DEF Books

\* engine.close is over.
LEMMA CloseResumes ==
    ASSUME TypeOK, Books, NEW answer, Resumes(Close, answer)
    PROVE  Books'
<1>0. Close.kind = "close"
    BY DEF Close, Call
<1>1. /\ asked' = asked /\ life' = "closed" /\ Asks' = Asks /\ status' = status
      /\ pending' = pending /\ tasks' = tasks
    BY <1>0 DEF Resumes, Resume, Answered, Released, Asks, Schedules
<1>2. life = "closing" /\ InFlight(Close) = 1
    BY Whole DEF Resumes, Books, CloseInv
<1>3. /\ InFlight(Close)' = 0
      /\ \A q \in Requests : /\ InFlight(Generate(q))' = InFlight(Generate(q))
                             /\ InFlight(Reset(q))' = InFlight(Reset(q))
                             /\ InFlight(Prepare(q))' = InFlight(Prepare(q))
  <2>1. \A c \in Calls : InFlight(c) \in Nat
    BY Whole
  <2>2. QED
    BY <1>2, <2>1, CallFields, CloseIsCall DEF Resumes
<1>4. AskedInv'
    BY <1>1, <1>3 DEF Books, AskedInv
<1>5. TasksInv'
    BY <1>1, <1>3 DEF Books, TasksInv
<1>6. CloseInv'
    BY <1>1, <1>2, <1>3 DEF Books, CloseInv
<1>7. SlotAccounting'
    BY <1>1 DEF Books, SlotAccounting, Waiting
<1>8. CallsMatchRequests'
    BY <1>1, <1>3 DEF Books, CallsMatchRequests, Generate, Reset
<1>9. QED
    BY <1>4, <1>5, <1>6, <1>7, <1>8 DEF Books

LEMMA BooksResumed ==
    ASSUME TypeOK, Books, NEW call, NEW answer, Resumes(call, answer)
    PROVE  Books'
<1>1. call \in Calls
    BY DEF Resumes
<1>2. QED
    BY <1>1, CallShape, GenerateResumes, ResetResumes, PrepareResumes, CloseResumes

-----------------------------------------------------------------------------
(* Requests that come, tasks that wake, and shutdown *)

LEMMA Statuses ==
    ASSUME TypeOK
    PROVE  /\ status \in [Requests -> {"new", "waiting", "ok", "error", "rejected"}]
           /\ tasks \in [Requests -> {"none", "sleeping", "submitted", "done", "cancelled"}]
           /\ asked \in [Requests -> Asks \cup {None}]
           /\ pending \in Nat /\ life \in {"serving", "stopping", "closing", "closed"}
BY DEF TypeOK

\* A request that has not been sent has nothing under way.
LEMMA NewIsNowhere ==
    ASSUME TypeOK, Books, NEW r \in Requests, status[r] = "new"
    PROVE  /\ InFlight(Generate(r)) = 0 /\ InFlight(Reset(r)) = 0 /\ InFlight(Prepare(r)) = 0
           /\ tasks[r] = "none"
<1>1. InFlight(Generate(r)) + InFlight(Reset(r)) = 0
    BY DEF Books, CallsMatchRequests, Generate, Reset
<1>2. tasks[r] = "none"
    BY DEF Books, TasksInv
<1>3. QED
    BY <1>1, <1>2, Whole DEF Books, TasksInv

\* A request is answered 429 at once.
LEMMA RejectedBooks ==
    ASSUME TypeOK, Books, NEW r \in Requests, NEW ask \in Asks, Admit(r, ask), Full,
           UNCHANGED config
    PROVE  Books'
<1>1. /\ status[r] = "new" /\ status' = [status EXCEPT ![r] = "rejected"]
      /\ asked' = [asked EXCEPT ![r] = ask] /\ Asks' = Asks
      /\ pending' = pending /\ tasks' = tasks /\ life' = life /\ life = "serving"
    BY DEF Admit, Asks
<1>2. \A c : InFlight(c)' = InFlight(c)
    BY DEF Admit, InFlight
<1>3. /\ InFlight(Generate(r)) = 0 /\ InFlight(Reset(r)) = 0 /\ InFlight(Prepare(r)) = 0
      /\ tasks[r] = "none"
    BY <1>1, NewIsNowhere
<1>4. AskedInv'
    BY <1>1, <1>2, <1>3, Statuses DEF Books, AskedInv
<1>5. TasksInv'
    BY <1>1, <1>2, <1>3, Statuses DEF Books, TasksInv
<1>6. CloseInv'
    BY <1>1, <1>2 DEF Books, CloseInv
<1>7. SlotAccounting'
  <2>1. Waiting("generate")' = Waiting("generate")
    BY <1>1, Statuses DEF Waiting
  <2>2. QED
    BY <1>1, <2>1 DEF Books, SlotAccounting
<1>8. CallsMatchRequests'
    BY <1>1, <1>2, <1>3, Statuses DEF Books, CallsMatchRequests, Generate, Reset
<1>9. QED
    BY <1>4, <1>5, <1>6, <1>7, <1>8 DEF Books

\* A request takes a slot, and its call is submitted.
LEMMA AdmittedBooks ==
    ASSUME TypeOK, Books, NEW r \in Requests, NEW ask \in Asks, Admit(r, ask), ~Full,
           UNCHANGED config
    PROVE  Books'
<1>1. /\ status[r] = "new" /\ status' = [status EXCEPT ![r] = "waiting"]
      /\ asked' = [asked EXCEPT ![r] = ask] /\ ask.kind = "generate" /\ Asks' = Asks
      /\ pending' = pending + 1 /\ tasks' = tasks /\ life' = life /\ life = "serving"
    BY DEF Admit, Asks
<1>2. /\ queue' = Append(queue, Generate(r)) /\ UNCHANGED <<running, done, refreshing>>
      /\ Generate(r) \in Calls
    BY CallFields DEF Admit, Generate
<1>3. \A c : InFlight(c)' = InFlight(c) + (IF Generate(r) = c THEN 1 ELSE 0) /\ InFlight(c) \in Nat
    BY <1>2, Submitting
<1>4. /\ InFlight(Generate(r)) = 0 /\ InFlight(Reset(r)) = 0 /\ InFlight(Prepare(r)) = 0
      /\ tasks[r] = "none"
    BY <1>1, NewIsNowhere
<1>5. /\ InFlight(Generate(r))' = 1
      /\ \A q \in Requests \ {r} : InFlight(Generate(q))' = InFlight(Generate(q))
      /\ \A q \in Requests : /\ InFlight(Reset(q))' = InFlight(Reset(q))
                             /\ InFlight(Prepare(q))' = InFlight(Prepare(q))
      /\ InFlight(Close)' = InFlight(Close)
    BY <1>3, <1>4, CallFields
<1>6. AskedInv'
    BY <1>1, <1>4, <1>5, Statuses DEF Books, AskedInv
<1>7. TasksInv'
    BY <1>1, <1>4, <1>5, Statuses DEF Books, TasksInv
<1>8. CloseInv'
    BY <1>1, <1>5 DEF Books, CloseInv
<1>9. SlotAccounting'
  <2>1. r \notin Waiting("generate") /\ Waiting("generate")' = Waiting("generate") \cup {r}
    BY <1>1, Statuses DEF Waiting
  <2>2. Cardinality(Waiting("generate") \cup {r}) = Cardinality(Waiting("generate")) + 1
    BY <2>1, WaitingFinite, FS_AddElement
  <2>3. pending + 1 <= MaxQueueSize
    BY Statuses, QueueAssumption DEF Full
  <2>4. QED
    BY <1>1, <2>1, <2>2, <2>3 DEF Books, SlotAccounting
<1>10. CallsMatchRequests'
  <2>1. ASSUME NEW q \in Requests
        PROVE  InFlight(Generate(q))' + InFlight(Reset(q))'
                   = IF status'[q] = "waiting" THEN 1 ELSE 0
    <3>1. CASE q = r
      BY <3>1, <1>1, <1>4, <1>5, Statuses
    <3>2. CASE q # r
      BY <3>2, <1>1, <1>5, Statuses DEF Books, CallsMatchRequests, Generate, Reset
    <3>3. QED
      BY <3>1, <3>2
  <2>2. QED
    BY <2>1 DEF CallsMatchRequests, Generate, Reset
<1>11. QED
    BY <1>6, <1>7, <1>8, <1>9, <1>10 DEF Books

\* A reset is submitted.
LEMMA ResetBooks ==
    ASSUME TypeOK, Books, NEW r \in Requests, NEW ask \in Asks, AskReset(r, ask),
           UNCHANGED config
    PROVE  Books'
<1>1. /\ status[r] = "new" /\ status' = [status EXCEPT ![r] = "waiting"]
      /\ asked' = [asked EXCEPT ![r] = ask] /\ ask.kind = "reset" /\ Asks' = Asks
      /\ pending' = pending /\ tasks' = tasks /\ life' = life /\ life = "serving"
    BY DEF AskReset, Asks
<1>2. /\ queue' = Append(queue, Reset(r)) /\ UNCHANGED <<running, done, refreshing>>
      /\ Reset(r) \in Calls
    BY CallFields DEF AskReset, Reset
<1>3. \A c : InFlight(c)' = InFlight(c) + (IF Reset(r) = c THEN 1 ELSE 0) /\ InFlight(c) \in Nat
    BY <1>2, Submitting
<1>4. /\ InFlight(Generate(r)) = 0 /\ InFlight(Reset(r)) = 0 /\ InFlight(Prepare(r)) = 0
      /\ tasks[r] = "none"
    BY <1>1, NewIsNowhere
<1>5. /\ InFlight(Reset(r))' = 1
      /\ \A q \in Requests \ {r} : InFlight(Reset(q))' = InFlight(Reset(q))
      /\ \A q \in Requests : /\ InFlight(Generate(q))' = InFlight(Generate(q))
                             /\ InFlight(Prepare(q))' = InFlight(Prepare(q))
      /\ InFlight(Close)' = InFlight(Close)
    BY <1>3, <1>4, CallFields
<1>6. AskedInv'
    BY <1>1, <1>4, <1>5, Statuses DEF Books, AskedInv
<1>7. TasksInv'
    BY <1>1, <1>4, <1>5, Statuses DEF Books, TasksInv
<1>8. CloseInv'
    BY <1>1, <1>5 DEF Books, CloseInv
<1>9. SlotAccounting'
  <2>1. Waiting("generate")' = Waiting("generate")
    BY <1>1, Statuses DEF Waiting
  <2>2. QED
    BY <1>1, <2>1 DEF Books, SlotAccounting
<1>10. CallsMatchRequests'
  <2>1. ASSUME NEW q \in Requests
        PROVE  InFlight(Generate(q))' + InFlight(Reset(q))'
                   = IF status'[q] = "waiting" THEN 1 ELSE 0
    <3>1. CASE q = r
      BY <3>1, <1>1, <1>4, <1>5, Statuses
    <3>2. CASE q # r
      BY <3>2, <1>1, <1>5, Statuses DEF Books, CallsMatchRequests, Generate, Reset
    <3>3. QED
      BY <3>1, <3>2
  <2>2. QED
    BY <2>1 DEF CallsMatchRequests, Generate, Reset
<1>11. QED
    BY <1>6, <1>7, <1>8, <1>9, <1>10 DEF Books

\* A task submits its postfill.
LEMMA WakeBooks ==
    ASSUME TypeOK, Books, NEW r \in Requests, Wake(r), UNCHANGED config
    PROVE  Books' /\ life = "serving"
<1>1. /\ asked' = asked /\ status' = status /\ pending' = pending /\ Asks' = Asks /\ life' = life
      /\ tasks[r] = "sleeping" /\ tasks' = [tasks EXCEPT ![r] = "submitted"]
    BY DEF Wake, clientVars, Asks
<1>2. /\ queue' = Append(queue, Prepare(r)) /\ UNCHANGED <<running, done, refreshing>>
      /\ Prepare(r) \in Calls
    BY CallFields DEF Wake, Prepare
<1>3. \A c : InFlight(c)' = InFlight(c) + (IF Prepare(r) = c THEN 1 ELSE 0) /\ InFlight(c) \in Nat
    BY <1>2, Submitting
<1>4. InFlight(Prepare(r)) = 0 /\ life = "serving"
    BY <1>1 DEF Books, TasksInv, CloseInv
<1>5. /\ InFlight(Prepare(r))' = 1
      /\ \A q \in Requests \ {r} : InFlight(Prepare(q))' = InFlight(Prepare(q))
      /\ \A q \in Requests : /\ InFlight(Generate(q))' = InFlight(Generate(q))
                             /\ InFlight(Reset(q))' = InFlight(Reset(q))
      /\ InFlight(Close)' = InFlight(Close)
    BY <1>3, <1>4, CallFields
<1>6. AskedInv'
    BY <1>1, <1>5 DEF Books, AskedInv
<1>7. TasksInv'
    BY <1>1, <1>4, <1>5, Statuses DEF Books, TasksInv
<1>8. CloseInv'
    BY <1>1, <1>4, <1>5 DEF Books, CloseInv
<1>9. SlotAccounting'
    BY <1>1 DEF Books, SlotAccounting, Waiting
<1>10. CallsMatchRequests'
    BY <1>1, <1>5 DEF Books, CallsMatchRequests, Generate, Reset
<1>11. QED
    BY <1>4, <1>6, <1>7, <1>8, <1>9, <1>10 DEF Books

\* The tasks are cancelled; their calls are still where they were.
LEMMA ShutdownBooks ==
    ASSUME TypeOK, Books, Shutdown, UNCHANGED config
    PROVE  Books'
<1>1. /\ asked' = asked /\ status' = status /\ pending' = pending /\ Asks' = Asks
      /\ life = "serving" /\ life' = "stopping" /\ tasks' = CancelledTasks
      /\ \A r \in Requests : status[r] # "waiting"
    BY DEF Shutdown, clientVars, Asks
<1>2. \A c : InFlight(c)' = InFlight(c)
    BY DEF Shutdown, InFlight
<1>3. AskedInv'
    BY <1>1, <1>2 DEF Books, AskedInv
<1>4. TasksInv'
    BY <1>1, <1>2 DEF Books, TasksInv, CancelledTasks
<1>5. CloseInv'
    BY <1>1, <1>2 DEF Books, CloseInv, CancelledTasks
<1>6. SlotAccounting'
    BY <1>1 DEF Books, SlotAccounting, Waiting
<1>7. CallsMatchRequests'
    BY <1>1, <1>2 DEF Books, CallsMatchRequests
<1>8. QED
    BY <1>3, <1>4, <1>5, <1>6, <1>7 DEF Books

\* engine.close is submitted.
LEMMA SubmitCloseBooks ==
    ASSUME TypeOK, Books, SubmitClose, UNCHANGED config
    PROVE  Books'
<1>1. /\ asked' = asked /\ status' = status /\ pending' = pending /\ Asks' = Asks
      /\ life = "stopping" /\ life' = "closing" /\ tasks' = tasks
    BY DEF SubmitClose, clientVars, Asks
<1>2. queue' = Append(queue, Close) /\ UNCHANGED <<running, done, refreshing>>
    BY DEF SubmitClose
<1>3. \A c : InFlight(c)' = InFlight(c) + (IF Close = c THEN 1 ELSE 0) /\ InFlight(c) \in Nat
    BY <1>2, CloseIsCall, Submitting
<1>4. /\ InFlight(Close)' = 1
      /\ \A q \in Requests : /\ InFlight(Generate(q))' = InFlight(Generate(q))
                             /\ InFlight(Reset(q))' = InFlight(Reset(q))
                             /\ InFlight(Prepare(q))' = InFlight(Prepare(q))
    BY <1>1, <1>3, CallFields DEF Books, CloseInv
<1>5. AskedInv'
    BY <1>1, <1>4 DEF Books, AskedInv
<1>6. TasksInv'
    BY <1>1, <1>4 DEF Books, TasksInv
<1>7. CloseInv'
    BY <1>1, <1>4 DEF Books, CloseInv
<1>8. SlotAccounting'
    BY <1>1 DEF Books, SlotAccounting, Waiting
<1>9. CallsMatchRequests'
    BY <1>1, <1>4 DEF Books, CallsMatchRequests, Generate, Reset
<1>10. QED
    BY <1>5, <1>6, <1>7, <1>8, <1>9 DEF Books

-----------------------------------------------------------------------------
(* Types *)

LEMMA AskFields ==
    ASSUME TypeOK, NEW ask \in Asks
    PROVE  /\ ask.sid \in Sessions
           /\ ask.kind = "generate" =>
                 /\ ask.stored \in BOOLEAN /\ ask.prefix \in Prefixes
                 /\ ask.ends \in {"refused", "length", "stop", "nothing"}
           /\ ask.kind \in {"generate", "reset"}
<1>1. /\ config.prefixes \subseteq Prefixes
      /\ config.ends \subseteq {"refused", "length", "stop", "nothing"}
    BY ConfigAssumption DEF TypeOK
<1>2. QED
    BY <1>1 DEF Asks, AsksFor

\* What the engine works for has been asked for.
LEMMA Known ==
    ASSUME TypeOK, Books, NEW c \in Calls, c # Close, InFlight(c) >= 1
    PROVE  /\ c.of \in Requests /\ asked[c.of] \in Asks /\ asked[c.of].sid \in Sessions
           /\ c.kind \in {"generate", "prepare", "reset"}
           /\ c.kind # "reset" => asked[c.of].kind = "generate"
<1>1. PICK r \in Requests : c \in {Generate(r), Reset(r), Prepare(r)} /\ c.of = r
    BY CallShape
<1>2. CASE c = Generate(r) \/ c = Reset(r)
  <2>1. InFlight(Generate(r)) + InFlight(Reset(r)) = IF status[r] = "waiting" THEN 1 ELSE 0
    BY DEF Books, CallsMatchRequests, Generate, Reset
  <2>2. InFlight(Generate(r)) \in Nat /\ InFlight(Reset(r)) \in Nat
    BY Whole
  <2>3. status[r] = "waiting"
    BY <1>2, <2>1, <2>2
  <2>4. asked[r] \in Asks /\ (c = Generate(r) => asked[r].kind = "generate")
    BY <2>3 DEF Books, AskedInv
  <2>5. c.kind \in {"generate", "reset"} /\ (c.kind = "generate" => c = Generate(r))
    BY <1>2, CallFields
  <2>6. QED
    BY <1>1, <2>4, <2>5, AskFields
<1>3. CASE c = Prepare(r)
  <2>1. tasks[r] # "none"
    BY <1>3, Whole, Statuses DEF Books, TasksInv
  <2>2. asked[r] \in Asks /\ asked[r].kind = "generate"
    BY <2>1 DEF Books, TasksInv, AskedInv
  <2>3. QED
    BY <1>1, <1>3, <2>2, CallFields, AskFields
<1>4. QED
    BY <1>1, <1>2, <1>3

LEMMA ForgottenType ==
    ASSUME NEW e \in EngineState, NEW sid \in Sessions
    PROVE  Forgotten(e, sid) \in EngineState
BY DEF Forgotten, EngineState

LEMMA SelectedType ==
    ASSUME NEW e \in EngineState, NEW ask, ask.sid \in Sessions
    PROVE  Selected(e, ask) \subseteq EngineState
<1>1. [e EXCEPT !.table = @ \cup {ask.sid}] \in EngineState
    BY DEF EngineState
<1>2. QED
    BY <1>1, ForgottenType DEF Selected

LEMMA CommittedType ==
    ASSUME NEW e \in EngineState, NEW ask, ask.sid \in Sessions, ask.prefix \in Prefixes
    PROVE  Committed(e, ask) \in EngineState
BY DEF Committed, EngineState

LEMMA PreparedType ==
    ASSUME NEW e \in EngineState, NEW ask, ask.sid \in Sessions
    PROVE  Prepared(e, ask) \in EngineState
BY DEF Prepared, EngineState

LEMMA ResetDoneType ==
    ASSUME NEW e \in EngineState, NEW sid \in Sessions
    PROVE  ResetDone(e, sid) \in EngineState
BY ForgottenType DEF ResetDone, EngineState

\* Snapshots.
Snapshots == [table : SUBSET Sessions, active : Sessions \cup {None}, waits : SUBSET Sessions]

LEMMA TypesStart == Init => TypeOK
<1> SUFFICES ASSUME Init PROVE TypeOK
    OBVIOUS
<1>1. engine \in EngineState /\ snapshot \in Snapshots
    BY DEF Init, EngineState, Health, Snapshots
<1>2. <<>> \in Seq(Calls) /\ <<>> \in Seq(Dones)
    OBVIOUS
<1>3. queue \in Seq(Calls) /\ done \in Seq([call : Calls, raised : BOOLEAN])
    BY <1>2 DEF Init, Dones
<1>4. /\ asked \in [Requests -> Asks \cup {None}]
      /\ status \in [Requests -> {"new", "waiting", "ok", "error", "rejected"}]
      /\ tasks \in [Requests -> {"none", "sleeping", "submitted", "done", "cancelled"}]
    BY DEF Init
<1>5. /\ config \in Configs /\ pending \in Nat /\ running \in Calls \cup {None}
      /\ refreshing \in Scans \cup {None}
      /\ life \in {"serving", "stopping", "closing", "closed"}
    BY DEF Init
<1>6. QED
    BY <1>1, <1>3, <1>4, <1>5 DEF TypeOK, Snapshots

LEMMA AdmitTypes ==
    ASSUME TypeOK, NEW r \in Requests, NEW ask \in Asks, UNCHANGED config,
           Admit(r, ask) \/ AskReset(r, ask)
    PROVE  TypeOK'
<1>1. Generate(r) \in Calls /\ Reset(r) \in Calls /\ Asks' = Asks
    BY CallFields DEF Asks
<1>2. queue' \in Seq(Calls)
  <2>1. queue' \in {queue, Append(queue, Generate(r)), Append(queue, Reset(r))}
    BY DEF Admit, AskReset, Generate, Reset
  <2>2. queue \in Seq(Calls)
    BY Types
  <2>3. \A c \in Calls : Append(queue, c) \in Seq(Calls)
    BY <2>2
  <2>4. QED
    BY <1>1, <2>1, <2>2, <2>3
<1>3. asked' \in [Requests -> Asks' \cup {None}]
    BY <1>1, Statuses DEF Admit, AskReset
<1>4. status' \in [Requests -> {"new", "waiting", "ok", "error", "rejected"}]
    BY Statuses DEF Admit, AskReset
<1>5. pending' \in Nat
    BY Statuses DEF Admit, AskReset
<1>6. UNCHANGED <<tasks, running, done, engine, refreshing, snapshot, life>>
    BY DEF Admit, AskReset
<1>7. QED
    BY <1>2, <1>3, <1>4, <1>5, <1>6 DEF TypeOK, EngineState

LEMMA WorkerTypes ==
    ASSUME TypeOK, Books, UNCHANGED config, Worker
    PROVE  TypeOK'
<1>1. UNCHANGED <<asked, status, pending, tasks, refreshing, snapshot, life>> /\ Asks' = Asks
    BY DEF Worker, Discard, Start, Refuse, Finish, clientVars, Asks
<1>2. engine \in EngineState
    BY DEF TypeOK
<1>3. EngineState' = EngineState
    BY DEF EngineState
<1>4. CASE Discard
  <2>1. queue' \in Seq(Calls) /\ UNCHANGED <<running, done, engine>>
    BY <1>4, Types DEF Discard, Take
  <2>2. QED
    BY <1>1, <1>3, <2>1 DEF TypeOK
<1>5. CASE Start
  <2>1. queue' \in Seq(Calls) /\ running' \in Calls /\ done' = done /\ Head(queue) \in Calls
    BY <1>5, Types, Heads DEF Start, Take
  <2>2. InFlight(Head(queue)) >= 1
    BY <1>5, Types, Heads, Somewhere DEF Start, Take
  <2>3. Head(queue).kind = "generate" => asked[Head(queue).of].sid \in Sessions
    BY <2>1, <2>2, Known DEF Close, Call
  <2>4. engine' \in EngineState
    BY <1>2, <1>5, <2>3, SelectedType DEF Start
  <2>5. QED
    BY <1>1, <1>3, <2>1, <2>4 DEF TypeOK
<1>6. CASE Refuse
  <2>1. queue' \in Seq(Calls) /\ Head(queue) \in Calls /\ UNCHANGED <<running, engine>>
    BY <1>6, Types, Heads DEF Refuse, Take
  <2>2. done' \in Seq(Dones)
    BY <1>6, <2>1, Types DEF Refuse, Dones
  <2>3. QED
    BY <1>1, <1>3, <2>1, <2>2 DEF TypeOK, Dones
<1>7. CASE Finish
  <2>1. running \in Calls /\ running' = None /\ queue' = queue
    BY <1>7, Types DEF Finish
  <2>2. done' \in Seq(Dones)
    <3>1. PICK d \in Dones : done' = Append(done, d)
      BY <1>7, <2>1 DEF Finish, Dones
    <3>2. QED
      BY <3>1, Types
  <2>3. InFlight(running) >= 1
    BY Types, Somewhere
  <2>4. running = Close \/
          /\ running.kind \in {"generate", "prepare", "reset"} /\ asked[running.of].sid \in Sessions
          /\ running.kind = "generate" => asked[running.of].prefix \in Prefixes
    BY <2>1, <2>3, Known, AskFields
  <2>5. AfterCall \in EngineState
    <3>1. CASE running = Close
      BY <3>1, <1>2 DEF AfterCall, Close, Call
    <3>2. CASE running # Close
      BY <3>2, <1>2, <2>4, CommittedType, PreparedType, ResetDoneType DEF AfterCall
    <3>3. QED
      BY <3>1, <3>2
  <2>6. engine' \in EngineState
    BY <1>2, <1>7, <2>5 DEF Finish
  <2>7. QED
    BY <1>1, <1>3, <2>1, <2>2, <2>6 DEF TypeOK, Dones
<1>8. QED
    BY <1>4, <1>5, <1>6, <1>7 DEF Worker

\* A handler that gets to its end.
LEMMA ResumeTypes ==
    ASSUME TypeOK, Books, NEW call, NEW answer, Resumes(call, answer)
    PROVE  /\ asked' \in [Requests -> Asks' \cup {None}]
           /\ status' \in [Requests -> {"new", "waiting", "ok", "error", "rejected"}]
           /\ pending' \in Nat
           /\ tasks' \in [Requests -> {"none", "sleeping", "submitted", "done", "cancelled"}]
           /\ life' \in {"serving", "stopping", "closing", "closed"}
<1>1. /\ Resume(call, answer) /\ answer \in {"ok", "error"} /\ asked' = asked /\ Asks' = Asks
    BY DEF Resumes, Resume, Asks
<1>2. asked' \in [Requests -> Asks' \cup {None}]
    BY <1>1, Statuses
<1>3. status' \in [Requests -> {"new", "waiting", "ok", "error", "rejected"}]
    BY <1>1, Statuses DEF Resume, Answered
<1>4. pending' \in Nat
  <2>1. Books'
    BY BooksResumed
  <2>2. Waiting("generate")' \subseteq Requests
    BY DEF Waiting
  <2>3. Cardinality(Waiting("generate")') \in Nat
    BY <2>2, RequestAssumption, FS_Subset, FS_CardinalityType
  <2>4. QED
    BY <2>1, <2>3 DEF Books, SlotAccounting
<1>5. tasks' \in [Requests -> {"none", "sleeping", "submitted", "done", "cancelled"}]
    BY <1>1, Statuses DEF Resume, Schedules
<1>6. life' \in {"serving", "stopping", "closing", "closed"}
    BY <1>1, Statuses DEF Resume
<1>7. QED
    BY <1>2, <1>3, <1>4, <1>5, <1>6

LEMMA DeliverTypes ==
    ASSUME TypeOK, Books, UNCHANGED config, Deliver
    PROVE  TypeOK' /\ Books'
<1> DEFINE call == Head(done).call
<1>1. call \in Calls /\ InFlight(call) >= 1
    BY Heads, Types, Somewhere DEF Deliver
<1>2. done \in Seq(Dones) /\ done' = Tail(done) /\ done' \in Seq(Dones)
    BY Types DEF Deliver
<1>3. UNCHANGED <<queue, running, engine, snapshot>> /\ refreshing = None /\ Asks' = Asks
      /\ EngineState' = EngineState
    BY DEF Deliver, LoopFree, Asks, EngineState
<1>4. CASE Abandoned(call) /\ UNCHANGED <<asked, status, pending, tasks, refreshing, life>>
  <2>1. \A c \in Calls : InFlight(c)' = InFlight(c) - (IF call = c THEN 1 ELSE 0)
                         /\ InFlight(c) \in Nat
    BY <1>4, Delivering, Whole
  <2>2. Books'
    BY <1>1, <1>4, <2>1, BooksKept DEF clientVars
  <2>3. TypeOK'
    BY <1>2, <1>3, <1>4 DEF TypeOK, Dones
  <2>4. QED
    BY <2>2, <2>3
<1>5. CASE Resume(call, "error") /\ UNCHANGED refreshing
  <2>1. \A c \in Calls : InFlight(c)' = InFlight(c) - (IF call = c THEN 1 ELSE 0)
    BY <1>5, Delivering
  <2>2. Resumes(call, "error")
    BY <1>1, <1>5, <2>1 DEF Resumes
  <2>3. TypeOK'
    BY <1>2, <1>3, <1>5, <2>2, ResumeTypes DEF TypeOK, Dones
  <2>4. QED
    BY <2>2, <2>3, BooksResumed
<1>6. CASE /\ refreshing' = [call |-> call, table |-> engine.table, active |-> engine.active,
                             left |-> engine.table, waits |-> {}]
           /\ UNCHANGED <<asked, status, pending, tasks, life>>
  <2>1. refreshing' \in Scans
    BY <1>1, <1>6 DEF Scans, TypeOK, EngineState
  <2>2. refreshing' # None /\ refreshing'.call = call
    BY <1>6, <2>1, Types
  <2>3. \A c \in Calls : InFlight(c)' = InFlight(c)
    BY <2>2, Delivering
  <2>4. Books'
    BY <1>6, <2>3, BooksKept DEF clientVars
  <2>5. TypeOK'
    BY <1>2, <1>3, <1>6, <2>1 DEF TypeOK, Dones
  <2>6. QED
    BY <2>4, <2>5
<1>7. QED
    BY <1>4, <1>5, <1>6 DEF Deliver

LEMMA ScanTypes ==
    ASSUME TypeOK, Books, UNCHANGED config, NEW s \in Sessions, Scan(s)
    PROVE  TypeOK' /\ Books'
<1>1. refreshing' \in Scans
    BY Types DEF Scan, Scans
<1>2. /\ UNCHANGED <<asked, status, pending, tasks, queue, running, done, engine, snapshot, life>>
      /\ Asks' = Asks /\ EngineState' = EngineState
    BY DEF Scan, clientVars, workerVars, Asks, EngineState
<1>3. \A c \in Calls : InFlight(c)' = InFlight(c)
    BY Scanning
<1>4. Books'
    BY <1>2, <1>3, BooksKept DEF clientVars
<1>5. TypeOK'
    BY <1>1, <1>2 DEF TypeOK
<1>6. QED
    BY <1>4, <1>5

LEMMA RefreshTypes ==
    ASSUME TypeOK, Books, UNCHANGED config, Refreshed \/ RefreshRaises
    PROVE  TypeOK' /\ Books'
<1>1. PICK answer \in {"ok", "error"} : Resume(refreshing.call, answer)
    BY DEF Refreshed, RefreshRaises
<1>2. refreshing \in Scans /\ refreshing # None
    BY Types DEF Refreshed, RefreshRaises
<1>3. refreshing.call \in Calls /\ InFlight(refreshing.call) >= 1
    BY <1>2, Types, Somewhere DEF Scans
<1>4. \A c \in Calls : InFlight(c)' = InFlight(c) - (IF refreshing.call = c THEN 1 ELSE 0)
    BY Refreshing
<1>5. Resumes(refreshing.call, answer)
    BY <1>1, <1>3, <1>4 DEF Resumes
<1>6. Shown \in Snapshots
    BY <1>2 DEF Shown, Scans, Snapshots
<1>7. /\ UNCHANGED <<queue, running, done, engine>> /\ EngineState' = EngineState
      /\ snapshot' \in Snapshots /\ refreshing' \in Scans \cup {None}
    BY <1>6 DEF Refreshed, RefreshRaises, workerVars, EngineState, TypeOK, Snapshots
<1>8. TypeOK'
    BY <1>5, <1>7, ResumeTypes DEF TypeOK, Snapshots
<1>9. QED
    BY <1>5, <1>8, BooksResumed

LEMMA TaskTypes ==
    ASSUME TypeOK, UNCHANGED config,
           (\E r \in Requests : Wake(r)) \/ Shutdown \/ SubmitClose
    PROVE  TypeOK'
<1>1. /\ UNCHANGED <<asked, status, pending, running, done, engine, refreshing, snapshot>>
      /\ Asks' = Asks /\ EngineState' = EngineState
    BY DEF Wake, Shutdown, SubmitClose, clientVars, Asks, EngineState
<1>2. tasks' \in [Requests -> {"none", "sleeping", "submitted", "done", "cancelled"}]
    BY Statuses DEF Wake, Shutdown, SubmitClose, CancelledTasks
<1>3. life' \in {"serving", "stopping", "closing", "closed"}
    BY Statuses DEF Wake, Shutdown, SubmitClose
<1>4. queue' \in Seq(Calls)
  <2>1. queue \in Seq(Calls)
    BY Types
  <2>2. \A c \in Calls : Append(queue, c) \in Seq(Calls)
    BY <2>1
  <2>3. queue' = queue \/ \E c \in Calls : queue' = Append(queue, c)
    BY CallFields, CloseIsCall DEF Wake, Shutdown, SubmitClose, Prepare
  <2>4. QED
    BY <2>1, <2>2, <2>3
<1>5. QED
    BY <1>1, <1>2, <1>3, <1>4 DEF TypeOK

-----------------------------------------------------------------------------
(* Nothing after engine.close *)

\* A call comes to the end of the queue while engine.close is nowhere.
LEMMA AppendOrder ==
    ASSUME ServerInv, life \in {"serving", "stopping"}, NEW d \in Calls,
           queue' = Append(queue, d), UNCHANGED <<running, done, refreshing>>, life' # "closed"
    PROVE  CloseOrder'
<1>1. InFlight(Close) = 0
    BY DEF ServerInv, Books, CloseInv
<1>2. queue \in Seq(Calls) /\ done \in Seq(Dones)
    BY Types DEF ServerInv
<1>3. /\ \A i \in 1..Len(queue) : queue[i] # Close
      /\ \A i \in 1..Len(done) : done[i].call # Close
      /\ running # Close /\ ~(refreshing # None /\ refreshing.call = Close)
    BY <1>1, <1>2, Somewhere
<1>4. Len(queue') = Len(queue) + 1 /\ \A i \in 1..Len(queue) : queue'[i] = queue[i]
    BY <1>2
<1>5. \A i \in 1..Len(queue') : queue'[i] = Close => i = Len(queue')
    BY <1>2, <1>3, <1>4
<1>6. QED
    BY <1>3, <1>5 DEF CloseOrder

LEMMA WorkerOrder ==
    ASSUME ServerInv, Worker
    PROVE  CloseOrder'
<1>1. UNCHANGED <<refreshing, life>> /\ CloseOrder
    BY DEF Worker, Discard, Start, Refuse, Finish, ServerInv
<1>2. queue \in Seq(Calls) /\ done \in Seq(Dones) /\ None # Close
    BY Types, CloseIsCall DEF ServerInv
<1>3. ASSUME Take
      PROVE  /\ \A i \in 1..Len(queue') : queue'[i] = Close => i = Len(queue')
             /\ Head(queue) = Close => queue' = <<>>
             /\ ~\E i \in 1..Len(done) : done[i].call = Close
             /\ ~(refreshing # None /\ refreshing.call = Close) /\ life # "closed"
  <2>1. queue # <<>> /\ queue' = Tail(queue)
    BY <1>3 DEF Take
  <2>2. Len(queue') = Len(queue) - 1 /\ \A i \in 1..Len(queue') : queue'[i] = queue[i + 1]
    BY <1>2, <2>1
  <2>3. \A i \in 1..Len(queue) : queue[i] = Close => i = Len(queue)
    BY <1>1 DEF CloseOrder
  <2>4. \A i \in 1..Len(queue') : queue'[i] = Close => i = Len(queue')
    <3>1. \A i \in 1..Len(queue') : i + 1 \in 1..Len(queue) /\ i \in Int
      BY <1>2, <2>1
    <3>2. Len(queue) \in Nat
      BY <1>2
    <3>3. QED
      BY <2>2, <2>3, <3>1, <3>2
  <2>5. Head(queue) = Close => queue' = <<>>
    <3>1. Head(queue) = queue[1] /\ 1 \in 1..Len(queue)
      BY <1>2, <2>1
    <3>2. Head(queue) = Close => Len(queue) = 1
      BY <2>3, <3>1
    <3>3. QED
      BY <1>2, <2>1, <3>2
  <2>6. QED
    BY <1>1, <2>1, <2>4, <2>5 DEF CloseOrder
<1>4. CASE Discard
    BY <1>1, <1>3, <1>4 DEF Discard, CloseOrder, Take
<1>5. CASE Start
    BY <1>1, <1>3, <1>5 DEF Start, CloseOrder, Take
<1>6. CASE Refuse
  <2>1. Take /\ running' = running /\ Head(queue) # Close
    BY <1>6 DEF Refuse, Close, Call
  <2>2. PICK d \in Dones : d.call = Head(queue) /\ done' = Append(done, d)
    BY <1>6, Heads DEF Refuse, Take, Dones, ServerInv
  <2>3. ~\E i \in 1..Len(done') : done'[i].call = Close
    <3>1. Len(done') = Len(done) + 1 /\ done'[Len(done) + 1] = d
      BY <1>2, <2>2
    <3>2. \A i \in 1..Len(done) : done'[i] = done[i]
      BY <1>2, <2>2
    <3>3. Len(done) \in Nat /\ ~\E i \in 1..Len(done) : done[i].call = Close
      BY <1>2, <1>3, <2>1
    <3>4. QED
      BY <2>1, <2>2, <3>1, <3>2, <3>3
  <2>4. QED
    BY <1>1, <1>2, <1>3, <2>1, <2>3 DEF CloseOrder, Take
<1>7. CASE Finish
  <2>1. running # None /\ running' = None /\ queue' = queue
    BY <1>7 DEF Finish
  <2>2. PICK d \in Dones : d.call = running /\ done' = Append(done, d)
    BY <1>7, Types DEF Finish, Dones, ServerInv
  <2>3. \A i \in 1..Len(done') : done'[i].call = Close => running = Close
    <3>1. Len(done') = Len(done) + 1 /\ done'[Len(done) + 1] = d
      BY <1>2, <2>2
    <3>2. \A i \in 1..Len(done) : done'[i] = done[i]
      BY <1>2, <2>2
    <3>3. Len(done) \in Nat /\ ~\E i \in 1..Len(done) : done[i].call = Close
      BY <1>1, <1>2, <2>1 DEF CloseOrder
    <3>4. QED
      BY <2>2, <3>1, <3>2, <3>3
  <2>4. QED
    BY <1>1, <1>2, <2>1, <2>3 DEF CloseOrder
<1>8. QED
    BY <1>4, <1>5, <1>6, <1>7 DEF Worker

LEMMA LoopOrder ==
    ASSUME ServerInv, Loop
    PROVE  CloseOrder'
<1>1. UNCHANGED <<queue, running>> /\ CloseOrder
    BY DEF Loop, Deliver, Scan, Refreshed, RefreshRaises, workerVars, ServerInv
<1>2. done \in Seq(Dones) /\ refreshing \in Scans \cup {None}
    BY Types DEF ServerInv
<1>3. ASSUME NEW call \in Calls, NEW answer, Resume(call, answer)
      PROVE  life' = "closed" => life = "closed" \/ call = Close
    BY <1>3 DEF Resume, Calls
<1>4. CASE Deliver
  <2>1. done # <<>> /\ done' = Tail(done) /\ Head(done).call \in Calls /\ Head(done) = done[1]
        /\ 1 \in 1..Len(done)
    BY <1>4, Heads DEF Deliver, ServerInv
  <2>2. \A i \in 1..Len(done') : done'[i] = done[i + 1] /\ i + 1 \in 1..Len(done)
    BY <1>2, <2>1
  <2>3. life' = "closed" => life = "closed" \/ Head(done).call = Close
    BY <1>3, <1>4, <2>1 DEF Deliver
  <2>4. refreshing' # None /\ refreshing'.call = Close => Head(done).call = Close
    BY <1>4 DEF Deliver, LoopFree
  <2>5. QED
    BY <1>1, <2>1, <2>2, <2>3, <2>4 DEF CloseOrder
<1>5. ASSUME NEW s \in Sessions, Scan(s) PROVE CloseOrder'
  <2>1. refreshing # None /\ refreshing'.call = refreshing.call /\ done' = done /\ life' = life
    BY <1>2, <1>5 DEF Scan, Scans, workerVars
  <2>2. QED
    BY <1>1, <2>1 DEF CloseOrder
<1>6. CASE Refreshed \/ RefreshRaises
  <2>1. refreshing # None /\ refreshing' = None /\ done' = done /\ refreshing.call \in Calls
    BY <1>2, <1>6 DEF Refreshed, RefreshRaises, workerVars, Scans
  <2>2. life' = "closed" => life = "closed" \/ refreshing.call = Close
    BY <1>3, <1>6, <2>1 DEF Refreshed, RefreshRaises
  <2>3. QED
    BY <1>1, <2>1, <2>2 DEF CloseOrder
<1>7. QED
    BY <1>4, <1>5, <1>6 DEF Loop

-----------------------------------------------------------------------------
(* The theorems *)

LEMMA InvariantStarts == Init => ServerInv
<1> SUFFICES ASSUME Init PROVE ServerInv
    OBVIOUS
<1>1. TypeOK
    BY TypesStart
<1>2. \A c \in Calls : InFlight(c) = 0
  <2>1. ASSUME NEW c \in Calls PROVE InFlight(c) = 0
    <3>1. {i \in 1..Len(queue) : queue[i] = c} = {} /\ {i \in 1..Len(done) : done[i].call = c} = {}
      BY DEF Init
    <3>2. Runs(c) = 0 /\ Read(c) = 0
      BY <1>1, Types DEF Init, Runs, Read
    <3>3. QED
      <4>1. Cardinality({}) = 0
        BY FS_EmptySet
      <4>2. Queued(c) = 0 /\ Ended(c) = 0
        BY <3>1, <4>1 DEF Queued, Ended
      <4>3. QED
        BY <3>2, <4>2, Sum
  <2>2. QED
    BY <2>1
<1>3. \A r \in Requests : InFlight(Generate(r)) = 0 /\ InFlight(Reset(r)) = 0
                          /\ InFlight(Prepare(r)) = 0
    BY <1>2, CallFields
<1>4. InFlight(Close) = 0
    BY <1>2, CloseIsCall
<1>5. AskedInv /\ TasksInv /\ CloseInv
    BY <1>3, <1>4 DEF Init, AskedInv, TasksInv, CloseInv
<1>6. SlotAccounting
  <2>1. Waiting("generate") = {}
    BY DEF Init, Waiting
  <2>2. Cardinality({}) = 0
    BY FS_EmptySet
  <2>3. Cardinality(Waiting("generate")) = 0
    BY <2>1, <2>2
  <2>4. pending = 0
    BY DEF Init
  <2>5. QED
    BY <2>3, <2>4, QueueAssumption DEF SlotAccounting
<1>7. CallsMatchRequests
    BY <1>3 DEF Init, CallsMatchRequests, Generate, Reset
<1>8. CloseOrder
    BY <1>1, Types, CloseIsCall DEF Init, CloseOrder
<1>9. QED
    BY <1>1, <1>5, <1>6, <1>7, <1>8 DEF ServerInv, Books

LEMMA InvariantKept == ServerInv /\ [Next]_vars => ServerInv'
<1> SUFFICES ASSUME ServerInv, [Next]_vars PROVE ServerInv'
    OBVIOUS
<1>1. TypeOK /\ Books /\ CloseOrder
    BY DEF ServerInv
<1>2. ASSUME NEW r \in Requests, NEW ask \in Asks, Admit(r, ask) \/ AskReset(r, ask),
             UNCHANGED config
      PROVE  ServerInv'
  <2>1. TypeOK' /\ Books'
    BY <1>1, <1>2, AdmitTypes, RejectedBooks, AdmittedBooks, ResetBooks
  <2>2. Generate(r) \in Calls /\ Reset(r) \in Calls
    BY CallFields
  <2>3. /\ queue' = queue \/ queue' = Append(queue, Generate(r)) \/ queue' = Append(queue, Reset(r))
        /\ UNCHANGED <<running, done, refreshing, life>> /\ life = "serving"
    BY <1>2 DEF Admit, AskReset, Generate, Reset
  <2>4. CloseOrder'
    <3>1. CASE queue' = queue
      BY <1>1, <2>3, <3>1 DEF CloseOrder
    <3>2. CASE queue' = Append(queue, Generate(r)) \/ queue' = Append(queue, Reset(r))
      BY <2>2, <2>3, <3>2, AppendOrder
    <3>3. QED
      BY <2>3, <3>1, <3>2
  <2>5. QED
    BY <2>1, <2>4 DEF ServerInv
<1>3. ASSUME Worker, UNCHANGED config PROVE ServerInv'
  <2>1. \A c \in Calls : \/ InFlight(c)' = InFlight(c)
                         \/ Abandoned(c) /\ InFlight(c) >= 1 /\ InFlight(c)' = InFlight(c) - 1
    <3>1. CASE Discard
      <4>1. Abandoned(Head(queue)) /\ InFlight(Head(queue)) >= 1
        BY <1>1, <3>1, Heads, Types, Somewhere DEF Discard, Take
      <4>2. \A c \in Calls : InFlight(c)' = InFlight(c) - (IF Head(queue) = c THEN 1 ELSE 0)
                             /\ InFlight(c) \in Nat
        BY <1>1, <3>1, Discarding, Whole
      <4>3. QED
        BY <4>1, <4>2
    <3>2. CASE Start \/ Refuse \/ Finish
      BY <1>1, <3>2, Starting, Refusing, Finishing
    <3>3. QED
      BY <1>3, <3>1, <3>2 DEF Worker
  <2>2. UNCHANGED <<config, clientVars, tasks, life>>
    BY <1>3 DEF Worker, Discard, Start, Refuse, Finish
  <2>3. Books'
    BY <1>1, <2>1, <2>2, BooksKept
  <2>4. QED
    BY <1>1, <1>3, <2>3, WorkerTypes, WorkerOrder DEF ServerInv
<1>4. ASSUME Loop, UNCHANGED config PROVE ServerInv'
  <2>1. TypeOK' /\ Books'
    BY <1>1, <1>4, DeliverTypes, ScanTypes, RefreshTypes DEF Loop
  <2>2. QED
    BY <1>4, <2>1, LoopOrder DEF ServerInv
<1>5. ASSUME NEW r \in Requests, Wake(r), UNCHANGED config PROVE ServerInv'
  <2>1. TypeOK' /\ Books' /\ life = "serving"
    BY <1>1, <1>5, TaskTypes, WakeBooks
  <2>2. /\ queue' = Append(queue, Prepare(r)) /\ Prepare(r) \in Calls
        /\ UNCHANGED <<running, done, refreshing, life>>
    BY <1>5, CallFields DEF Wake, Prepare
  <2>3. QED
    BY <2>1, <2>2, AppendOrder DEF ServerInv
<1>6. ASSUME Shutdown, UNCHANGED config PROVE ServerInv'
  <2>1. TypeOK' /\ Books'
    BY <1>1, <1>6, TaskTypes, ShutdownBooks
  <2>2. UNCHANGED <<queue, running, done, refreshing>> /\ life' = "stopping"
    BY <1>6 DEF Shutdown
  <2>3. QED
    BY <1>1, <2>1, <2>2 DEF ServerInv, CloseOrder
<1>7. ASSUME SubmitClose, UNCHANGED config PROVE ServerInv'
  <2>1. TypeOK' /\ Books'
    BY <1>1, <1>7, TaskTypes, SubmitCloseBooks
  <2>2. /\ queue' = Append(queue, Close) /\ UNCHANGED <<running, done, refreshing>>
        /\ life = "stopping" /\ life' = "closing"
    BY <1>7 DEF SubmitClose
  <2>3. QED
    BY <2>1, <2>2, CloseIsCall, AppendOrder DEF ServerInv
<1>8. ASSUME UNCHANGED vars PROVE ServerInv'
  <2>1. UNCHANGED <<config, asked, status, pending, tasks, queue, running, done, refreshing,
                    engine, snapshot, life>>
    BY <1>8 DEF vars, clientVars, workerVars
  <2>2. /\ \A c : InFlight(c)' = InFlight(c)
        /\ Asks' = Asks /\ EngineState' = EngineState
    BY <2>1 DEF InFlight, Asks, EngineState
  <2>3. TypeOK'
    BY <1>1, <2>1, <2>2 DEF TypeOK
  <2>4. Books'
    BY <1>1, <2>1, <2>2, BooksKept DEF clientVars
  <2>5. CloseOrder'
    BY <1>1, <2>1 DEF CloseOrder
  <2>6. QED
    BY <2>3, <2>4, <2>5 DEF ServerInv
<1>9. QED
    BY <1>2, <1>3, <1>4, <1>5, <1>6, <1>7, <1>8 DEF Next

LEMMA InvariantHolds == Spec => []ServerInv
BY InvariantStarts, InvariantKept, PTL DEF Spec

\* The server's variables keep to their types.
THEOREM ServerTypes == Spec => []TypeOK
<1>1. ServerInv => TypeOK
    BY DEF ServerInv
<1>2. QED
    BY <1>1, InvariantHolds, PTL

\* pending_requests counts the generations that hold a slot (_queue_slot), whatever
\* is answered, refused, raised or rejected, for any number of requests.
THEOREM SlotsAreCounted == Spec => []SlotAccounting
<1>1. ServerInv => SlotAccounting
    BY DEF ServerInv, Books
<1>2. QED
    BY <1>1, InvariantHolds, PTL

\* Exactly one call is under way for each request that waits, and none for others:
\* neither the worker nor the event loop loses or repeats a call.
THEOREM EachCallOnce == Spec => []CallsMatchRequests
<1>1. ServerInv => CallsMatchRequests
    BY DEF ServerInv, Books
<1>2. QED
    BY <1>1, InvariantHolds, PTL

\* engine.close is the last call that the worker runs (lifespan).
THEOREM NothingAfterClose == Spec => []CloseIsLast
<1>1. ServerInv => CloseIsLast
  <2> SUFFICES ASSUME ServerInv, life \in {"closing", "closed"} PROVE CloseIsLast
    BY DEF CloseIsLast
  <2>1. queue \in Seq(Calls) /\ done \in Seq(Dones)
    BY Types DEF ServerInv
  <2>2. ASSUME NEW i \in 1..Len(queue), queue[i] # Close PROVE Abandoned(queue[i])
    <3>1. queue[i] \in Calls /\ InFlight(queue[i]) >= 1
      BY <2>1, Somewhere
    <3>2. PICK r \in Requests : queue[i] \in {Generate(r), Reset(r), Prepare(r)} /\ queue[i].of = r
      BY <2>2, <3>1, CallShape
    <3>3. InFlight(Generate(r)) = 0 /\ InFlight(Reset(r)) = 0
      <4>1. InFlight(Generate(r)) \in Nat /\ InFlight(Reset(r)) \in Nat
        BY Whole DEF ServerInv
      <4>2. status[r] # "waiting"
        BY DEF ServerInv, Books, CloseInv
      <4>3. InFlight(Generate(r)) + InFlight(Reset(r)) = 0
        BY <4>2 DEF ServerInv, Books, CallsMatchRequests, Generate, Reset
      <4>4. QED
        BY <4>1, <4>3
    <3>4. queue[i] = Prepare(r)
      BY <3>1, <3>2, <3>3
    <3>5. tasks[r] = "cancelled"
      BY <3>1, <3>4 DEF ServerInv, Books, TasksInv, CloseInv
    <3>6. QED
      BY <3>2, <3>4, <3>5, CallFields DEF Abandoned
  <2>3. \A r \in Requests : tasks[r] # "sleeping"
    BY DEF ServerInv, Books, CloseInv
  <2>4. life = "closed" => running = None
    BY DEF ServerInv, CloseOrder
  <2>5. QED
    BY <2>2, <2>3, <2>4 DEF CloseIsLast
<1>2. QED
    BY <1>1, InvariantHolds, PTL

-----------------------------------------------------------------------------
(* Postfills and the health snapshot *)

Members(q) == {q[i] : i \in 1..Len(q)}

LEMMA MembersAppended ==
    ASSUME NEW S, NEW q \in Seq(S), NEW x \in S
    PROVE  Members(Append(q, x)) = Members(q) \cup {x}
<1>1. /\ Len(q) \in Nat /\ Len(Append(q, x)) = Len(q) + 1
      /\ Append(q, x)[Len(q) + 1] = x
      /\ \A i \in 1..Len(q) : Append(q, x)[i] = q[i]
    OBVIOUS
<1>2. \A i \in 1..(Len(q) + 1) : i \in 1..Len(q) \/ i = Len(q) + 1
    BY <1>1
<1>3. /\ 1..Len(q) \subseteq 1..(Len(q) + 1) /\ Len(q) + 1 \in 1..(Len(q) + 1)
    BY <1>1
<1>4. QED
    BY <1>1, <1>2, <1>3 DEF Members

LEMMA MembersTaken ==
    ASSUME NEW S, NEW q \in Seq(S), q # <<>>
    PROVE  /\ Head(q) \in S /\ Members(q) = Members(Tail(q)) \cup {Head(q)}
<1>1. /\ Len(q) \in Nat \ {0} /\ Len(Tail(q)) = Len(q) - 1 /\ Head(q) = q[1] /\ Head(q) \in S
      /\ \A i \in 1..(Len(q) - 1) : Tail(q)[i] = q[i + 1]
    OBVIOUS
<1>2. \A i \in 1..Len(q) : i = 1 \/ (i - 1 \in 1..(Len(q) - 1) /\ q[i] = q[(i - 1) + 1])
    BY <1>1
<1>3. \A i \in 1..(Len(q) - 1) : i + 1 \in 1..Len(q)
    BY <1>1
<1>4. 1 \in 1..Len(q)
    BY <1>1
<1>5. QED
    BY <1>1, <1>2, <1>3, <1>4 DEF Members

\* What is a member of the queue, or of the calls that are done, is under way.
LEMMA MembersInFlight ==
    ASSUME TypeOK, NEW c
    PROVE  /\ c \in Members(queue) => InFlight(c) >= 1
           /\ (\E d \in Members(done) : d.call = c) => InFlight(c) >= 1
           /\ running = c => InFlight(c) >= 1
           /\ refreshing # None /\ refreshing.call = c => InFlight(c) >= 1
BY Types, Somewhere DEF Members

\* The sessions that wait for a postfill are in the dict, and so is the one that a
\* generation runs for; tasks are cancelled by a shutdown only.
SessionsInv ==
    /\ engine.waits \subseteq engine.table
    /\ running # None /\ running.kind = "generate" /\ asked[running.of].stored =>
          asked[running.of].sid \in engine.table
    /\ life = "serving" => \A r \in Requests : tasks[r] # "cancelled"

\* What the calls do to the sessions.
LEMMA SelectedSets ==
    ASSUME NEW e \in EngineState, NEW ask, ask.sid \in Sessions, NEW f \in Selected(e, ask)
    PROVE  /\ e.table \subseteq f.table /\ f.waits \subseteq e.waits
           /\ ask.stored => ask.sid \in f.table
           /\ \A s \in f.waits : f.prefix[s] = e.prefix[s]
<1> DEFINE inserted == [e EXCEPT !.table = @ \cup {ask.sid}]
<1>1. /\ inserted \in EngineState /\ inserted.table = e.table \cup {ask.sid}
      /\ inserted.waits = e.waits /\ inserted.prefix = e.prefix
    BY DEF EngineState
<1>2. /\ Forgotten(inserted, ask.sid).table = inserted.table
      /\ Forgotten(inserted, ask.sid).waits = inserted.waits \ {ask.sid}
      /\ \A s \in Sessions \ {ask.sid} : Forgotten(inserted, ask.sid).prefix[s] = inserted.prefix[s]
    BY <1>1 DEF Forgotten, EngineState
<1>3. e.waits \subseteq Sessions
    BY DEF EngineState
<1>4. QED
    BY <1>1, <1>2, <1>3 DEF Selected

LEMMA CommittedSets ==
    ASSUME NEW e \in EngineState, NEW ask, ask.sid \in Sessions
    PROVE  /\ Committed(e, ask).table = e.table
           /\ \A s \in Committed(e, ask).waits :
                 \/ s \in e.waits /\ Committed(e, ask).prefix[s] = e.prefix[s]
                 \/ /\ ask.stored /\ ask.ends = "length" /\ ask.sid = s
                    /\ Committed(e, ask).prefix[s] = ask.prefix
<1>1. CASE ask.stored
  <2>1. /\ Committed(e, ask).table = e.table
        /\ Committed(e, ask).waits = IF ask.ends = "length" THEN e.waits \cup {ask.sid}
                                                            ELSE e.waits \ {ask.sid}
        /\ Committed(e, ask).prefix = [e.prefix EXCEPT ![ask.sid] = ask.prefix]
      BY <1>1 DEF Committed, EngineState
  <2>2. e.waits \subseteq Sessions /\ e.prefix \in [Sessions -> Prefixes \cup {None}]
      BY DEF EngineState
  <2>3. QED
      BY <1>1, <2>1, <2>2
<1>2. QED
    BY <1>1 DEF Committed

LEMMA PreparedSets ==
    ASSUME NEW e \in EngineState, NEW ask, ask.sid \in Sessions
    PROVE  /\ Prepared(e, ask).table = e.table /\ Prepared(e, ask).prefix = e.prefix
           /\ Prepared(e, ask).waits \subseteq e.waits
           /\ ask.sid \in Prepared(e, ask).waits => e.prefix[ask.sid] # ask.prefix
BY DEF Prepared, EngineState

LEMMA ResetSets ==
    ASSUME NEW e \in EngineState, NEW sid \in Sessions
    PROVE  /\ ResetDone(e, sid).table = e.table \ {sid}
           /\ ResetDone(e, sid).waits = e.waits \ {sid}
           /\ \A s \in ResetDone(e, sid).waits : ResetDone(e, sid).prefix[s] = e.prefix[s]
<1>1. /\ Forgotten(e, sid) \in EngineState
      /\ Forgotten(e, sid).table = e.table /\ Forgotten(e, sid).waits = e.waits \ {sid}
      /\ \A s \in Sessions \ {sid} : Forgotten(e, sid).prefix[s] = e.prefix[s]
      /\ e.waits \subseteq Sessions
    BY DEF Forgotten, EngineState
<1>2. QED
    BY <1>1 DEF ResetDone, EngineState

\* The call that the worker runs, and the call it takes.
LEMMA WorkersCall ==
    ASSUME ServerInv
    PROVE  /\ engine \in EngineState
           /\ running \notin {None, Close} =>
                 /\ running.of \in Requests /\ asked[running.of].sid \in Sessions
                 /\ running.kind \in {"generate", "prepare", "reset"}
                 /\ running.kind # "reset" => asked[running.of].kind = "generate"
           /\ queue # <<>> /\ Head(queue) # Close =>
                 /\ Head(queue).of \in Requests /\ asked[Head(queue).of].sid \in Sessions
<1>1. TypeOK /\ Books /\ engine \in EngineState
    BY DEF ServerInv, TypeOK
<1>2. running \notin {None, Close} => InFlight(running) >= 1 /\ running \in Calls
    BY <1>1, Types, MembersInFlight
<1>3. queue # <<>> => Head(queue) \in Calls /\ InFlight(Head(queue)) >= 1
    BY <1>1, Heads, Types, Somewhere
<1>4. QED
    BY <1>1, <1>2, <1>3, Known

\* What has been asked is not asked again.
LEMMA AskedStays ==
    ASSUME ServerInv, [Next]_vars
    PROVE  \A r \in Requests : status[r] # "new" => asked'[r] = asked[r]
<1>1. asked \in [Requests -> Asks \cup {None}]
    BY DEF ServerInv, TypeOK
<1>2. ASSUME NEW r \in Requests, NEW ask \in Asks, Admit(r, ask) \/ AskReset(r, ask)
      PROVE  asked' = [asked EXCEPT ![r] = ask] /\ status[r] = "new"
    BY <1>2 DEF Admit, AskReset
<1>3. ASSUME Worker \/ Loop \/ (\E r \in Requests : Wake(r)) \/ Shutdown \/ SubmitClose
             \/ UNCHANGED vars
      PROVE  asked' = asked
    BY <1>3 DEF Worker, Discard, Start, Refuse, Finish, Loop, Deliver, Scan, Refreshed,
                RefreshRaises, Resume, Wake, Shutdown, SubmitClose, vars, clientVars
<1>4. QED
    BY <1>1, <1>2, <1>3 DEF Next

\* A request with something under way has been sent.
LEMMA UnderWayIsSent ==
    ASSUME ServerInv, NEW r \in Requests
    PROVE  /\ InFlight(Generate(r)) >= 1 \/ InFlight(Reset(r)) >= 1 => status[r] = "waiting"
           /\ InFlight(Prepare(r)) >= 1 =>
                 status[r] \notin {"new", "waiting"} /\ tasks[r] \in {"submitted", "cancelled"}
<1>1. /\ InFlight(Generate(r)) \in Nat /\ InFlight(Reset(r)) \in Nat
      /\ InFlight(Prepare(r)) \in Nat
    BY Whole DEF ServerInv
<1>2. InFlight(Generate(r)) + InFlight(Reset(r)) = IF status[r] = "waiting" THEN 1 ELSE 0
    BY DEF ServerInv, Books, CallsMatchRequests, Generate, Reset
<1>3. InFlight(Prepare(r)) >= 1 => tasks[r] \in {"submitted", "cancelled"}
    BY <1>1 DEF ServerInv, Books, TasksInv
<1>4. tasks[r] # "none" => status[r] \notin {"new", "waiting"}
    BY DEF ServerInv, Books, TasksInv
<1>5. QED
    BY <1>1, <1>2, <1>3, <1>4

\* No step but the shutdown cancels a task.
LEMMA NoneCancelled ==
    ASSUME ServerInv, Next, NEW r \in Requests, tasks'[r] = "cancelled"
    PROVE  tasks[r] = "cancelled" \/ life' = "stopping"
<1>1. tasks \in [Requests -> {"none", "sleeping", "submitted", "done", "cancelled"}]
    BY DEF ServerInv, TypeOK
<1>2. ASSUME NEW call, NEW answer, Resume(call, answer) PROVE tasks[r] = "cancelled"
    BY <1>1, <1>2 DEF Resume
<1>3. CASE Loop
    BY <1>2, <1>3 DEF Loop, Deliver, Scan, Refreshed, RefreshRaises
<1>4. CASE Worker \/ \E q \in Requests, ask \in Asks : Admit(q, ask) \/ AskReset(q, ask)
    BY <1>4 DEF Worker, Discard, Start, Refuse, Finish, Admit, AskReset
<1>5. CASE \E q \in Requests : Wake(q)
    BY <1>1, <1>5 DEF Wake
<1>6. CASE Shutdown \/ SubmitClose
    BY <1>6 DEF Shutdown, SubmitClose
<1>7. QED
    BY <1>3, <1>4, <1>5, <1>6 DEF Next

LEMMA ServingStays ==
    ASSUME Next, life' = "serving"
    PROVE  life = "serving"
BY DEF Next, Admit, AskReset, Worker, Discard, Start, Refuse, Finish, Loop, Deliver, Scan,
       Refreshed, RefreshRaises, Resume, Wake, Shutdown, SubmitClose

\* Only the worker changes the engine, or what it runs.
LEMMA EngineStays ==
    ASSUME Next, ~Worker
    PROVE  UNCHANGED <<engine, running>>
BY DEF Next, Admit, AskReset, Loop, Deliver, Scan, Refreshed, RefreshRaises, Wake, Shutdown,
       SubmitClose, workerVars

LEMMA SessionsKept == ServerInv /\ SessionsInv /\ [Next]_vars => SessionsInv'
<1> SUFFICES ASSUME ServerInv, SessionsInv, [Next]_vars PROVE SessionsInv'
    OBVIOUS
<1> DEFINE Runner == running # None /\ running.kind = "generate" /\ asked[running.of].stored =>
                        asked[running.of].sid \in engine.table
<1>1. CASE UNCHANGED vars
    BY <1>1 DEF SessionsInv, vars, clientVars, workerVars
<1>2. ASSUME Next
      PROVE  life' = "serving" => \A r \in Requests : tasks'[r] # "cancelled"
    BY <1>2, NoneCancelled, ServingStays DEF SessionsInv
<1>3. ASSUME Next, ~Worker PROVE (engine.waits \subseteq engine.table /\ Runner)'
  <2>1. UNCHANGED <<engine, running>>
      BY <1>3, EngineStays
  <2>2. ASSUME running # None, running.kind = "generate"
        PROVE  asked'[running.of] = asked[running.of]
    <3>1. running \in Calls /\ InFlight(running) >= 1
        BY <2>2, Types, MembersInFlight DEF ServerInv
    <3>2. PICK r \in Requests : running = Generate(r) /\ running.of = r
      <4>1. running # Close
          BY <2>2 DEF Close, Call
      <4>2. PICK r \in Requests : running \in {Generate(r), Reset(r), Prepare(r)} /\ running.of = r
          BY <3>1, <4>1, CallShape
      <4>3. QED
          BY <2>2, <4>2, CallFields
    <3>3. status[r] = "waiting"
        BY <3>1, <3>2, UnderWayIsSent
    <3>4. QED
        BY <3>2, <3>3, AskedStays
  <2>3. QED
      BY <2>1, <2>2 DEF SessionsInv
<1>4. CASE Discard \/ Refuse
  <2>1. UNCHANGED <<engine, running, asked>>
      BY <1>4 DEF Discard, Refuse, clientVars
  <2>2. (engine.waits \subseteq engine.table /\ Runner)'
      BY <2>1 DEF SessionsInv
  <2>3. QED
      BY <1>2, <1>4, <2>1, <2>2 DEF SessionsInv, Discard, Refuse
<1>5. CASE Start
  <2>1. /\ running' = Head(queue) /\ UNCHANGED <<asked, tasks, life>> /\ queue # <<>>
        /\ \/ /\ Head(queue).kind = "generate"
              /\ engine' \in Selected(engine, asked[Head(queue).of])
           \/ Head(queue).kind # "generate" /\ engine' = engine
      BY <1>5 DEF Start, Take, clientVars
  <2>2. CASE Head(queue).kind = "generate"
    <3>1. Head(queue) # Close
        BY <2>2 DEF Close, Call
    <3>2. asked[Head(queue).of].sid \in Sessions /\ engine \in EngineState
        BY <2>1, <3>1, WorkersCall
    <3>3. /\ engine.table \subseteq engine'.table /\ engine'.waits \subseteq engine.waits
          /\ asked[Head(queue).of].stored => asked[Head(queue).of].sid \in engine'.table
        BY <2>1, <2>2, <3>2, SelectedSets
    <3>4. QED
        BY <2>1, <3>3 DEF SessionsInv
  <2>3. QED
      BY <2>1, <2>2 DEF SessionsInv
<1>6. CASE Finish
  <2>1. /\ running' = None /\ running # None /\ UNCHANGED <<asked, tasks, life>>
        /\ engine' = AfterCall \/ engine' = engine
      BY <1>6 DEF Finish, clientVars
  <2>2. engine' = AfterCall => engine'.waits \subseteq engine'.table
    <3>1. engine \in EngineState /\ (running # Close =>
              /\ asked[running.of].sid \in Sessions
              /\ running.kind \in {"generate", "prepare", "reset"})
        BY <2>1, WorkersCall
    <3>2. CASE running = Close
        BY <3>2 DEF AfterCall, SessionsInv, Close, Call
    <3>3. CASE running # Close /\ running.kind = "generate"
      <4>1. AfterCall = Committed(engine, asked[running.of])
          BY <3>3 DEF AfterCall
      <4>2. QED
          BY <2>1, <3>1, <3>3, <4>1, CommittedSets DEF SessionsInv
    <3>4. CASE running # Close /\ running.kind = "prepare"
      <4>1. AfterCall = Prepared(engine, asked[running.of])
          BY <3>4 DEF AfterCall
      <4>2. QED
          BY <3>1, <3>4, <4>1, PreparedSets DEF SessionsInv
    <3>5. CASE running # Close /\ running.kind = "reset"
      <4>1. AfterCall = ResetDone(engine, asked[running.of].sid)
          BY <3>5 DEF AfterCall
      <4>2. QED
          BY <3>1, <3>5, <4>1, ResetSets DEF SessionsInv
    <3>6. QED
        BY <3>1, <3>2, <3>3, <3>4, <3>5
  <2>3. QED
      BY <2>1, <2>2 DEF SessionsInv
<1>7. QED
  <2>1. CASE Next /\ ~Worker
      BY <1>2, <1>3, <2>1 DEF SessionsInv
  <2>2. QED
      BY <1>1, <1>4, <1>5, <1>6, <2>1 DEF Worker

-----------------------------------------------------------------------------
(* The health snapshot *)

\* A call that did not raise, whose handler is still there.
Answers(d) == ~d.raised /\ ~Abandoned(d.call)

\* The handler inside health() has read what the engine still is.
ScanIsCurrent ==
    /\ refreshing # None
    /\ refreshing.table = engine.table /\ refreshing.active = engine.active
    /\ refreshing.waits = engine.waits \ refreshing.left

\* The snapshot shows the engine, or somebody is still to bring it up to date.
SnapshotInv ==
    ~config.fails =>
        \/ refreshing = None /\ snapshot = Health(engine)
        \/ running # None /\ ~Abandoned(running)
        \/ \E d \in Members(done) : Answers(d)
        \/ ScanIsCurrent
        \/ life = "stopping"
        \/ Close \in Members(queue)

\* Calls that a step leaves where they are, of tasks that it does not cancel.
LEMMA AnswersStay ==
    ASSUME ServerInv, Next, life' # "stopping", NEW call \in Calls, ~Abandoned(call)
    PROVE  ~Abandoned(call)'
<1>1. call.kind = "prepare" => call.of \in Requests
    BY DEF Calls, Close, Call
<1>2. QED
    BY <1>1, NoneCancelled DEF Abandoned

\* What is under way is somewhere.
LEMMA IsSomewhere ==
    ASSUME TypeOK, NEW c, InFlight(c) >= 1
    PROVE  \/ c \in Members(queue) \/ \E d \in Members(done) : d.call = c
           \/ running = c
           \/ refreshing # None /\ refreshing.call = c
<1> SUFFICES ASSUME c \notin Members(queue), \A d \in Members(done) : d.call # c,
                    running # c, ~(refreshing # None /\ refreshing.call = c)
             PROVE  FALSE
    OBVIOUS
<1>1. /\ {i \in 1..Len(queue) : queue[i] = c} = {}
      /\ {i \in 1..Len(done) : done[i].call = c} = {}
    BY DEF Members
<1>2. Queued(c) = 0 /\ Ended(c) = 0
    BY <1>1, FS_EmptySet DEF Queued, Ended
<1>3. Runs(c) = 0 /\ Read(c) = 0
    BY DEF Runs, Read
<1>4. QED
    BY <1>2, <1>3, Sum

\* engine.close is submitted before it ends.
LEMMA StoppingEnds ==
    ASSUME ServerInv, Next, life = "stopping", life' # "stopping"
    PROVE  SubmitClose
<1>1. TypeOK /\ InFlight(Close) = 0
    BY DEF ServerInv, Books, CloseInv
<1>2. \A c \in Calls : c.kind = "close" => c = Close
    BY DEF Calls, Close, Call
<1>3. done # <<>> => Head(done).call \in Calls /\ Head(done).call # Close
    BY <1>1, Heads, Types, Somewhere
<1>4. refreshing # None => refreshing.call \in Calls /\ refreshing.call # Close
    BY <1>1, Types, Somewhere DEF Scans
<1>5. ~Loop
    BY <1>2, <1>3, <1>4 DEF Loop, Deliver, Scan, Refreshed, RefreshRaises, Resume
<1>6. QED
    BY <1>5 DEF Next, Admit, AskReset, Worker, Discard, Start, Refuse, Finish, Wake, Shutdown

LEMMA SnapshotWorker ==
    ASSUME ServerInv, SessionsInv, SnapshotInv, Worker, config' = config, ~config.fails
    PROVE  SnapshotInv'
<1>1. /\ UNCHANGED <<config, tasks, refreshing, snapshot, life>>
      /\ \A c : Abandoned(c)' <=> Abandoned(c)
    BY DEF Worker, Discard, Start, Refuse, Finish, Abandoned
<1>2. /\ queue \in Seq(Calls) /\ done \in Seq(Dones) /\ running \in Calls \cup {None}
      /\ None \notin Calls /\ Close \in Calls /\ ~Abandoned(Close)
    BY Types DEF ServerInv, Calls, Close, Call, Abandoned
<1>3. CASE Start
  <2>1. running' = Head(queue) /\ ~Abandoned(Head(queue)) /\ queue # <<>>
      BY <1>3 DEF Start, Take
  <2>2. running' # None
      BY <1>2, <2>1, MembersTaken
  <2>3. QED
      BY <1>1, <2>1, <2>2 DEF SnapshotInv
<1>4. CASE Discard \/ Refuse
  <2>1. /\ running = None /\ queue # <<>> /\ queue' = Tail(queue) /\ Head(queue) # Close
        /\ UNCHANGED <<engine, running>>
      BY <1>2, <1>4 DEF Discard, Refuse, Take, Close, Call
  <2>2. Close \in Members(queue) => Close \in Members(queue')
      BY <1>2, <2>1, MembersTaken
  <2>3. Members(done) \subseteq Members(done')
    <3>1. CASE Discard
        BY <3>1 DEF Discard
    <3>2. CASE Refuse
      <4>1. /\ done' = Append(done, [call |-> Head(queue), raised |-> TRUE])
            /\ [call |-> Head(queue), raised |-> TRUE] \in Dones
          BY <1>2, <2>1, <3>2, MembersTaken DEF Refuse, Dones
      <4>2. QED
          BY <1>2, <4>1, MembersAppended
    <3>3. QED
        BY <1>4, <3>1, <3>2
  <2>4. \A d : Answers(d)' <=> Answers(d)
      BY <1>1 DEF Answers
  <2>5. QED
      BY <1>1, <2>1, <2>2, <2>3, <2>4 DEF SnapshotInv, ScanIsCurrent
<1>5. CASE Finish
  <2>0. PICK d : d = [call |-> running, raised |-> FALSE]
      OBVIOUS
  <2>1. /\ running # None /\ running' = None /\ UNCHANGED queue
        /\ engine' = AfterCall /\ done' = Append(done, d)
      BY <1>5, <2>0 DEF Finish
  <2>2. d \in Dones
      BY <1>2, <2>0, <2>1 DEF Dones
  <2>3. Members(done') = Members(done) \cup {d}
      BY <1>2, <2>1, <2>2, MembersAppended
  <2>4. CASE ~Abandoned(running)
    <3>1. Answers(d)'
        BY <1>1, <2>0, <2>4 DEF Answers, Abandoned
    <3>2. QED
        BY <2>3, <3>1 DEF SnapshotInv
  <2>5. CASE Abandoned(running)
    <3>1. running.kind = "prepare" /\ tasks[running.of] = "cancelled" /\ running.of \in Requests
        BY <1>2, <2>1, <2>5 DEF Abandoned, Calls, Close, Call
    <3>2. life # "serving"
        BY <3>1 DEF SessionsInv
    <3>3. CASE life = "closing"
      <4>1. InFlight(Close) = 1
          BY <3>3 DEF ServerInv, Books, CloseInv
      <4>2. Close \in Members(queue)
        <5>1. \/ Close \in Members(queue)
              \/ running = Close
              \/ \E i \in 1..Len(done) : done[i].call = Close
              \/ refreshing # None /\ refreshing.call = Close
            BY <4>1, IsSomewhere DEF ServerInv, Members
        <5>2. QED
            BY <2>1, <2>5, <1>2, <5>1 DEF ServerInv, CloseOrder
      <4>3. QED
          BY <2>1, <4>2 DEF SnapshotInv
    <3>4. CASE life = "closed"
        BY <2>1, <3>4 DEF ServerInv, CloseOrder
    <3>5. CASE life = "stopping"
        BY <1>1, <3>5 DEF SnapshotInv
    <3>6. QED
        BY <3>2, <3>3, <3>4, <3>5 DEF ServerInv, TypeOK
  <2>6. QED
      BY <2>4, <2>5
<1>6. QED
    BY <1>3, <1>4, <1>5 DEF Worker

LEMMA SnapshotKept == ServerInv /\ SessionsInv /\ SnapshotInv /\ [Next]_vars => SnapshotInv'
<1> SUFFICES ASSUME ServerInv, SessionsInv, SnapshotInv, [Next]_vars PROVE SnapshotInv'
    OBVIOUS
<1>a. CASE UNCHANGED vars
    BY <1>a DEF SnapshotInv, Answers, Abandoned, ScanIsCurrent, Health, vars, clientVars, workerVars
<1>b. CASE Worker /\ config' = config
    BY <1>b, SnapshotWorker DEF SnapshotInv
<1>c. CASE SubmitClose
  <2>1. queue' = Append(queue, Close) /\ queue \in Seq(Calls)
      BY <1>c, Types DEF SubmitClose, ServerInv
  <2>2. Close \in Members(queue')
      BY <2>1, CloseIsCall, MembersAppended
  <2>3. QED
      BY <2>2 DEF SnapshotInv
<1>d. config' = config
    BY DEF Next, vars
<1> SUFFICES ASSUME Next, ~Worker, ~SubmitClose, life' # "stopping", ~config.fails
             PROVE  SnapshotInv'
    BY <1>a, <1>b, <1>c, <1>d DEF SnapshotInv
<1>2. UNCHANGED <<config, engine, running>>
    BY EngineStays DEF Next
<1>3. /\ queue \in Seq(Calls) /\ done \in Seq(Dones) /\ running \in Calls \cup {None}
      /\ None \notin Calls /\ refreshing \in Scans \cup {None} /\ None \notin Scans
    BY Types DEF ServerInv
<1>0. life # "stopping"
    BY StoppingEnds
<1>4. running # None /\ ~Abandoned(running) => (running # None /\ ~Abandoned(running))'
  <2>1. running # None /\ ~Abandoned(running) => ~(running.kind = "prepare" /\ tasks'[running.of] = "cancelled")
    <3>1. running # None /\ running.kind = "prepare" => running.of \in Requests
        BY <1>3 DEF Calls, Close, Call
    <3>2. QED
        BY <3>1, NoneCancelled DEF Abandoned
  <2>2. QED
      BY <1>2, <2>1 DEF Abandoned
<1>5. \A d \in Members(done) : Answers(d) => Answers(d)'
  <2>1. \A d \in Members(done) : d \in Dones
      BY <1>3 DEF Members
  <2>2. QED
      BY <2>1, AnswersStay DEF Answers, Dones
<1>6. ASSUME UNCHANGED <<done, refreshing, snapshot>>, Members(queue) \subseteq Members(queue')
      PROVE  SnapshotInv'
    BY <1>0, <1>2, <1>4, <1>5, <1>6 DEF SnapshotInv, ScanIsCurrent
<1>7. ASSUME NEW r \in Requests, NEW ask \in Asks, Admit(r, ask) \/ AskReset(r, ask)
      PROVE  SnapshotInv'
  <2>1. /\ UNCHANGED <<done, refreshing, snapshot>>
        /\ queue' \in {queue, Append(queue, Generate(r)), Append(queue, Reset(r))}
      BY <1>7 DEF Admit, AskReset, Generate, Reset
  <2>2. Members(queue) \subseteq Members(queue')
    <3>1. {Generate(r), Reset(r)} \subseteq Calls
        BY CallFields
    <3>2. /\ Members(Append(queue, Generate(r))) = Members(queue) \cup {Generate(r)}
          /\ Members(Append(queue, Reset(r))) = Members(queue) \cup {Reset(r)}
        BY <1>3, <3>1, MembersAppended
    <3>3. QED
        BY <2>1, <3>2
  <2>3. QED
      BY <1>6, <2>1, <2>2
<1>8. ASSUME NEW r \in Requests, Wake(r) PROVE SnapshotInv'
  <2>1. /\ UNCHANGED <<done, refreshing, snapshot>>
        /\ queue' = Append(queue, Prepare(r))
      BY <1>8 DEF Wake, Prepare
  <2>2. Members(queue) \subseteq Members(queue')
      BY <1>3, <2>1, CallFields, MembersAppended
  <2>3. QED
      BY <1>6, <2>1, <2>2
<1>9. CASE Shutdown
    BY <1>9 DEF Shutdown
<1>10. CASE Deliver
  <2>1. /\ refreshing = None /\ UNCHANGED <<queue, snapshot>>
        /\ done # <<>> /\ done' = Tail(done)
      BY <1>10 DEF Deliver, LoopFree
  <2>2. CASE ~Answers(Head(done))
    <3>1. refreshing' = None
        BY <1>10, <2>1, <2>2 DEF Deliver, Answers
    <3>2. Members(done) = Members(done') \cup {Head(done)}
        BY <1>3, <2>1, MembersTaken
    <3>3. \A d \in Members(done') : Answers(d) => Answers(d)'
        BY <1>5, <3>2
    <3>4. (\E d \in Members(done) : Answers(d)) => \E d \in Members(done') : Answers(d)'
        BY <2>2, <3>2, <3>3
    <3>5. QED
        BY <1>0, <1>2, <1>4, <2>1, <3>1, <3>4 DEF SnapshotInv, ScanIsCurrent, Health
  <2>3. CASE Answers(Head(done))
    <3>1. refreshing' = [call |-> Head(done).call, table |-> engine.table, active |-> engine.active,
                         left |-> engine.table, waits |-> {}]
        BY <1>10, <2>3 DEF Deliver, Answers
    <3>2. refreshing' # None
      <4>1. Head(done).call \in Calls /\ engine \in EngineState
          BY <2>1, Heads DEF ServerInv, TypeOK
      <4>2. refreshing' \in Scans
          BY <3>1, <4>1 DEF Scans, EngineState
      <4>3. QED
          BY <1>3, <4>2
    <3>3. ScanIsCurrent'
        BY <1>2, <3>1, <3>2 DEF ScanIsCurrent, SessionsInv
    <3>4. QED
        BY <3>3 DEF SnapshotInv
  <2>4. QED
      BY <2>2, <2>3
<1>11. ASSUME NEW s \in Sessions, Scan(s) PROVE SnapshotInv'
  <2>1. /\ refreshing \in Scans /\ s \in refreshing.left
        /\ refreshing' = [refreshing EXCEPT
              !.left = @ \ {s}, !.waits = IF s \in engine.waits THEN @ \cup {s} ELSE @]
        /\ UNCHANGED <<queue, done, snapshot>>
      BY <1>3, <1>11 DEF Scan, workerVars
  <2>2. /\ refreshing' \in Scans
        /\ refreshing'.table = refreshing.table /\ refreshing'.active = refreshing.active
        /\ refreshing'.left = refreshing.left \ {s}
        /\ refreshing'.waits = IF s \in engine.waits THEN refreshing.waits \cup {s}
                                                    ELSE refreshing.waits
      BY <2>1 DEF Scans
  <2>3. ScanIsCurrent => ScanIsCurrent'
      BY <1>2, <1>3, <2>1, <2>2 DEF ScanIsCurrent
  <2>4. QED
      BY <1>0, <1>2, <1>3, <1>4, <1>5, <2>1, <2>3 DEF SnapshotInv
<1>12. CASE Refreshed \/ RefreshRaises
  <2>1. UNCHANGED <<queue, done>> /\ refreshing # None /\ refreshing' = None
      BY <1>12 DEF Refreshed, RefreshRaises, workerVars
  <2>2. ScanIsCurrent => snapshot' = Health(engine)
      BY <1>12 DEF Refreshed, RefreshRaises, Resized, ScanIsCurrent, Shown, Health
  <2>3. QED
      BY <1>0, <1>2, <1>4, <1>5, <2>1, <2>2 DEF SnapshotInv, Health
<1>13. QED
    BY <1>7, <1>8, <1>9, <1>10, <1>11, <1>12 DEF Next, Loop

LEMMA SnapshotHolds == Spec => [](ServerInv /\ SessionsInv /\ SnapshotInv)
<1>1. Init => SessionsInv /\ SnapshotInv
    BY DEF Init, SessionsInv, SnapshotInv, Health
<1>2. QED
    BY <1>1, InvariantStarts, InvariantKept, SessionsKept, SnapshotKept, PTL DEF Spec

\* When nothing is left to do and no call fails, /health shows the engine as it is, for
\* any sessions and however many scans of health() overlap running calls.
THEOREM SnapshotCatchesUp == Spec => []SnapshotSettles
<1>1. SnapshotInv => SnapshotSettles
    BY DEF SnapshotInv, SnapshotSettles, Members, ScanIsCurrent
<1>2. QED
    BY <1>1, SnapshotHolds, PTL

-----------------------------------------------------------------------------
(* Postfills *)

\* One session, whose id is not the empty string.
SoleSession == EmptyId \notin Sessions /\ \A s, t \in Sessions : s = t

\* The request r has committed what session s holds; its last token is yet to be fed.
Committer(r, s) ==
    /\ asked[r].kind = "generate" /\ asked[r].stored /\ asked[r].ends = "length"
    /\ asked[r].sid = s /\ asked[r].prefix = engine.prefix[s]

Result(r) == [call |-> Generate(r), raised |-> FALSE]

\* Its result is on its way to the handler, or its postfill to the worker.
OnItsWay(r, s) ==
    \/ Result(r) \in Members(done)
    \/ refreshing # None /\ refreshing.call = Generate(r) /\ s \in refreshing.table
    \/ tasks[r] = "sleeping"
    \/ Prepare(r) \in Members(queue)
    \/ running = Prepare(r)

PostfillInv ==
    ~config.fails /\ life = "serving" =>
        \A s \in engine.waits : \E r \in Requests : Committer(r, s) /\ OnItsWay(r, s)

\* Where the postfill of a request can be.
LEMMA WhereItIs ==
    ASSUME ServerInv, SessionsInv, life = "serving", NEW r \in Requests, NEW s, OnItsWay(r, s)
    PROVE  /\ status[r] # "new"
           /\ tasks[r] \in {"sleeping", "submitted"} \/ status[r] = "waiting"
<1>1. Result(r) \in Members(done) => \E d \in Members(done) : d.call = Generate(r)
    BY DEF Result
<1>2. Prepare(r) \in Members(queue) \/ running = Prepare(r) => InFlight(Prepare(r)) >= 1
    BY MembersInFlight DEF ServerInv
<1>3. Result(r) \in Members(done) \/ (refreshing # None /\ refreshing.call = Generate(r))
      => InFlight(Generate(r)) >= 1
    BY <1>1, MembersInFlight DEF ServerInv
<1>4. tasks[r] = "sleeping" => status[r] \notin {"new", "waiting"}
    BY DEF ServerInv, Books, TasksInv
<1>5. tasks[r] # "cancelled"
    BY DEF SessionsInv
<1>6. QED
    BY <1>2, <1>3, <1>4, <1>5, UnderWayIsSent DEF OnItsWay

\* A postfill that is on its way stays on its way while its session waits for it.
LEMMA StaysOnItsWay ==
    ASSUME SoleSession, ServerInv, SessionsInv, Next, ~config.fails, life' = "serving",
           NEW r \in Requests, NEW s \in engine.waits, s \in engine'.waits,
           Committer(r, s), OnItsWay(r, s)
    PROVE  OnItsWay(r, s)'
<1>1. life = "serving" /\ s \in Sessions /\ engine \in EngineState
    BY ServingStays DEF ServerInv, TypeOK, EngineState
<1>2. /\ queue \in Seq(Calls) /\ done \in Seq(Dones) /\ running \in Calls \cup {None}
      /\ None \notin Calls /\ refreshing \in Scans \cup {None} /\ None \notin Scans
      /\ tasks \in [Requests -> {"none", "sleeping", "submitted", "done", "cancelled"}]
    BY Types DEF ServerInv, TypeOK
<1>3. /\ {Generate(r), Reset(r), Prepare(r)} \subseteq Calls /\ Result(r) \in Dones
      /\ Generate(r).kind = "generate" /\ Generate(r).of = r
      /\ Prepare(r).kind = "prepare" /\ Prepare(r).of = r
    BY CallFields DEF Result, Dones
<1>4. ~Abandoned(Prepare(r)) /\ ~Abandoned(Generate(r))
    BY <1>1, <1>3 DEF Abandoned, SessionsInv
\* The handlers of other calls leave the task alone.
<1>5. ASSUME NEW call \in Calls, InFlight(call) >= 1, NEW answer, Resume(call, answer),
             tasks[r] = "sleeping"
      PROVE  tasks'[r] = "sleeping"
  <2>1. call.kind = "prepare" => call.of # r
    <3>1. call.kind = "prepare" /\ call.of = r => call = Prepare(r)
        BY DEF Calls, Close, Call, Prepare
    <3>2. QED
        BY <1>5, <3>1, UnderWayIsSent
  <2>2. QED
      BY <1>2, <1>5, <2>1 DEF Resume
<1>6. ASSUME UNCHANGED <<done, refreshing, running, tasks>>, Members(queue) \subseteq Members(queue')
      PROVE  OnItsWay(r, s)'
    BY <1>6 DEF OnItsWay
<1>7. ASSUME NEW q \in Requests, NEW ask \in Asks, Admit(q, ask) \/ AskReset(q, ask)
      PROVE  OnItsWay(r, s)'
  <2>1. /\ UNCHANGED <<done, refreshing, running, tasks>>
        /\ queue' \in {queue, Append(queue, Generate(q)), Append(queue, Reset(q))}
      BY <1>7 DEF Admit, AskReset, Generate, Reset
  <2>2. /\ Members(Append(queue, Generate(q))) = Members(queue) \cup {Generate(q)}
        /\ Members(Append(queue, Reset(q))) = Members(queue) \cup {Reset(q)}
    <3>1. {Generate(q), Reset(q)} \subseteq Calls
        BY CallFields
    <3>2. QED
        BY <1>2, <3>1, MembersAppended
  <2>3. QED
      BY <1>6, <2>1, <2>2
<1>8. ASSUME NEW q \in Requests, Wake(q) PROVE OnItsWay(r, s)'
  <2>1. /\ UNCHANGED <<done, refreshing, running>>
        /\ tasks' = [tasks EXCEPT ![q] = "submitted"]
        /\ queue' = Append(queue, Prepare(q))
      BY <1>8 DEF Wake, Prepare
  <2>2. Members(queue') = Members(queue) \cup {Prepare(q)}
      BY <1>2, <2>1, CallFields, MembersAppended
  <2>3. tasks[r] = "sleeping" => tasks'[r] = "sleeping" \/ q = r
      BY <1>2, <2>1
  <2>4. QED
      BY <2>1, <2>2, <2>3 DEF OnItsWay
<1>9. CASE Discard \/ Refuse \/ Start
  <2>1. /\ UNCHANGED <<refreshing, tasks>> /\ running = None
        /\ queue # <<>> /\ queue' = Tail(queue)
      BY <1>9 DEF Discard, Refuse, Start, Take
  <2>2. Members(queue) = Members(queue') \cup {Head(queue)} /\ Head(queue) \in Calls
      BY <1>2, <2>1, MembersTaken
  <2>3. Members(done) \subseteq Members(done')
    <3>1. CASE Refuse
      <4>1. /\ done' = Append(done, [call |-> Head(queue), raised |-> TRUE])
            /\ [call |-> Head(queue), raised |-> TRUE] \in Dones
          BY <2>2, <3>1 DEF Refuse, Dones
      <4>2. QED
          BY <1>2, <4>1, MembersAppended
    <3>2. QED
        BY <1>9, <3>1 DEF Discard, Start
  <2>4. Head(queue) = Prepare(r) => running' = Prepare(r)
      BY <1>3, <1>4, <1>9 DEF Discard, Refuse, Start
  <2>5. QED
      BY <1>2, <1>3, <2>1, <2>2, <2>3, <2>4 DEF OnItsWay
<1>10. CASE Finish
  <2>1. PICK d : d = [call |-> running, raised |-> FALSE]
      OBVIOUS
  <2>2. /\ running # None /\ UNCHANGED <<queue, refreshing, tasks>>
        /\ engine' = AfterCall /\ done' = Append(done, d)
      BY <1>10, <2>1 DEF Finish
  <2>3. Members(done') = Members(done) \cup {d}
    <3>1. d \in Dones
        BY <1>2, <2>1, <2>2 DEF Dones
    <3>2. QED
        BY <1>2, <2>2, <3>1, MembersAppended
  <2>4. running # Prepare(r)
    <3>1. SUFFICES ASSUME running = Prepare(r) PROVE FALSE
        OBVIOUS
    <3>2. engine' = Prepared(engine, asked[r])
        BY <1>3, <2>2, <3>1 DEF AfterCall
    <3>3. asked[r].sid = s /\ asked[r].prefix = engine.prefix[s]
        BY DEF Committer
    <3>4. QED
        BY <1>1, <3>2, <3>3, PreparedSets
  <2>5. QED
      BY <2>2, <2>3, <2>4 DEF OnItsWay
<1>11. CASE Deliver
  <2>1. /\ refreshing = None /\ UNCHANGED <<queue, running>>
        /\ done # <<>> /\ done' = Tail(done)
      BY <1>11 DEF Deliver, LoopFree
  <2>2. Members(done) = Members(done') \cup {Head(done)} /\ Head(done) \in Dones
      BY <1>2, <2>1, MembersTaken
  <2>3. Head(done) \in Members(done) /\ Head(done).call \in Calls
      BY <2>2 DEF Dones
  <2>4. InFlight(Head(done).call) >= 1
      BY <2>3, MembersInFlight DEF ServerInv
  <2>5. tasks[r] = "sleeping" => tasks'[r] = "sleeping"
      BY <1>5, <1>11, <2>3, <2>4 DEF Deliver
  <2>6. ASSUME Head(done) = Result(r)
        PROVE  /\ refreshing' # None /\ refreshing'.call = Generate(r)
               /\ s \in refreshing'.table
    <3>1. Head(done).call = Generate(r) /\ Head(done).raised = FALSE
        BY <2>6 DEF Result
    <3>2. refreshing' = [call |-> Generate(r), table |-> engine.table, active |-> engine.active,
                         left |-> engine.table, waits |-> {}]
        BY <1>4, <1>11, <3>1 DEF Deliver
    <3>3. refreshing' \in Scans
        BY <1>1, <1>3, <3>2 DEF Scans, EngineState
    <3>4. QED
        BY <1>2, <3>2, <3>3 DEF SessionsInv
  <2>7. QED
      BY <2>1, <2>2, <2>5, <2>6 DEF OnItsWay
<1>12. ASSUME NEW t \in Sessions, Scan(t) PROVE OnItsWay(r, s)'
  <2>1. /\ UNCHANGED <<queue, done, running, tasks>> /\ refreshing \in Scans
        /\ refreshing' = [refreshing EXCEPT
              !.left = @ \ {t}, !.waits = IF t \in engine.waits THEN @ \cup {t} ELSE @]
      BY <1>2, <1>12 DEF Scan, workerVars
  <2>2. /\ refreshing' \in Scans /\ refreshing'.call = refreshing.call
        /\ refreshing'.table = refreshing.table
      BY <2>1 DEF Scans
  <2>3. QED
      BY <1>2, <2>1, <2>2 DEF OnItsWay
<1>13. CASE Refreshed \/ RefreshRaises
  <2>1. UNCHANGED <<queue, done, running, engine>> /\ refreshing # None
      BY <1>13 DEF Refreshed, RefreshRaises, workerVars
  <2>2. refreshing \in Scans /\ refreshing.call \in Calls /\ InFlight(refreshing.call) >= 1
      BY <1>2, <2>1, MembersInFlight DEF ServerInv, Scans
  <2>3. tasks[r] = "sleeping" => tasks'[r] = "sleeping"
      BY <1>5, <1>13, <2>2 DEF Refreshed, RefreshRaises
  <2>4. ASSUME refreshing.call = Generate(r), s \in refreshing.table
        PROVE  tasks'[r] = "sleeping"
    <3>1. refreshing.table = engine.table
      <4>1. refreshing.table \subseteq Sessions /\ engine.table \subseteq Sessions
          BY <1>1, <2>2 DEF Scans, EngineState
      <4>2. s \in engine.table
          BY DEF SessionsInv
      <4>3. QED
          BY <2>4, <4>1, <4>2 DEF SoleSession
    <3>2. Resume(Generate(r), "ok")
        BY <1>13, <2>4, <3>1 DEF Refreshed, RefreshRaises, Resized
    <3>3. Schedules(Generate(r))
        BY <1>1, <1>3 DEF Schedules, Committer, SoleSession
    <3>4. QED
        BY <1>2, <1>3, <3>2, <3>3 DEF Resume
  <2>5. QED
      BY <2>1, <2>3, <2>4 DEF OnItsWay
<1>14. CASE Shutdown \/ SubmitClose
    BY <1>1, <1>14 DEF Shutdown, SubmitClose
<1>15. QED
    BY <1>7, <1>8, <1>9, <1>10, <1>11, <1>12, <1>13, <1>14 DEF Next, Worker, Loop

LEMMA PostfillKept ==
    SoleSession /\ ServerInv /\ SessionsInv /\ PostfillInv /\ [Next]_vars => PostfillInv'
<1> SUFFICES ASSUME SoleSession, ServerInv, SessionsInv, PostfillInv, [Next]_vars
             PROVE  PostfillInv'
    OBVIOUS
<1>1. CASE UNCHANGED vars
    BY <1>1 DEF PostfillInv, Committer, OnItsWay, vars, clientVars, workerVars
<1> SUFFICES ASSUME Next, ~config.fails, life' = "serving", NEW s \in engine'.waits
             PROVE  \E r \in Requests : Committer(r, s)' /\ OnItsWay(r, s)'
    BY <1>1 DEF PostfillInv, Next
<1>2. life = "serving" /\ engine \in EngineState
    BY ServingStays DEF ServerInv, TypeOK
<1>3. CASE s \in engine.waits /\ engine'.prefix[s] = engine.prefix[s]
  <2>1. PICK r \in Requests : Committer(r, s) /\ OnItsWay(r, s)
      BY <1>2, <1>3 DEF PostfillInv
  <2>2. OnItsWay(r, s)'
      BY <1>3, <2>1, StaysOnItsWay
  <2>3. status[r] # "new"
      BY <1>2, <2>1, WhereItIs
  <2>4. asked'[r] = asked[r]
      BY <2>3, AskedStays
  <2>5. QED
      BY <1>3, <2>1, <2>2, <2>4 DEF Committer
<1>4. CASE ~(s \in engine.waits /\ engine'.prefix[s] = engine.prefix[s])
  <2>1. Worker
      BY <1>4, EngineStays
  <2>2. ~Discard /\ ~Refuse
      BY <1>4 DEF Discard, Refuse
  <2>3. ~Start
    <3> SUFFICES ASSUME Start PROVE FALSE
        OBVIOUS
    <3>1. /\ queue # <<>> /\ Head(queue).kind = "generate"
          /\ engine' \in Selected(engine, asked[Head(queue).of])
        BY <1>4 DEF Start, Take
    <3>2. asked[Head(queue).of].sid \in Sessions
      <4>1. Head(queue) # Close
          BY <3>1 DEF Close, Call
      <4>2. QED
          BY <3>1, <4>1, WorkersCall
    <3>3. QED
        BY <1>2, <1>4, <3>1, <3>2, SelectedSets
  <2>4. running # None /\ engine' = AfterCall /\ UNCHANGED asked
        /\ done' = Append(done, [call |-> running, raised |-> FALSE])
      BY <2>1, <2>2, <2>3 DEF Worker, Finish, clientVars
  <2>5. running # Close /\ running.kind = "generate"
    <3>1. running # Close
        BY <1>4, <2>4 DEF AfterCall, Close, Call
    <3>2. /\ asked[running.of].sid \in Sessions
          /\ running.kind \in {"generate", "prepare", "reset"}
        BY <2>4, <3>1, WorkersCall
    <3>3. running.kind = "prepare" => engine' = Prepared(engine, asked[running.of])
        BY <2>4 DEF AfterCall
    <3>4. running.kind = "reset" => engine' = ResetDone(engine, asked[running.of].sid)
        BY <2>4 DEF AfterCall
    <3>5. QED
        BY <1>2, <1>4, <3>1, <3>2, <3>3, <3>4, PreparedSets, ResetSets
  <2>6. PICK r \in Requests : running = Generate(r) /\ running.of = r
    <3>1. running \in Calls
        BY <2>4, Types DEF ServerInv
    <3>2. PICK r \in Requests : running \in {Generate(r), Reset(r), Prepare(r)} /\ running.of = r
        BY <2>5, <3>1, CallShape
    <3>3. QED
        BY <2>5, <3>2, CallFields
  <2>7. /\ asked[r].sid \in Sessions /\ asked[r].kind = "generate"
        /\ engine' = Committed(engine, asked[r])
      BY <2>4, <2>5, <2>6, WorkersCall DEF AfterCall
  <2>8. /\ asked[r].stored /\ asked[r].ends = "length" /\ asked[r].sid = s
        /\ engine'.prefix[s] = asked[r].prefix
      BY <1>2, <1>4, <2>7, CommittedSets
  <2>9. Result(r) \in Members(done')
    <3>1. done \in Seq(Dones) /\ Result(r) \in Dones
        BY Types, CallFields DEF ServerInv, Result, Dones
    <3>2. done' = Append(done, Result(r))
        BY <2>4, <2>6 DEF Result
    <3>3. QED
        BY <3>1, <3>2, MembersAppended
  <2>10. QED
      BY <2>4, <2>7, <2>8, <2>9 DEF Committer, OnItsWay
<1>5. QED
    BY <1>3, <1>4

\* While the server is up and no call fails, every session whose last token the model
\* has not consumed has a postfill coming, with one session, any number of requests,
\* any prefixes and resets at any time.
THEOREM PostfillIsScheduled ==
    ASSUME SoleSession
    PROVE  Spec => []PostfillScheduled
<1>1. Init => SessionsInv /\ PostfillInv
    BY DEF Init, SessionsInv, PostfillInv
<1>2. ServerInv /\ SessionsInv /\ PostfillInv => PostfillScheduled
  <2> SUFFICES ASSUME ServerInv, SessionsInv, PostfillInv, ~config.fails, life = "serving",
                      NEW s \in engine.waits
               PROVE  PostfillComing(s)
      BY DEF PostfillScheduled
  <2>1. PICK r \in Requests : Committer(r, s) /\ OnItsWay(r, s)
      BY DEF PostfillInv
  <2>2. /\ status[r] # "new"
        /\ tasks[r] \in {"sleeping", "submitted"} \/ status[r] = "waiting"
      BY <2>1, WhereItIs
  <2>3. asked[r] \in Asks
      BY <2>2 DEF ServerInv, Books, AskedInv
  <2>4. asked[r] # None
    <3>1. /\ config.ends \subseteq {"refused", "length", "stop", "nothing"}
          /\ config.prefixes \subseteq Prefixes
        BY ConfigAssumption DEF ServerInv, TypeOK
    <3>2. Asks \subseteq AsksFor({"refused", "length", "stop", "nothing"}, Prefixes)
        BY <3>1 DEF Asks, AsksFor
    <3>3. QED
        BY <2>3, <3>2, NoneAssumption
  <2>5. QED
      BY <2>1, <2>2, <2>4 DEF PostfillComing, Committer
<1>3. ServerInv /\ SessionsInv /\ PostfillInv /\ [Next]_vars => PostfillInv'
    BY PostfillKept
<1>4. QED
    BY <1>1, <1>2, <1>3, InvariantStarts, InvariantKept, SessionsKept, PTL DEF Spec
=============================================================================
