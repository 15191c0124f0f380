----------------------------- MODULE EngineServer -----------------------------
(***************************************************************************)
(* The HTTP server (spark_runtime/server.py) and the single engine thread  *)
(* behind it (DedicatedEngineWorker, spark_runtime/worker.py).             *)
(*                                                                         *)
(* The event loop admits requests, submits calls to a one-thread executor, *)
(* and resumes the handler of a call when its future is done.  Before the  *)
(* handler goes on, _refresh_health_snapshot reads the engine's session    *)
(* table in the event loop, while the worker may already run the next call.*)
(* A result whose last token the model has not consumed makes the handler  *)
(* create a task that sleeps and then submits prepare_next_logits.         *)
(*                                                                         *)
(* The engine itself is reduced to what a health snapshot can show; module *)
(* SessionCache models what it does with tokens and cache.                 *)
(***************************************************************************)
EXTENDS Naturals, Sequences, FiniteSets

CONSTANTS
    Requests,       \* HTTP requests; each is sent at most once
    Sessions,       \* session ids
    EmptyId,        \* the session id "", which is false in Python
    None,           \* Python's None
    Prefixes,       \* token prefixes a generation may leave in its session
    MaxQueueSize,   \* DEEPSEEK_SPARK_MAX_QUEUE_SIZE
    Configs         \* configurations, one of which a behaviour has

ASSUME RequestAssumption == IsFiniteSet(Requests)
ASSUME IdAssumption == None \notin Sessions \cup Requests \cup Prefixes
ASSUME QueueAssumption == MaxQueueSize \in Nat
\* prefixes and ends: of the generations.  fails: an engine call may raise what is
\* not a ValueError.
ASSUME ConfigAssumption ==
    Configs \subseteq [prefixes : SUBSET Prefixes,
                       ends : SUBSET {"refused", "length", "stop", "nothing"}, fails : BOOLEAN]

VARIABLES
    config,
    asked,      \* what each request asks for, and how its generation will end
    status,     \* of each request, as its client sees it
    pending,    \* pending_requests
    tasks,      \* the postfill task that each request's result created
    queue,      \* calls submitted to the executor
    running,    \* the call the worker runs
    done,       \* calls whose futures are done and whose handlers have not run
    refreshing, \* the call whose handler is inside _refresh_health_snapshot
    engine,     \* the engine's sessions and active_session_id
    snapshot,   \* _health_snapshot
    life        \* of the application: serving, stopping, closing, closed

clientVars == <<asked, status, pending>>
workerVars == <<queue, running, done, engine>>
vars == <<config, clientVars, tasks, workerVars, refreshing, snapshot, life>>

Call(kind, of) == [kind |-> kind, of |-> of]
Close == Call("close", None)
Calls == [kind : {"generate", "reset", "prepare"}, of : Requests] \cup {Close}

\* A handler inside _refresh_health_snapshot, with what it has read and has yet to scan.
Scans == [call : Calls, table : SUBSET Sessions, active : Sessions \cup {None},
          left : SUBSET Sessions, waits : SUBSET Sessions]

\* What a request asks for.  The prompt decides how its generation ends:
\* refused with a ValueError before a session is picked; at the token limit, so
\* that its last token waits for a postfill; at a stop token; or with no token
\* generated.  stored: its cache policy is not none.
AsksFor(ends, prefixes) ==
    [kind : {"generate"}, sid : Sessions, stored : BOOLEAN, ends : ends, prefix : prefixes]
    \cup [kind : {"reset"}, sid : Sessions]

Asks == AsksFor(config.ends, config.prefixes)

ASSUME NoneAssumption ==
    /\ None \notin Calls \cup Scans
    /\ None \notin AsksFor({"refused", "length", "stop", "nothing"}, Prefixes)

\* The sessions in the dict, with their token_ids; those that have next_logits;
\* those whose pending_postfill is set; active_session_id.
EngineState ==
    [table : SUBSET Sessions, prefix : [Sessions -> Prefixes \cup {None}],
     ready : SUBSET Sessions, waits : SUBSET Sessions, active : Sessions \cup {None}]

\* What health() reports of the engine.
Health(e) == [table |-> e.table, active |-> e.active, waits |-> e.waits]

Init ==
    /\ config \in Configs
    /\ asked = [r \in Requests |-> None]
    /\ status = [r \in Requests |-> "new"]
    /\ pending = 0
    /\ tasks = [r \in Requests |-> "none"]
    /\ queue = <<>> /\ running = None /\ done = <<>>
    /\ refreshing = None
    /\ engine = [table |-> {}, prefix |-> [s \in Sessions |-> None],
                 ready |-> {}, waits |-> {}, active |-> None]
    /\ snapshot = Health(engine)
    /\ life = "serving"

-----------------------------------------------------------------------------
(* Admission *)

\* The event loop is free for another callback.
LoopFree == refreshing = None

Full == pending >= MaxQueueSize

\* A completion request: it takes a queue slot, or is answered 429.
Admit(r, ask) ==
    /\ LoopFree /\ life = "serving" /\ status[r] = "new"
    /\ ask.kind = "generate"
    /\ asked' = [asked EXCEPT ![r] = ask]
    /\ IF Full
       THEN /\ status' = [status EXCEPT ![r] = "rejected"]
            /\ UNCHANGED <<pending, queue>>
       ELSE /\ status' = [status EXCEPT ![r] = "waiting"]
            /\ pending' = pending + 1
            /\ queue' = Append(queue, Call("generate", r))
    /\ UNCHANGED <<tasks, running, done, engine, refreshing, snapshot, life>>

\* POST /spark/sessions/{session_id}/reset takes no slot.
AskReset(r, ask) ==
    /\ LoopFree /\ life = "serving" /\ status[r] = "new"
    /\ ask.kind = "reset"
    /\ asked' = [asked EXCEPT ![r] = ask]
    /\ status' = [status EXCEPT ![r] = "waiting"]
    /\ queue' = Append(queue, Call("reset", r))
    /\ UNCHANGED <<pending, tasks, running, done, engine, refreshing, snapshot, life>>

-----------------------------------------------------------------------------
(* The worker thread *)

\* The session of sid is dropped, or replaced by an empty one.
Forgotten(e, sid) ==
    [e EXCEPT !.prefix[sid] = None, !.ready = @ \ {sid}, !.waits = @ \ {sid}]

\* _select_session: a new session is inserted, one that the prompt does not
\* extend is replaced.
Selected(e, ask) ==
    IF ~ask.stored THEN {e}
    ELSE LET inserted == [e EXCEPT !.table = @ \cup {ask.sid}] IN
         {inserted, Forgotten(inserted, ask.sid)}

\* Mutant: a handler is taken for gone when it has no task.
AbandonedWithoutTask(call) == call.kind # "close" /\ tasks[call.of] # "submitted"

\* The task that submitted the call has been cancelled.
Abandoned(call) == call.kind = "prepare" /\ tasks[call.of] = "cancelled"

Take == running = None /\ queue # <<>> /\ queue' = Tail(queue)

\* The worker drops a call whose future has been cancelled.
Discard ==
    /\ Take /\ Abandoned(Head(queue))
    /\ UNCHANGED <<clientVars, tasks, running, done, engine, refreshing, snapshot, life>>

\* The worker takes the next call; a generation has picked its session when
\* the model starts to run.
Start ==
    /\ Take /\ ~Abandoned(Head(queue))
    /\ running' = Head(queue)
    /\ IF Head(queue).kind = "generate"
       THEN /\ asked[Head(queue).of].ends # "refused"
            /\ engine' \in Selected(engine, asked[Head(queue).of])
       ELSE UNCHANGED engine
    /\ UNCHANGED <<clientVars, tasks, done, refreshing, snapshot, life>>

\* A generation raises before it picks a session: its prompt is too long, or
\* the model does not load.
Refuse ==
    /\ Take
    /\ Head(queue).kind = "generate"
    /\ config.fails \/ asked[Head(queue).of].ends = "refused"
    /\ done' = Append(done, [call |-> Head(queue), raised |-> TRUE])
    /\ UNCHANGED <<clientVars, tasks, running, engine, refreshing, snapshot, life>>

Committed(e, ask) ==
    IF ~ask.stored THEN e
    ELSE [e EXCEPT
        !.prefix[ask.sid] = ask.prefix,
        !.ready = IF ask.ends = "nothing" THEN @ \cup {ask.sid} ELSE @ \ {ask.sid},
        !.waits = IF ask.ends = "length" THEN @ \cup {ask.sid} ELSE @ \ {ask.sid},
        !.active = ask.sid]

\* Mutant: the session still says that its postfill is pending.
PreparedStillPending(e, ask) ==
    IF e.active # ask.sid \/ e.prefix[ask.sid] # ask.prefix THEN e
    ELSE [e EXCEPT !.ready = @ \cup {ask.sid}]

\* _prepare_next_logits_locked for the prefix the request had committed.
Prepared(e, ask) ==
    IF e.active # ask.sid THEN [e EXCEPT !.waits = @ \ {ask.sid}]
    ELSE IF e.prefix[ask.sid] # ask.prefix THEN e
    ELSE [e EXCEPT !.ready = @ \cup {ask.sid}, !.waits = @ \ {ask.sid}]

ResetDone(e, sid) ==
    LET popped == [Forgotten(e, sid) EXCEPT !.table = @ \ {sid}] IN
    IF e.active = sid THEN [popped EXCEPT !.active = None] ELSE popped

\* The engine after the running call, when it does not raise.
AfterCall ==
    CASE running.kind = "generate" -> Committed(engine, asked[running.of])
      [] running.kind = "prepare" -> Prepared(engine, asked[running.of])
      [] running.kind = "reset" -> ResetDone(engine, asked[running.of].sid)
      [] OTHER -> engine

\* The call ends and its future is done.  A generation that raises may have
\* committed its session before: decoding the answer to text comes after.
Finish ==
    /\ running # None
    /\ \/ /\ engine' = AfterCall
          /\ done' = Append(done, [call |-> running, raised |-> FALSE])
       \/ /\ config.fails /\ running.kind \in {"generate", "prepare"}
          /\ engine' = engine \/ (running.kind = "generate" /\ engine' = AfterCall)
          /\ done' = Append(done, [call |-> running, raised |-> TRUE])
    /\ running' = None
    /\ UNCHANGED <<clientVars, tasks, queue, refreshing, snapshot, life>>

Worker == Discard \/ Start \/ Refuse \/ Finish

-----------------------------------------------------------------------------
(* The event loop after a call *)

\* Mutants: the slot is given back only by a request that was answered, or by
\* calls that never took one.
ReleasedIfAnswered(call, answer) ==
    IF call.kind = "generate" /\ answer = "ok" THEN pending - 1 ELSE pending
ReleasedByAnyCall(call, answer) == pending - 1

\* The finally of _queue_slot.
Released(call, answer) == IF call.kind = "generate" THEN pending - 1 ELSE pending

\* Mutant: the exceptions of the engine are not turned into a response.
AnsweredIfOk(call, answer) ==
    IF call.kind \in {"generate", "reset"} /\ answer = "ok"
    THEN [status EXCEPT ![call.of] = answer] ELSE status

\* The client gets its result, or the 400 or 500 of _generate_or_500.
Answered(call, answer) ==
    IF call.kind \in {"generate", "reset"}
    THEN [status EXCEPT ![call.of] = answer] ELSE status

\* Mutant: one task at a time for a session, whatever its prefix became.
SchedulesOncePerSession(call) ==
    /\ call.kind = "generate"
    /\ asked[call.of].stored /\ asked[call.of].ends = "length"
    /\ asked[call.of].sid # EmptyId
    /\ \A r \in Requests : tasks[r] \in {"sleeping", "submitted"} =>
            asked[r].sid # asked[call.of].sid

\* _schedule_deferred_postfill creates a task for the result of this call.
Schedules(call) ==
    /\ call.kind = "generate"
    /\ asked[call.of].stored /\ asked[call.of].ends = "length"
    /\ asked[call.of].sid # EmptyId

\* The handler that waited for the call goes on to its end.
Resume(call, answer) ==
    /\ status' = Answered(call, answer)
    /\ pending' = Released(call, answer)
    /\ tasks' = CASE call.kind = "prepare" -> [tasks EXCEPT ![call.of] = "done"]
                  [] answer = "ok" /\ Schedules(call) -> [tasks EXCEPT ![call.of] = "sleeping"]
                  [] OTHER -> tasks
    /\ life' = IF call.kind = "close" THEN "closed" ELSE life
    /\ UNCHANGED asked

\* A future is done: its handler is resumed with the exception, is gone, or
\* enters health(), which lists the sessions and starts to scan them.
Deliver ==
    /\ LoopFree /\ done # <<>>
    /\ done' = Tail(done)
    /\ LET call == Head(done).call IN
       \/ /\ Abandoned(call)
          /\ UNCHANGED <<asked, status, pending, tasks, refreshing, life>>
       \/ /\ ~Abandoned(call) /\ Head(done).raised
          /\ Resume(call, "error")
          /\ UNCHANGED refreshing
       \/ /\ ~Abandoned(call) /\ ~Head(done).raised
          /\ refreshing' = [call |-> call, table |-> engine.table, active |-> engine.active,
                            left |-> engine.table, waits |-> {}]
          /\ UNCHANGED <<asked, status, pending, tasks, life>>
    /\ UNCHANGED <<queue, running, engine, snapshot>>

\* The dict that health() scans has grown or shrunk: Python raises.
Resized == Cardinality(engine.table) # Cardinality(refreshing.table)

\* health() looks at the next session of its scan.
Scan(s) ==
    /\ refreshing # None /\ ~Resized
    /\ s \in refreshing.left
    /\ refreshing' = [refreshing EXCEPT
            !.left = @ \ {s},
            !.waits = IF s \in engine.waits THEN @ \cup {s} ELSE @]
    /\ UNCHANGED <<clientVars, tasks, workerVars, snapshot, life>>

\* Mutant: calls that answer no request leave the snapshot as it is.
ShownForRequests ==
    IF refreshing.call.kind = "prepare" THEN snapshot
    ELSE [table |-> refreshing.table, active |-> refreshing.active, waits |-> refreshing.waits]

Shown == [table |-> refreshing.table, active |-> refreshing.active, waits |-> refreshing.waits]

\* The scan is over: the snapshot is replaced and the handler gets its result.
Refreshed ==
    /\ refreshing # None /\ ~Resized
    /\ refreshing.left = {}
    /\ snapshot' = Shown
    /\ refreshing' = None
    /\ Resume(refreshing.call, "ok")
    /\ UNCHANGED workerVars

\* The exception takes the place of the call's result.
RefreshRaises ==
    /\ refreshing # None /\ Resized
    /\ refreshing' = None
    /\ Resume(refreshing.call, "error")
    /\ UNCHANGED <<workerVars, snapshot>>

Loop == Deliver \/ (\E s \in Sessions : Scan(s)) \/ Refreshed \/ RefreshRaises

\* The postfill delay of a task is over.
Wake(r) ==
    /\ LoopFree
    /\ tasks[r] = "sleeping"
    /\ tasks' = [tasks EXCEPT ![r] = "submitted"]
    /\ queue' = Append(queue, Call("prepare", r))
    /\ UNCHANGED <<clientVars, running, done, engine, refreshing, snapshot, life>>

-----------------------------------------------------------------------------
(* Shutdown *)

\* Mutant: only the tasks that have submitted their call are cancelled.
CancelledIfSubmitted ==
    [r \in Requests |-> IF tasks[r] = "submitted" THEN "cancelled" ELSE tasks[r]]

CancelledTasks ==
    [r \in Requests |-> IF tasks[r] \in {"sleeping", "submitted"} THEN "cancelled" ELSE tasks[r]]

\* Every request has been answered: the lifespan cancels the postfill tasks, and with
\* a task the call that it waits for, unless the worker runs that already.
Shutdown ==
    /\ LoopFree /\ life = "serving"
    /\ \A r \in Requests : status[r] # "waiting"
    /\ life' = "stopping"
    /\ tasks' = CancelledTasks
    /\ UNCHANGED <<clientVars, queue, running, done, engine, refreshing, snapshot>>

\* The cancelled tasks are gathered and engine.close is submitted.
SubmitClose ==
    /\ LoopFree /\ life = "stopping"
    /\ life' = "closing"
    /\ queue' = Append(queue, Close)
    /\ UNCHANGED <<clientVars, tasks, running, done, engine, refreshing, snapshot>>

-----------------------------------------------------------------------------

Next ==
    /\ \/ \E r \in Requests, ask \in Asks : Admit(r, ask) \/ AskReset(r, ask)
       \/ Worker
       \/ Loop
       \/ \E r \in Requests : Wake(r)
       \/ Shutdown
       \/ SubmitClose
    /\ UNCHANGED config

Spec == Init /\ [][Next]_vars

\* The worker thread and the event loop run while they have something to do,
\* and timers expire.  Clients need not send anything, nobody need shut down.
Fairness ==
    /\ WF_vars(Worker /\ UNCHANGED config)
    /\ WF_vars(Loop /\ UNCHANGED config)
    /\ \A r \in Requests : WF_vars(Wake(r) /\ UNCHANGED config)
    /\ WF_vars(SubmitClose /\ UNCHANGED config)

FairSpec == Spec /\ Fairness

-----------------------------------------------------------------------------
(* Properties *)

TypeOK ==
    /\ config \in Configs
    /\ asked \in [Requests -> Asks \cup {None}]
    /\ status \in [Requests -> {"new", "waiting", "ok", "error", "rejected"}]
    /\ pending \in Nat
    /\ tasks \in [Requests -> {"none", "sleeping", "submitted", "done", "cancelled"}]
    /\ queue \in Seq(Calls)
    /\ running \in Calls \cup {None}
    /\ done \in Seq([call : Calls, raised : BOOLEAN])
    /\ refreshing \in Scans \cup {None}
    /\ engine \in EngineState
    /\ snapshot \in [table : SUBSET Sessions, active : Sessions \cup {None},
                     waits : SUBSET Sessions]
    /\ life \in {"serving", "stopping", "closing", "closed"}

Waiting(kind) == {r \in Requests : status[r] = "waiting" /\ asked[r].kind = kind}

\* Whatever way requests end, pending_requests counts the generations that
\* hold a slot, and there are never more of them than the queue allows.
SlotAccounting ==
    /\ pending = Cardinality(Waiting("generate"))
    /\ pending <= MaxQueueSize

\* How often a call is somewhere between its submission and its handler.
InFlight(call) ==
    Cardinality({i \in 1..Len(queue) : queue[i] = call})
    + Cardinality({i \in 1..Len(done) : done[i].call = call})
    + (IF running = call THEN 1 ELSE 0)
    + (IF refreshing # None /\ refreshing.call = call THEN 1 ELSE 0)

\* A request waits if and only if exactly one call of its is under way: none
\* is lost, run twice, or left behind by a handler that is gone.
CallsMatchRequests ==
    \A r \in Requests :
        InFlight(Call("generate", r)) + InFlight(Call("reset", r))
            = IF status[r] = "waiting" THEN 1 ELSE 0

\* Nothing reaches the model once engine.close has been submitted, except the
\* postfill that was already running: weight_store is closed for good.
CloseIsLast ==
    life \in {"closing", "closed"} =>
        /\ \A i \in 1..Len(queue) : queue[i] = Close \/ Abandoned(queue[i])
        /\ \A r \in Requests : tasks[r] # "sleeping"
        /\ life = "closed" => running = None

\* Some task will still run prepare_next_logits for the session's prefix, or
\* the result that creates it is on its way to the server.
PostfillComing(s) ==
    \E r \in Requests :
        /\ asked[r] # None /\ asked[r].kind = "generate"
        /\ asked[r].sid = s /\ asked[r].prefix = engine.prefix[s]
        /\ \/ tasks[r] \in {"sleeping", "submitted"}
           \/ asked[r].ends = "length" /\ status[r] = "waiting"

\* While the server is up and no call fails, a session whose last token the model has not
\* consumed has a postfill coming (docs/experiments/006: "the server schedules
\* prepare_next_logits() after the response").
PostfillScheduled ==
    ~config.fails /\ life = "serving" => \A s \in engine.waits : PostfillComing(s)

\* When nothing is left to do and no call fails, the health snapshot shows the engine as it is:
\* the scans that overlap a running call are followed by one that does not.
\* (A shutdown may drop the result of a running postfill; engine.close then
\* brings the snapshot up to date.)
SnapshotSettles ==
    /\ ~config.fails /\ life \in {"serving", "closed"}
    /\ queue = <<>> /\ running = None /\ done = <<>> /\ refreshing = None
    => snapshot = Health(engine)

\* Every admitted request is answered, however the calls before it end.
EveryRequestAnswered ==
    \A r \in Requests : status[r] = "waiting" ~> status[r] \in {"ok", "error"}

\* A client that waits until health shows no pending postfill is not kept
\* waiting for ever (scripts/probe_server_http.py), while the server is up and no
\* call fails.
PendingClears ==
    \A s \in Sessions :
        ~config.fails /\ s \in snapshot.waits ~> (s \notin snapshot.waits \/ life # "serving")
=============================================================================
