----------------------------- MODULE Experiments -----------------------------
(***************************************************************************)
(* The programs that measure: scripts/run_runtime_matrix.py (with          *)
(* summarize_runtime_matrix.py) and scripts/run_nsys_profile.py launch     *)
(* guarded containers, scripts/run_materializer_ab.py starts processes     *)
(* inside one.  What is launched is always scripts/probe_server_http.py,   *)
(* and what is left of it are files: telemetry, to which the engine        *)
(* appends (spark_runtime/telemetry.py), an output log, a report.          *)
(***************************************************************************)
EXTENDS GuardedRun

VARIABLES
    campaign,   \* the program that runs, or the last one
    rest,       \* campaigns still to come
    logs,       \* the telemetry of each name
    outputs,    \* the output of each name's probe: the launch that it is of
    reports     \* the .nsys-rep of each name: the launch that it is of

campaignVars == <<campaign, rest, logs, outputs, reports>>
vars == <<guardVars, campaignVars>>

\* A campaign: names are its scenarios or variants; skip is --skip-existing.
Campaigns == [kind : {"matrix", "nsys", "ab"}, names : Seq(Names), skip : BOOLEAN]

\* The campaigns of a behaviour, one after another; none has a name twice.
ASSUME CampaignAssumption ==
    \A c \in Configs :
        /\ c.campaigns \in Seq(Campaigns)
        /\ \A i \in DOMAIN c.campaigns :
              \A j, k \in DOMAIN c.campaigns[i].names :
                  c.campaigns[i].names[j] = c.campaigns[i].names[k] => j = k

\* The container of an A/B run has a guard of its own, which is not modelled: it is
\* taken to be on a machine where nothing is retained.
ASSUME VariantAssumption ==
    \A c \in Configs : c.retains =>
        \A i \in DOMAIN c.campaigns : c.campaigns[i].kind # "ab"

\* Before the first campaign there is none of a kind.
ASSUME KindAssumption == None \notin {"matrix", "nsys", "ab"}

\* A profile has one name.
ASSUME ProfileAssumption ==
    \A c \in Configs : \A i \in DOMAIN c.campaigns :
        c.campaigns[i].kind = "nsys" => Len(c.campaigns[i].names) = 1

\* The files of an A/B run are named after its prefix, and no other campaign's are.
ASSUME PrefixAssumption ==
    \A c \in Configs : \A i, j \in DOMAIN c.campaigns :
        c.campaigns[i].kind = "ab" /\ c.campaigns[j].kind # "ab" =>
            \A k \in DOMAIN c.campaigns[i].names, l \in DOMAIN c.campaigns[j].names :
                c.campaigns[i].names[k] # c.campaigns[j].names[l]

\* at: what it does; todo: names still to be run; from: launches before it; rows:
\* of the A/B summary; stats: the launch that the statistics are of.
NoCampaign == [kind |-> None, names |-> <<>>, skip |-> FALSE, at |-> "done",
               todo |-> <<>>, from |-> 0, rc |-> 0, rows |-> <<>>, stats |-> None]

Init ==
    /\ GuardInit
    /\ rest = config.campaigns
    /\ campaign = NoCampaign
    /\ logs = [n \in Names |-> <<>>]
    /\ outputs = [n \in Names |-> None]
    /\ reports = [n \in Names |-> None]

-----------------------------------------------------------------------------
(* probe_server_http.py in the launch: the engine's load event, a first    *)
(* completion, its answer printed, a second one that continues it.         *)

ProbeSteps == <<"load", "cold", "answer", "cached">>
Events == {"load", "cold", "cached"}

\* The probe gets on.  The engine has written its telemetry before it answers.
Probe(k) ==
    /\ Running(k) /\ launches[k].done < Len(ProbeSteps)
    /\ LET step == ProbeSteps[launches[k].done + 1]
       IN logs' = IF step \in Events
                  THEN [logs EXCEPT ![launches[k].name] =
                           Append(@, [event |-> step, launch |-> k])]
                  ELSE logs
    /\ launches' = [launches EXCEPT ![k].done = @ + 1]
    /\ UNCHANGED <<config, guard, driver, memory, faults, campaign, rest, outputs, reports>>

\* Mutant of Report: a report that exists is not overwritten.
ReportOnce(k) ==
    reports' = IF campaign.kind = "nsys" /\ k > campaign.from /\ reports[launches[k].name] = None
               THEN [reports EXCEPT ![launches[k].name] = k] ELSE reports

\* The profiler around it writes its report when the probe ends.
Report(k) ==
    reports' = IF campaign.kind = "nsys" /\ k > campaign.from
               THEN [reports EXCEPT ![launches[k].name] = k] ELSE reports

\* The probe fails, or ends well: a server that does not start, a request that
\* fails, an answer that is not what it should be end it at any point.
ProbeEnds(k, rc) ==
    /\ rc = 0 => launches[k].done = Len(ProbeSteps)
    /\ End(k, rc) /\ Report(k)
    /\ UNCHANGED <<campaign, rest, logs, outputs>>

-----------------------------------------------------------------------------
(* The campaigns *)

Begin ==
    /\ campaign.at = "done" /\ guard.at = "off" /\ rest # <<>>
    /\ campaign' = [NoCampaign EXCEPT !.kind = Head(rest).kind, !.names = Head(rest).names,
                       !.skip = Head(rest).skip, !.todo = Head(rest).names,
                       !.at = "next", !.from = Len(launches)]
    /\ rest' = Tail(rest)
    /\ UNCHANGED <<guardVars, logs, outputs, reports>>

Done(rc) == [campaign EXCEPT !.at = "done", !.rc = rc]

\* Mutant of Skips: whatever has been run is run again.
SkipsNone(n) == FALSE

\* There is telemetry of this name already.
Skips(n) == campaign.kind = "matrix" /\ campaign.skip /\ logs[n] # <<>>

Skip ==
    /\ campaign.at = "next" /\ campaign.todo # <<>> /\ Skips(Head(campaign.todo))
    /\ campaign' = [campaign EXCEPT !.todo = Tail(@)]
    /\ UNCHANGED <<guardVars, rest, logs, outputs, reports>>

\* The matrix and the profile launch a guard.
RunNext ==
    /\ campaign.at = "next" /\ campaign.kind \in {"matrix", "nsys"}
    /\ campaign.todo # <<>> /\ ~Skips(Head(campaign.todo))
    /\ Launch(Head(campaign.todo))
    /\ campaign' = [campaign EXCEPT !.at = "run"]
    /\ UNCHANGED <<rest, logs, outputs, reports>>

\* The A/B run removes the files of the name and starts the probe itself.
RunVariant ==
    /\ campaign.at = "next" /\ campaign.kind = "ab" /\ campaign.todo # <<>>
    /\ Len(launches) < config.launches
    /\ LET n == Head(campaign.todo)
       IN /\ launches' = Append(launches, [name |-> n, at |-> "running", rc |-> None, done |-> 0])
          /\ logs' = [logs EXCEPT ![n] = <<>>]
          /\ outputs' = [outputs EXCEPT ![n] = None]
    /\ campaign' = [campaign EXCEPT !.at = "run"]
    /\ UNCHANGED <<config, guard, driver, memory, faults, rest, reports>>

\* Mutant of MatrixReturn: a scenario that failed does not stop the matrix.
MatrixReturnOn ==
    /\ campaign.at = "run" /\ campaign.kind = "matrix" /\ guard.at = "off"
    /\ campaign' = [campaign EXCEPT !.at = "next", !.todo = Tail(@)]
    /\ UNCHANGED <<guardVars, rest, logs, outputs, reports>>

\* The matrix stops at the first scenario that fails.
MatrixReturn ==
    /\ campaign.at = "run" /\ campaign.kind = "matrix" /\ guard.at = "off"
    /\ campaign' = IF guard.rc # 0 THEN Done(guard.rc)
                   ELSE [campaign EXCEPT !.at = "next", !.todo = Tail(@)]
    /\ UNCHANGED <<guardVars, rest, logs, outputs, reports>>

\* run_stats: of the report that is there.
NsysReturn ==
    /\ campaign.at = "run" /\ campaign.kind = "nsys" /\ guard.at = "off"
    /\ campaign' = [Done(guard.rc) EXCEPT !.stats = reports[Head(campaign.todo)]]
    /\ UNCHANGED <<guardVars, rest, logs, outputs, reports>>

\* Where the completions are in the telemetry.
Generated(n) == {i \in DOMAIN logs[n] : logs[n][i].event # "load"}
First(S) == CHOOSE i \in S : \A j \in S : i <= j

\* row_for_run: the first event of the telemetry and the completion that the
\* output shows.  Without one of them it raises, and no row is written.
VariantReturn ==
    /\ campaign.at = "run" /\ campaign.kind = "ab"
    /\ LET n == Head(campaign.todo)
           k == Len(launches)
           shown == IF launches[k].done >= 3 THEN k ELSE None
           row == [name |-> n, event |-> logs[n][First(Generated(n))].launch,
                   shown |-> shown, rc |-> launches[k].rc]
           rows == [campaign EXCEPT !.rows = Append(@, row)]
       IN /\ launches[k].at = "ended"
          /\ outputs' = [outputs EXCEPT ![n] = shown]
          /\ campaign' = IF Generated(n) = {} \/ shown = None THEN Done(1)
                         ELSE IF row.rc # 0
                         THEN [rows EXCEPT !.at = "done", !.rc = row.rc]
                         ELSE [rows EXCEPT !.at = "next", !.todo = Tail(@)]
    /\ UNCHANGED <<guardVars, rest, logs, reports>>

\* The container of an A/B run is killed, with all that runs in it.
VariantKilled ==
    /\ campaign.at \in {"next", "run"} /\ campaign.kind = "ab"
    /\ campaign' = Done(137)
    /\ launches' = [k \in DOMAIN launches |-> IF Running(k) THEN Ended(k, 137)[k] ELSE launches[k]]
    /\ memory' = [memory EXCEPT !.large = {}]
    /\ UNCHANGED <<config, guard, driver, faults, rest, logs, outputs, reports>>

Finish ==
    /\ campaign.at = "next" /\ campaign.todo = <<>>
    /\ campaign' = Done(0)
    /\ UNCHANGED <<guardVars, rest, logs, outputs, reports>>

\* Ctrl-C: the guard gets it too, and is killed if it takes long to end.
CampaignInterrupt ==
    /\ campaign.at = "run" /\ campaign.kind # "ab"
    /\ Interrupt \/ GuardDies
    /\ campaign' = [campaign EXCEPT !.at = "stopping"]
    /\ UNCHANGED <<rest, logs, outputs, reports>>

CampaignStops ==
    /\ campaign.at = "stopping" /\ guard.at = "off"
    /\ campaign' = Done(130)
    /\ UNCHANGED <<guardVars, rest, logs, outputs, reports>>

-----------------------------------------------------------------------------
Creates == \E k \in DOMAIN launches : Create(k) /\ UNCHANGED campaignVars
Guards == GuardStep /\ UNCHANGED campaignVars

Next ==
    \/ Creates
    \/ Guards
    \/ \E k \in DOMAIN launches :
          \/ (Grow(k) \/ OutOfMemory(k)) /\ UNCHANGED campaignVars
          \/ Probe(k)
          \/ ProbeEnds(k, 0) \/ ProbeEnds(k, 1)
    \/ campaign.at = "stopping" /\ GuardDies /\ UNCHANGED campaignVars
    \/ Begin \/ Skip \/ RunNext \/ RunVariant
    \/ MatrixReturn \/ NsysReturn \/ VariantReturn \/ VariantKilled
    \/ Finish \/ CampaignInterrupt \/ CampaignStops

Spec == Init /\ [][Next]_vars

\* Docker and the guard go on; a container need not end.
FairSpec == Spec /\ WF_vars(Creates) /\ WF_vars(Guards)
-----------------------------------------------------------------------------
(* Properties *)

\* Type invariant: the values that guards, campaigns and files may have.
TypeOK ==
    /\ GuardTypes
    /\ campaign.at \in {"done", "next", "run", "stopping"} /\ campaign.rc \in Nat
    /\ campaign.from \in 0..Len(launches)
    /\ Len(campaign.todo) <= Len(campaign.names) /\ Len(campaign.rows) <= Len(campaign.names)
    /\ campaign.stats \in {None} \cup DOMAIN launches
    /\ \A n \in Names :
          /\ \A i \in DOMAIN logs[n] : logs[n][i].event \in Events
                                       /\ logs[n][i].launch \in DOMAIN launches
          /\ outputs[n] \in {None} \cup DOMAIN launches
          /\ reports[n] \in {None} \cup DOMAIN launches

\* A matrix that ends well has, for each scenario that it ran, a launch of its own
\* whose cold and cached completions are the last in the scenario's telemetry.
ZeroMeansComplete ==
    campaign.kind = "matrix" /\ campaign.at = "done" /\ campaign.rc = 0 /\ ~campaign.skip =>
        \A i \in DOMAIN campaign.names :
            LET n == campaign.names[i] IN
            \E k \in (campaign.from + 1)..Len(launches), c, d \in Generated(n) :
                /\ logs[n][c] = [event |-> "cold", launch |-> k]
                /\ logs[n][d] = [event |-> "cached", launch |-> k]
                /\ c < d /\ \A j \in Generated(n) : j <= c \/ j = d

\* The row that summarize_runtime_matrix.py makes of a scenario.
Row(n) ==
    LET first == First(Generated(n))
        cached == First(Generated(n) \ {first})
    IN [first |-> logs[n][first], cached |-> logs[n][cached]]

AlwaysSkips ==
    \A i \in DOMAIN config.campaigns :
        config.campaigns[i].kind = "matrix" /\ config.campaigns[i].skip

\* With --skip-existing, whatever is interrupted and begun again: the cold and the
\* cached times of a row are of one run, as long as no guard dies.
RowsOfOneRun ==
    AlwaysSkips /\ faults = 0 =>
        \A n \in Names : (\E i, j \in Generated(n) : i # j) =>
            /\ Row(n).first.event = "cold" /\ Row(n).cached.event = "cached"
            /\ Row(n).first.launch = Row(n).cached.launch

\* The statistics of a profile that ends well are of its own launch, not of a
\* report that was there.
StatsAreOwn ==
    campaign.kind = "nsys" /\ campaign.at = "done" /\ campaign.rc = 0 =>
        campaign.stats # None /\ campaign.stats > campaign.from

\* A row of the A/B summary takes its times and its tokens from one launch, one
\* of the campaign's own.
VariantRowsAreOwn ==
    \A i \in DOMAIN campaign.rows :
        campaign.rows[i].event = campaign.rows[i].shown /\ campaign.rows[i].event > campaign.from

\* What a campaign reports is its own.
ReportsAreOwn == StatsAreOwn /\ VariantRowsAreOwn
=============================================================================
