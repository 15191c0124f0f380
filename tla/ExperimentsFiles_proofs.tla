-------------------------- MODULE ExperimentsFiles_proofs --------------------------
(***************************************************************************)
(* What the files of the experiments hold, whatever campaigns follow one   *)
(* another, whichever launches fail, and wherever a guard, a container or  *)
(* a whole run is ended: profiles and A/B runs report what they have run   *)
(* themselves, a matrix that ends well is complete, and a matrix that      *)
(* skips what exists mixes no two runs in a row.                           *)
(***************************************************************************)
EXTENDS Experiments_proofs, WellFoundedInduction

-----------------------------------------------------------------------------
(* What a step does to the launches *)

Entries == [event : Events, launch : Nat]

\* Launches K end, and no other one changes.
Ends(K, rc) ==
    /\ DOMAIN launches' = DOMAIN launches
    /\ \A k \in DOMAIN launches :
          launches'[k] = IF k \in K THEN [launches[k] EXCEPT !.at = "ended", !.rc = rc] ELSE launches[k]

\* Only a probe that has done everything, and writes its report, ends with 0.
Endings ==
    \E K \in SUBSET DOMAIN launches, rc \in Nat :
        /\ Ends(K, rc) /\ \A k \in K : launches[k].at # "ended"
        /\ rc = 0 => \E k \in K : K = {k} /\ Running(k) /\ launches[k].done = 4 /\ Report(k)

\* A container starts: nothing of its name runs.
Starts(k) ==
    /\ DOMAIN launches' = DOMAIN launches
    /\ launches[k].at = "starting" /\ Named(launches[k].name) = {}
    /\ \A j \in DOMAIN launches :
          launches'[j] = IF j = k THEN [launches[k] EXCEPT !.at = "running"] ELSE launches[j]

\* A launch of n begins.
Begins(n, at) ==
    /\ Len(launches) \in Nat /\ DOMAIN launches = 1..Len(launches)
    /\ Len(launches') = Len(launches) + 1 /\ DOMAIN launches' = 1..(Len(launches) + 1)
    /\ \A j \in DOMAIN launches : launches'[j] = launches[j]
    /\ launches'[Len(launches) + 1] = [name |-> n, at |-> at, rc |-> None, done |-> 0]

LEMMA Domain ==
    ASSUME Inv
    PROVE  /\ Len(launches) \in Nat /\ DOMAIN launches = 1..Len(launches)
           /\ launches \in Seq(LaunchTypes)
           /\ \A k \in DOMAIN launches : launches[k] \in LaunchTypes
<1>1. launches \in Seq(LaunchTypes)
    BY DEF Inv, GuardInv
<1>2. QED
    BY <1>1, LenProperties

LEMMA EndedEnds ==
    ASSUME Inv, NEW k \in DOMAIN launches, NEW rc \in Nat, launches' = Ended(k, rc)
    PROVE  Ends({k}, rc)
<1>1. launches' = [launches EXCEPT ![k] = [launches[k] EXCEPT !.at = "ended", !.rc = rc]]
    BY DEF Ended
<1>2. launches \in [DOMAIN launches -> LaunchTypes]
    BY Domain
<1>3. QED
    BY <1>1, <1>2 DEF Ends

LEMMA AllKilledEnd ==
    ASSUME Inv, NEW K \in SUBSET DOMAIN launches,
           launches' = [j \in DOMAIN launches |-> IF j \in K THEN Ended(j, 137)[j] ELSE launches[j]]
    PROVE  Ends(K, 137)
<1>1. \A j \in DOMAIN launches :
          Ended(j, 137)[j] = [launches[j] EXCEPT !.at = "ended", !.rc = 137]
    BY DEF Ended
<1>2. QED
    BY <1>1 DEF Ends

\* However containers are killed.
LEMMA KillsAreEndings ==
    ASSUME Inv, NEW K \in SUBSET Containers, Ends(K, 137)
    PROVE  Endings
<1>1. K \in SUBSET DOMAIN launches /\ \A k \in K : launches[k].at # "ended"
    BY DEF Containers, Running
<1>2. QED
    BY <1>1 DEF Endings

LEMMA NoEnding ==
    ASSUME Inv, UNCHANGED launches
    PROVE  Endings
<1>1. Ends({}, 137)
    BY DEF Ends
<1>2. {} \in SUBSET Containers
    OBVIOUS
<1>3. QED
    BY <1>1, <1>2, KillsAreEndings

LEMMA InterruptedEnds ==
    ASSUME Inv, guard.at # "off", launches' = Interrupted
    PROVE  Endings
<1>1. CASE Own.at = "starting"
  <2>1. guard.launch \in DOMAIN launches /\ launches' = Ended(guard.launch, 130)
    BY <1>1, OwnLaunch DEF Interrupted, Inv
  <2>2. Ends({guard.launch}, 130)
    BY <2>1, EndedEnds
  <2>3. {guard.launch} \in SUBSET DOMAIN launches /\ launches[guard.launch].at # "ended"
    BY <1>1, <2>1 DEF Own
  <2>4. QED
    BY <2>2, <2>3 DEF Endings
<1>2. CASE Own.at # "starting"
    BY <1>2, NoEnding DEF Interrupted
<1>3. QED
    BY <1>1, <1>2

LEMMA CreateEnds ==
    ASSUME Inv, NEW k \in DOMAIN launches, Create(k)
    PROVE  Endings \/ Starts(k)
<1>1. launches[k].at = "starting"
    BY DEF Create
<1>2. CASE Named(launches[k].name) = {} /\ driver.modules = Whole.modules
  <2>1. launches' = [launches EXCEPT ![k] = [launches[k] EXCEPT !.at = "running"]]
    BY <1>2 DEF Create
  <2>2. launches \in [DOMAIN launches -> LaunchTypes]
    BY Domain
  <2>3. QED
    BY <1>1, <1>2, <2>1, <2>2 DEF Starts
<1>3. CASE ~(Named(launches[k].name) = {} /\ driver.modules = Whole.modules)
  <2>1. launches' = Ended(k, 125)
    BY <1>3 DEF Create
  <2>2. Ends({k}, 125)
    BY <2>1, EndedEnds
  <2>3. {k} \in SUBSET DOMAIN launches
    OBVIOUS
  <2>4. QED
    BY <1>1, <2>2, <2>3 DEF Endings
<1>4. QED
    BY <1>2, <1>3

LEMMA ProbeEndsEnds ==
    ASSUME Inv, NEW k \in DOMAIN launches, NEW rc \in Nat, ProbeEnds(k, rc)
    PROVE  Endings /\ Ends({k}, rc) /\ Running(k)
<1>1. /\ Running(k) /\ launches' = Ended(k, rc) /\ Report(k)
      /\ rc = 0 => launches[k].done = 4
    BY DEF ProbeEnds, End, ProbeSteps
<1>2. Ends({k}, rc) /\ {k} \in SUBSET DOMAIN launches
    BY <1>1, EndedEnds
<1>3. QED
    BY <1>1, <1>2 DEF Endings, Running

LEMMA GuardStepEnds ==
    ASSUME Inv, GuardStep
    PROVE  Endings
<1>1. CASE Kill
  <2>1. Named(Own.name) \in SUBSET Containers /\ Named(Own.name) \in SUBSET DOMAIN launches
    BY DEF Named, Containers
  <2>2. Ends(Named(Own.name), 137)
    BY <1>1, <2>1, AllKilledEnd DEF Kill, Killed
  <2>3. QED
    BY <2>1, <2>2, KillsAreEndings
<1>2. CASE ~Kill
  <2>1. UNCHANGED launches
    BY <1>2 DEF GuardStep, PollEnded, PollLow, PollTimeout, Wait, RecoverStep, RecoverFails
  <2>2. QED
    BY <2>1, NoEnding
<1>3. QED
    BY <1>1, <1>2

LEMMA OutOfMemoryEnds ==
    ASSUME Inv, NEW k \in DOMAIN launches, OutOfMemory(k)
    PROVE  Endings
<1>1. /\ k \in Containers
      /\ launches' = [j \in DOMAIN launches |-> IF j \in {k} THEN Ended(j, 137)[j] ELSE launches[j]]
    BY DEF OutOfMemory, Killed, Inv, GuardInv
<1>2. Ends({k}, 137) /\ {k} \in SUBSET Containers
    BY <1>1, AllKilledEnd
<1>3. QED
    BY <1>2, KillsAreEndings

LEMMA VariantKilledEnds ==
    ASSUME Inv, VariantKilled
    PROVE  Endings /\ Ends(Containers, 137)
<1>1. launches' = [j \in DOMAIN launches |->
                      IF j \in Containers THEN Ended(j, 137)[j] ELSE launches[j]]
    BY DEF VariantKilled, Containers
<1>2. Containers \in SUBSET DOMAIN launches
    BY DEF Containers
<1>3. Ends(Containers, 137)
    BY <1>1, <1>2, AllKilledEnd
<1>4. QED
    BY <1>3, KillsAreEndings

LEMMA HeadIsName ==
    ASSUME Inv, campaign.todo # <<>>
    PROVE  Head(campaign.todo) \in Names /\ Head(campaign.todo) = campaign.todo[1]
           /\ 1 \in DOMAIN campaign.todo
<1>1. campaign.todo \in Seq(Names)
    BY DEF Inv, CampaignInv, CampaignValues
<1>2. QED
    BY <1>1

LEMMA RunNextBegins ==
    ASSUME Inv, RunNext
    PROVE  Begins(Head(campaign.todo), "starting")
<1>1. launches' = Append(launches, [name |-> Head(campaign.todo), at |-> "starting",
                                    rc |-> None, done |-> 0])
    BY DEF RunNext, Launch
<1>2. Head(campaign.todo) \in Names
    BY HeadIsName DEF RunNext
<1> DEFINE l == [name |-> Head(campaign.todo), at |-> "starting", rc |-> None, done |-> 0]
<1>3. l \in LaunchTypes
    BY <1>2 DEF LaunchTypes
<1>4. launches' = Append(launches, l)
    BY <1>1
<1>5. Begins(Head(campaign.todo), "starting") <=>
      /\ Len(launches) \in Nat /\ DOMAIN launches = 1..Len(launches)
      /\ Len(launches') = Len(launches) + 1 /\ DOMAIN launches' = 1..(Len(launches) + 1)
      /\ \A j \in DOMAIN launches : launches'[j] = launches[j]
      /\ launches'[Len(launches) + 1] = l
    BY DEF Begins
<1> HIDE DEF l
<1>6. /\ launches' \in Seq(LaunchTypes) /\ Len(launches') = Len(launches) + 1
      /\ \A k \in 1..Len(launches) : launches'[k] = launches[k]
      /\ launches'[Len(launches) + 1] = l
    BY <1>3, <1>4, Domain, AppendProperties
<1>7. DOMAIN launches' = 1..(Len(launches) + 1)
    BY <1>6, LenProperties
<1>8. QED
    BY <1>5, <1>6, <1>7, Domain

LEMMA RunVariantBegins ==
    ASSUME Inv, RunVariant
    PROVE  Begins(Head(campaign.todo), "running")
<1>1. launches' = Append(launches, [name |-> Head(campaign.todo), at |-> "running",
                                    rc |-> None, done |-> 0])
    BY DEF RunVariant
<1>2. Head(campaign.todo) \in Names
    BY HeadIsName DEF RunVariant
<1> DEFINE l == [name |-> Head(campaign.todo), at |-> "running", rc |-> None, done |-> 0]
<1>3. l \in LaunchTypes
    BY <1>2 DEF LaunchTypes
<1>4. launches' = Append(launches, l)
    BY <1>1
<1>5. Begins(Head(campaign.todo), "running") <=>
      /\ Len(launches) \in Nat /\ DOMAIN launches = 1..Len(launches)
      /\ Len(launches') = Len(launches) + 1 /\ DOMAIN launches' = 1..(Len(launches) + 1)
      /\ \A j \in DOMAIN launches : launches'[j] = launches[j]
      /\ launches'[Len(launches) + 1] = l
    BY DEF Begins
<1> HIDE DEF l
<1>6. /\ launches' \in Seq(LaunchTypes) /\ Len(launches') = Len(launches) + 1
      /\ \A k \in 1..Len(launches) : launches'[k] = launches[k]
      /\ launches'[Len(launches) + 1] = l
    BY <1>3, <1>4, Domain, AppendProperties
<1>7. DOMAIN launches' = 1..(Len(launches) + 1)
    BY <1>6, LenProperties
<1>8. QED
    BY <1>5, <1>6, <1>7, Domain

\* The probe of k gets one step further.
Advances(k) ==
    /\ DOMAIN launches' = DOMAIN launches /\ Running(k) /\ launches[k].done \in 0..3
    /\ \A j \in DOMAIN launches :
          launches'[j] = IF j = k THEN [launches[k] EXCEPT !.done = @ + 1] ELSE launches[j]

LEMMA ProbeAdvances ==
    ASSUME Inv, NEW k \in DOMAIN launches, Probe(k)
    PROVE  Advances(k)
<1>1. /\ Running(k) /\ launches[k].done < 4
      /\ launches' = [launches EXCEPT ![k] = [launches[k] EXCEPT !.done = @ + 1]]
    BY DEF Probe, ProbeSteps
<1>2. launches \in [DOMAIN launches -> LaunchTypes] /\ launches[k] \in LaunchTypes
    BY Domain
<1>3. launches[k].done \in 0..3
    BY <1>1, <1>2 DEF LaunchTypes
<1>4. QED
    BY <1>1, <1>2, <1>3 DEF Advances

\* Steps by what they do to the launches and the telemetry.
LEMMA StepKinds ==
    ASSUME Inv, [Next]_vars
    PROVE  /\ config' = config
           /\ \/ Endings /\ UNCHANGED logs
              \/ \E k \in DOMAIN launches : Starts(k) /\ UNCHANGED <<logs, campaign, guard>>
              \/ \E k \in DOMAIN launches : Probe(k) /\ Advances(k)
              \/ RunNext /\ Begins(Head(campaign.todo), "starting") /\ UNCHANGED logs
              \/ RunVariant /\ Begins(Head(campaign.todo), "running")
<1>1. CASE UNCHANGED vars
    BY <1>1, NoEnding DEF vars, guardVars, campaignVars
<1>2. CASE Creates
    BY <1>2, CreateEnds DEF Creates, Create, campaignVars
<1>3. CASE Guards
  <2>1. UNCHANGED <<config, logs>>
    BY <1>3 DEF Guards, GuardStep, PollEnded, PollLow, PollTimeout, Kill, Wait, RecoverStep,
       RecoverFails, campaignVars
  <2>2. QED
    BY <1>3, <2>1, GuardStepEnds DEF Guards
<1>4. ASSUME NEW k \in DOMAIN launches, Grow(k), UNCHANGED campaignVars
      PROVE  UNCHANGED <<config, logs>> /\ Endings
    BY <1>4, NoEnding DEF Grow, campaignVars
<1>5. ASSUME NEW k \in DOMAIN launches, OutOfMemory(k), UNCHANGED campaignVars
      PROVE  UNCHANGED <<config, logs>> /\ Endings
    BY <1>5, OutOfMemoryEnds DEF OutOfMemory, campaignVars
<1>6. ASSUME NEW k \in DOMAIN launches, Probe(k)
      PROVE  UNCHANGED config /\ Advances(k)
    BY <1>6, ProbeAdvances DEF Probe
<1>7. ASSUME NEW k \in DOMAIN launches, ProbeEnds(k, 0) \/ ProbeEnds(k, 1)
      PROVE  UNCHANGED <<config, logs>> /\ Endings
    BY <1>7, ProbeEndsEnds DEF ProbeEnds, End
<1>8. CASE campaign.at = "stopping" /\ GuardDies /\ UNCHANGED campaignVars
    BY <1>8, InterruptedEnds DEF GuardDies, campaignVars
<1>9. CASE Begin \/ Skip \/ MatrixReturn \/ NsysReturn \/ VariantReturn \/ Finish \/ CampaignStops
  <2>1. UNCHANGED <<guardVars, logs>>
    BY <1>9 DEF Begin, Skip, MatrixReturn, NsysReturn, VariantReturn, Finish, CampaignStops
  <2>2. QED
    BY <2>1, NoEnding DEF guardVars
<1>10. CASE RunNext
  <2>1. UNCHANGED <<config, logs>>
    BY <1>10 DEF RunNext, Launch
  <2>2. QED
    BY <1>10, <2>1, RunNextBegins
<1>11. CASE RunVariant
  <2>1. UNCHANGED config
    BY <1>11 DEF RunVariant
  <2>2. QED
    BY <1>11, <2>1, RunVariantBegins
<1>12. CASE VariantKilled
    BY <1>12, VariantKilledEnds DEF VariantKilled
<1>13. CASE CampaignInterrupt
  <2>1. guard.at # "off" /\ launches' = Interrupted /\ UNCHANGED <<config, logs>>
    BY <1>13 DEF CampaignInterrupt, Interrupt, GuardDies
  <2>2. QED
    BY <2>1, InterruptedEnds
<1>14. QED
    BY <1>1, <1>2, <1>3, <1>4, <1>5, <1>6, <1>7, <1>8, <1>9, <1>10, <1>11, <1>12, <1>13 DEF Next

-----------------------------------------------------------------------------
(* What campaigns and files hold *)

LEMMA NatMin ==
    ASSUME NEW S \in SUBSET Nat, S # {}
    PROVE  \E m \in S : \A k \in S : m <= k
<1> DEFINE R == {p \in Nat \X Nat : p[1] < p[2]}
<1>1. OpToRel(<, Nat) = R
    BY DEF OpToRel
<1>2. IsWellFoundedOn(R, Nat)
    BY <1>1, NatLessThanWellFounded
<1> HIDE DEF R
<1>3. PICK x \in S : \A y \in S : ~(<<y, x>> \in R)
    BY <1>2, WFMin
<1>4. \A y \in S : ~(y < x)
    BY <1>3 DEF R
<1>5. QED
    BY <1>4

LEMMA FirstIsLeast ==
    ASSUME NEW S \in SUBSET Nat, S # {}
    PROVE  First(S) \in S /\ \A j \in S : First(S) <= j
<1>1. \E m \in S : \A k \in S : m <= k
    BY NatMin
<1>2. QED
    BY <1>1 DEF First

Rows == [name : Names, event : Nat, shown : Nat, rc : Nat]

FileInv ==
    /\ logs \in [Names -> Seq(Entries)]
    /\ \A n \in Names : \A i \in DOMAIN logs[n] : logs[n][i].launch \in DOMAIN launches
    /\ outputs \in [Names -> {None} \cup DOMAIN launches]
    /\ reports \in [Names -> {None} \cup DOMAIN launches]

\* A campaign is one of the configuration's; it has come to where its names to do
\* begin; it has at most one row for each name that it has done.
Planned(kind, names, skip) ==
    \E i \in DOMAIN config.campaigns :
        config.campaigns[i] = [kind |-> kind, names |-> names, skip |-> skip]

PlanInv ==
    /\ campaign.kind # None => Planned(campaign.kind, campaign.names, campaign.skip)
    /\ campaign.at # "done" => campaign.kind # None
    /\ \A j \in DOMAIN rest : \E i \in DOMAIN config.campaigns : rest[j] = config.campaigns[i]
    /\ Len(campaign.todo) <= Len(campaign.names)
    /\ \A i \in DOMAIN campaign.todo :
          campaign.todo[i] = campaign.names[Len(campaign.names) - Len(campaign.todo) + i]

RecordInv ==
    /\ campaign.rc \in Nat /\ campaign.from <= Len(launches)
    /\ campaign.at = "run" => campaign.from < Len(launches)
    /\ campaign.rows \in Seq(Rows) /\ Len(campaign.rows) <= Len(campaign.names)
    /\ campaign.at # "done" => Len(campaign.rows) + Len(campaign.todo) <= Len(campaign.names)
    /\ campaign.stats \in {None} \cup DOMAIN launches

LEMMA CampaignFields ==
    ASSUME Inv
    PROVE  /\ campaign \in CampaignValues
           /\ campaign.names \in Seq(Names) /\ Len(campaign.names) \in Nat
           /\ campaign.todo \in Seq(Names) /\ Len(campaign.todo) \in Nat
           /\ DOMAIN campaign.todo = 1..Len(campaign.todo)
           /\ DOMAIN campaign.names = 1..Len(campaign.names)
           /\ campaign.from \in Nat
<1>1. campaign \in CampaignValues
    BY DEF Inv, CampaignInv
<1>2. campaign.names \in Seq(Names) /\ campaign.todo \in Seq(Names) /\ campaign.from \in Nat
    BY <1>1 DEF CampaignValues
<1>3. QED
    BY <1>1, <1>2, LenProperties

\* Names to do, without the first one.
LEMMA TodoTail ==
    ASSUME Inv, campaign.todo # <<>>
    PROVE  /\ Tail(campaign.todo) \in Seq(Names)
           /\ Len(Tail(campaign.todo)) = Len(campaign.todo) - 1 /\ Len(campaign.todo) >= 1
           /\ DOMAIN Tail(campaign.todo) = 1..(Len(campaign.todo) - 1)
           /\ \A i \in 1..(Len(campaign.todo) - 1) : Tail(campaign.todo)[i] = campaign.todo[i + 1]
           /\ Head(campaign.todo) = campaign.todo[1]
<1>1. campaign.todo \in Seq(Names)
    BY CampaignFields
<1>2. Tail(campaign.todo) \in Seq(Names) /\ Len(Tail(campaign.todo)) = Len(campaign.todo) - 1
      /\ \A i \in 1..Len(Tail(campaign.todo)) : Tail(campaign.todo)[i] = campaign.todo[i + 1]
      /\ Head(campaign.todo) = campaign.todo[1]
    BY <1>1, HeadTailProperties
<1>3. Len(campaign.todo) \in Nat /\ Len(campaign.todo) # 0
    BY <1>1, EmptySeq, LenProperties
<1>4. DOMAIN Tail(campaign.todo) = 1..Len(Tail(campaign.todo))
    BY <1>2, LenProperties
<1>5. QED
    BY <1>2, <1>3, <1>4

\* What a step does to the campaign.
Keeps == UNCHANGED <<campaign, rest>>
Pops ==
    /\ campaign.at \in {"next", "run"} /\ campaign.todo # <<>> /\ rest' = rest
    /\ \E rows : /\ campaign' = [campaign EXCEPT !.at = "next", !.todo = Tail(@), !.rows = rows]
                 /\ rows # campaign.rows => VariantReturn
Turns ==
    /\ rest' = rest /\ \E at \in {"run", "stopping"} : campaign' = [campaign EXCEPT !.at = at]
    /\ \/ campaign.at = "next" /\ campaign'.at = "run" /\ (RunNext \/ RunVariant)
       \/ campaign.at = "run" /\ campaign'.at = "stopping" /\ CampaignInterrupt
Stops ==
    /\ campaign.at # "done" /\ rest' = rest
    /\ \E rc, rows, stats :
          /\ campaign' = [campaign EXCEPT !.at = "done", !.rc = rc, !.rows = rows, !.stats = stats]
          /\ rows # campaign.rows => VariantReturn
          /\ stats # campaign.stats => NsysReturn

LEMMA PlanKinds ==
    ASSUME Inv, [Next]_vars
    PROVE  Keeps \/ Begin \/ Pops \/ Turns \/ Stops
<1>0. campaign \in CampaignValues
    BY DEF Inv, CampaignInv
<1>1. CASE UNCHANGED vars \/ Creates \/ Guards
    BY <1>1 DEF vars, campaignVars, Creates, Guards, Keeps
<1>2. CASE \E k \in DOMAIN launches :
          \/ (Grow(k) \/ OutOfMemory(k)) /\ UNCHANGED campaignVars
          \/ Probe(k)
          \/ ProbeEnds(k, 0) \/ ProbeEnds(k, 1)
    BY <1>2 DEF campaignVars, Probe, ProbeEnds, Keeps
<1>3. CASE campaign.at = "stopping" /\ GuardDies /\ UNCHANGED campaignVars
    BY <1>3 DEF campaignVars, Keeps
<1>4. CASE Skip
    BY <1>0, <1>4 DEF Skip, Pops, CampaignValues
<1>5. CASE MatrixReturn
  <2>1. campaign.todo # <<>> /\ campaign.at = "run" /\ rest' = rest
    BY <1>5 DEF MatrixReturn, Inv, CampaignInv
  <2>2. CASE guard.rc = 0
    <3>1. campaign' = [campaign EXCEPT !.at = "next", !.todo = Tail(@)]
        BY <1>5, <2>2 DEF MatrixReturn
    <3>2. campaign' = [campaign EXCEPT !.at = "next", !.todo = Tail(@), !.rows = campaign.rows]
        BY <1>0, <3>1 DEF CampaignValues
    <3>3. QED
        BY <2>1, <3>2 DEF Pops
  <2>3. CASE guard.rc # 0
    <3>1. campaign' = [campaign EXCEPT !.at = "done", !.rc = guard.rc]
        BY <1>5, <2>3 DEF MatrixReturn, Done
    <3>2. campaign' = [campaign EXCEPT !.at = "done", !.rc = guard.rc, !.rows = campaign.rows,
                                       !.stats = campaign.stats]
        BY <1>0, <3>1 DEF CampaignValues
    <3>3. QED
        BY <2>1, <3>2 DEF Stops
  <2>4. QED
    BY <2>2, <2>3
<1>6. CASE NsysReturn
  <2> DEFINE report == reports[Head(campaign.todo)]
  <2>1. campaign' = [Done(guard.rc) EXCEPT !.stats = report] /\ rest' = rest
        /\ campaign.at = "run"
    BY <1>6 DEF NsysReturn
  <2> HIDE DEF report
  <2>2. campaign' = [campaign EXCEPT !.at = "done", !.rc = guard.rc, !.rows = campaign.rows,
                                     !.stats = report]
    BY <1>0, <2>1 DEF Done, CampaignValues
  <2>3. /\ campaign.rows # campaign.rows => VariantReturn
        /\ report # campaign.stats => NsysReturn
    BY <1>6
  <2>4. QED
    BY <2>1, <2>2, <2>3 DEF Stops
<1>7. CASE VariantReturn
  <2> DEFINE n == Head(campaign.todo)
             shown == IF launches[Len(launches)].done >= 3 THEN Len(launches) ELSE None
             row == [name |-> n, event |-> logs[n][First(Generated(n))].launch,
                     shown |-> shown, rc |-> launches[Len(launches)].rc]
             rows == [campaign EXCEPT !.rows = Append(@, row)]
  <2>1. /\ campaign.at = "run" /\ rest' = rest
        /\ campaign' = IF Generated(n) = {} \/ shown = None THEN Done(1)
                       ELSE IF row.rc # 0
                       THEN [rows EXCEPT !.at = "done", !.rc = row.rc]
                       ELSE [rows EXCEPT !.at = "next", !.todo = Tail(@)]
    BY <1>7 DEF VariantReturn
  <2> HIDE DEF n, shown, row
  <2>2. campaign.todo # <<>>
    BY <2>1 DEF Inv, CampaignInv
  <2>3. CASE campaign' = Done(1)
    <3>1. campaign' = [campaign EXCEPT !.at = "done", !.rc = 1, !.rows = campaign.rows,
                                       !.stats = campaign.stats]
        BY <1>0, <2>3 DEF CampaignValues, Done
    <3>2. QED
        BY <2>1, <3>1 DEF Stops
  <2>4. CASE campaign' = [rows EXCEPT !.at = "done", !.rc = row.rc]
    <3>1. campaign' = [campaign EXCEPT !.at = "done", !.rc = row.rc,
                           !.rows = Append(campaign.rows, row), !.stats = campaign.stats]
        BY <1>0, <2>4 DEF CampaignValues
    <3>2. QED
        BY <1>7, <2>1, <3>1 DEF Stops
  <2>5. CASE campaign' = [rows EXCEPT !.at = "next", !.todo = Tail(@)]
    <3>1. campaign' = [campaign EXCEPT !.at = "next", !.todo = Tail(@),
                           !.rows = Append(campaign.rows, row)]
        BY <1>0, <2>5 DEF CampaignValues
    <3>2. QED
        BY <1>7, <2>1, <2>2, <3>1 DEF Pops
  <2>6. QED
    BY <2>1, <2>3, <2>4, <2>5
<1>8. ASSUME NEW rc, campaign' = Done(rc), rest' = rest, campaign.at # "done"
      PROVE  Stops
  <2>1. campaign' = [campaign EXCEPT !.at = "done", !.rc = rc, !.rows = campaign.rows,
                                     !.stats = campaign.stats]
    BY <1>0, <1>8 DEF CampaignValues, Done
  <2>2. QED
    BY <1>8, <2>1 DEF Stops
<1>9. CASE VariantKilled \/ Finish \/ CampaignStops
    BY <1>8, <1>9 DEF VariantKilled, Finish, CampaignStops
<1>10. CASE RunNext \/ RunVariant
  <2>1. campaign.at = "next" /\ rest' = rest /\ campaign' = [campaign EXCEPT !.at = "run"]
    BY <1>10 DEF RunNext, RunVariant
  <2>2. campaign'.at = "run"
    BY <1>0, <2>1 DEF CampaignValues
  <2>3. QED
    BY <1>10, <2>1, <2>2 DEF Turns
<1>11. CASE CampaignInterrupt
  <2>1. campaign.at = "run" /\ rest' = rest /\ campaign' = [campaign EXCEPT !.at = "stopping"]
    BY <1>11 DEF CampaignInterrupt
  <2>2. campaign'.at = "stopping"
    BY <1>0, <2>1 DEF CampaignValues
  <2>3. QED
    BY <1>11, <2>1, <2>2 DEF Turns
<1>12. QED
    BY <1>1, <1>2, <1>3, <1>4, <1>5, <1>6, <1>7, <1>9, <1>10, <1>11 DEF Next

\* No launch is forgotten.
LEMMA LaunchesGrow ==
    ASSUME Inv, [Next]_vars
    PROVE  /\ DOMAIN launches \subseteq DOMAIN launches'
           /\ Len(launches) \in Nat /\ Len(launches') \in Nat /\ Len(launches) <= Len(launches')
           /\ DOMAIN launches = 1..Len(launches) /\ DOMAIN launches' = 1..Len(launches')
<1>1. Inv'
    BY NextInv
<1>2. /\ Len(launches) \in Nat /\ DOMAIN launches = 1..Len(launches)
      /\ Len(launches') \in Nat /\ DOMAIN launches' = 1..Len(launches')
  <2>1. launches \in Seq(LaunchTypes) /\ launches' \in Seq(LaunchTypes)
    BY <1>1 DEF Inv, GuardInv
  <2>2. QED
    BY <2>1, LenProperties
<1>3. DOMAIN launches \subseteq DOMAIN launches'
  <2>1. Endings => DOMAIN launches' = DOMAIN launches
    BY DEF Endings, Ends
  <2>2. \A k : Starts(k) \/ Advances(k) => DOMAIN launches' = DOMAIN launches
    BY DEF Starts, Advances
  <2>3. \A n, at : Begins(n, at) => DOMAIN launches' = 1..(Len(launches) + 1)
    BY DEF Begins
  <2>4. CASE Endings
    BY <2>1, <2>4
  <2>5. CASE \E k : Starts(k) \/ Advances(k)
    BY <2>2, <2>5
  <2>6. CASE \E n, at : Begins(n, at)
    <3>1. DOMAIN launches' = 1..(Len(launches) + 1)
        BY <2>3, <2>6
    <3>2. QED
        BY <1>2, <3>1
  <2>7. QED
    BY <2>4, <2>5, <2>6, StepKinds
<1>4. QED
    BY <1>2, <1>3

LEMMA PlanNext ==
    ASSUME Inv, PlanInv, [Next]_vars
    PROVE  PlanInv'
<1>0. config' = config
    BY StepKinds
<1>1. /\ campaign \in CampaignValues /\ Len(campaign.names) \in Nat /\ Len(campaign.todo) \in Nat
      /\ DOMAIN campaign.todo = 1..Len(campaign.todo)
    BY CampaignFields
<1>2. CASE Keeps
    BY <1>0, <1>2 DEF PlanInv, Keeps, Planned
<1>3. ASSUME rest' = rest, campaign'.kind = campaign.kind, campaign'.names = campaign.names,
             campaign'.skip = campaign.skip, campaign'.todo = campaign.todo,
             campaign.at # "done"
      PROVE  PlanInv'
    BY <1>0, <1>3 DEF PlanInv, Planned
<1>4. CASE Turns
  <2>1. PICK at \in {"run", "stopping"} : campaign' = [campaign EXCEPT !.at = at]
    BY <1>4 DEF Turns
  <2>2. campaign.at # "done" /\ rest' = rest
    BY <1>4 DEF Turns
  <2>3. QED
    BY <1>1, <1>3, <2>1, <2>2 DEF CampaignValues
<1>5. CASE Stops
  <2>1. PICK rc, rows, stats :
            campaign' = [campaign EXCEPT !.at = "done", !.rc = rc, !.rows = rows, !.stats = stats]
    BY <1>5 DEF Stops
  <2>2. campaign.at # "done" /\ rest' = rest
    BY <1>5 DEF Stops
  <2>3. QED
    BY <1>1, <1>3, <2>1, <2>2 DEF CampaignValues
<1>6. CASE Pops
  <2>1. campaign.at # "done" /\ rest' = rest /\ campaign.todo # <<>>
    BY <1>6 DEF Pops
  <2>2. /\ campaign'.kind = campaign.kind /\ campaign'.names = campaign.names
        /\ campaign'.skip = campaign.skip /\ campaign'.todo = Tail(campaign.todo)
    BY <1>1, <1>6 DEF Pops, CampaignValues
  <2>3. /\ Len(campaign'.todo) = Len(campaign.todo) - 1 /\ Len(campaign.todo) >= 1
        /\ DOMAIN campaign'.todo = 1..(Len(campaign.todo) - 1)
        /\ \A i \in 1..(Len(campaign.todo) - 1) : campaign'.todo[i] = campaign.todo[i + 1]
    BY <2>1, <2>2, TodoTail
  <2>4. ASSUME NEW i \in DOMAIN campaign'.todo
        PROVE  campaign'.todo[i] = campaign.names[Len(campaign.names) - Len(campaign'.todo) + i]
    <3>1. i + 1 \in DOMAIN campaign.todo /\ campaign'.todo[i] = campaign.todo[i + 1]
        BY <1>1, <2>3
    <3>2. campaign.todo[i + 1] = campaign.names[Len(campaign.names) - Len(campaign.todo) + (i + 1)]
        BY <3>1 DEF PlanInv
    <3>3. Len(campaign.names) - Len(campaign.todo) + (i + 1)
            = Len(campaign.names) - Len(campaign'.todo) + i
      <4> DEFINE a == Len(campaign.names)  b == Len(campaign.todo)  c == Len(campaign'.todo)
      <4>1. c = b - 1
        BY <2>3
      <4>2. i \in Int /\ a \in Int /\ b \in Int
        BY <1>1, <2>3
      <4> HIDE DEF a, b, c
      <4>3. a - b + (i + 1) = a - c + i
        BY <4>1, <4>2
      <4>4. QED
        BY <4>3 DEF a, b, c
    <3>4. QED
        BY <3>1, <3>2, <3>3
  <2>5. Len(campaign'.todo) <= Len(campaign'.names)
    BY <1>1, <2>2, <2>3 DEF PlanInv
  <2>6. QED
    BY <1>0, <2>1, <2>2, <2>4, <2>5 DEF PlanInv, Planned
<1>7. CASE Begin
  <2>1. /\ rest # <<>> /\ rest' = Tail(rest)
        /\ campaign' = [NoCampaign EXCEPT !.kind = Head(rest).kind, !.names = Head(rest).names,
                           !.skip = Head(rest).skip, !.todo = Head(rest).names,
                           !.at = "next", !.from = Len(launches)]
    BY <1>7 DEF Begin
  <2>2. rest \in Seq(Campaigns)
    BY DEF Inv, CampaignInv
  <2>3. Head(rest) \in Campaigns /\ Head(rest) = rest[1] /\ 1 \in DOMAIN rest
    BY <2>1, <2>2
  <2>4. \A i \in DOMAIN rest' : i + 1 \in DOMAIN rest /\ rest'[i] = rest[i + 1]
    <3>1. Len(rest) \in Nat /\ DOMAIN rest = 1..Len(rest) /\ Len(rest) # 0
        BY <2>1, <2>2, LenProperties, EmptySeq
    <3>2. Len(rest') = Len(rest) - 1 /\ rest' \in Seq(Campaigns)
          /\ \A i \in 1..Len(rest') : rest'[i] = rest[i + 1]
        BY <2>1, <2>2, HeadTailProperties
    <3>3. DOMAIN rest' = 1..Len(rest')
        BY <3>2, LenProperties
    <3>4. QED
        BY <3>1, <3>2, <3>3
  <2>5. /\ campaign'.kind = Head(rest).kind /\ campaign'.names = Head(rest).names
        /\ campaign'.skip = Head(rest).skip /\ campaign'.todo = Head(rest).names
    BY <2>1 DEF NoCampaign
  <2>6. Head(rest) = [kind |-> campaign'.kind, names |-> campaign'.names, skip |-> campaign'.skip]
    BY <2>3, <2>5 DEF Campaigns
  <2>7. Planned(campaign.kind, campaign.names, campaign.skip)'
    <3>1. PICK i \in DOMAIN config.campaigns : rest[1] = config.campaigns[i]
        BY <2>3 DEF PlanInv
    <3>2. config'.campaigns[i]
            = [kind |-> campaign'.kind, names |-> campaign'.names, skip |-> campaign'.skip]
        BY <1>0, <2>3, <2>6, <3>1
    <3>3. QED
        BY <1>0, <3>2 DEF Planned
  <2>8. campaign'.kind # None
    BY <2>3, <2>5, KindAssumption DEF Campaigns
  <2>9. \A j \in DOMAIN rest' : \E i \in DOMAIN config'.campaigns : rest'[j] = config'.campaigns[i]
    BY <1>0, <2>4 DEF PlanInv
  <2>10. \A i \in DOMAIN campaign'.todo :
            campaign'.todo[i] = campaign'.names[Len(campaign'.names) - Len(campaign'.todo) + i]
    <3>1. campaign'.names \in Seq(Names) /\ campaign'.todo = campaign'.names
        BY <2>3, <2>5 DEF Campaigns
    <3>2. Len(campaign'.names) \in Nat /\ DOMAIN campaign'.names = 1..Len(campaign'.names)
        BY <3>1, LenProperties
    <3>3. \A i \in 1..Len(campaign'.names) : Len(campaign'.names) - Len(campaign'.names) + i = i
        BY <3>2
    <3>4. QED
        BY <3>1, <3>2, <3>3
  <2>11. Len(campaign'.todo) <= Len(campaign'.names)
    <3>1. campaign'.names \in Seq(Names) /\ campaign'.todo = campaign'.names
        BY <2>3, <2>5 DEF Campaigns
    <3>2. Len(campaign'.names) \in Nat
        BY <3>1, LenProperties
    <3>3. QED
        BY <3>1, <3>2
  <2>12. QED
    BY <2>7, <2>8, <2>9, <2>10, <2>11 DEF PlanInv
<1>8. QED
    BY <1>2, <1>4, <1>5, <1>6, <1>7, PlanKinds

\* An A/B run at work is at its last launch.
LEMMA VariantLaunch ==
    ASSUME Inv, RecordInv, campaign.at = "run"
    PROVE  Len(launches) \in DOMAIN launches /\ launches[Len(launches)] \in LaunchTypes
           /\ Len(launches) > campaign.from
<1>1. campaign.from \in Nat /\ campaign.from < Len(launches)
    BY CampaignFields DEF RecordInv
<1>2. QED
    BY <1>1, Domain

Writes(e, k) == logs' = [logs EXCEPT ![launches[k].name] = Append(@, [event |-> e, launch |-> k])]

\* The events of a probe, by how far it is.
LEMMA ProbeLogs ==
    ASSUME NEW k \in DOMAIN launches, Probe(k), Advances(k)
    PROVE  /\ launches[k].done = 2 => logs' = logs
           /\ launches[k].done = 0 => Writes("load", k)
           /\ launches[k].done = 1 => Writes("cold", k)
           /\ launches[k].done = 3 => Writes("cached", k)
           /\ UNCHANGED <<campaign, rest, outputs, reports>>
<1>1. launches[k].done \in 0..3
    BY DEF Advances
<1>2. /\ ProbeSteps[1] = "load" /\ ProbeSteps[2] = "cold" /\ ProbeSteps[3] = "answer"
      /\ ProbeSteps[4] = "cached"
    BY DEF ProbeSteps
<1>3. /\ logs' = IF ProbeSteps[launches[k].done + 1] \in Events
                 THEN [logs EXCEPT ![launches[k].name] =
                          Append(@, [event |-> ProbeSteps[launches[k].done + 1], launch |-> k])]
                 ELSE logs
      /\ UNCHANGED <<campaign, rest, outputs, reports>>
    BY DEF Probe
<1>4. CASE launches[k].done = 0
  <2>1. ProbeSteps[launches[k].done + 1] = "load"
    BY <1>2, <1>4
  <2>2. "load" \in Events
    BY DEF Events
  <2>3. Writes("load", k)
    BY <1>3, <2>1, <2>2 DEF Writes
  <2>4. QED
    BY <1>3, <1>4, <2>3
<1>5. CASE launches[k].done = 1
  <2>1. ProbeSteps[launches[k].done + 1] = "cold"
    BY <1>2, <1>5
  <2>2. "cold" \in Events
    BY DEF Events
  <2>3. Writes("cold", k)
    BY <1>3, <2>1, <2>2 DEF Writes
  <2>4. QED
    BY <1>3, <1>5, <2>3
<1>6. CASE launches[k].done = 2
  <2>1. ProbeSteps[launches[k].done + 1] = "answer"
    BY <1>2, <1>6
  <2>2. QED
    BY <1>3, <1>6, <2>1 DEF Events
<1>7. CASE launches[k].done = 3
  <2>1. ProbeSteps[launches[k].done + 1] = "cached"
    BY <1>2, <1>7
  <2>2. "cached" \in Events
    BY DEF Events
  <2>3. Writes("cached", k)
    BY <1>3, <2>1, <2>2 DEF Writes
  <2>4. QED
    BY <1>3, <1>7, <2>3
<1>8. QED
    BY <1>1, <1>3, <1>4, <1>5, <1>6, <1>7

\* One more entry in the telemetry of n.
LEMMA OneMore ==
    ASSUME NEW s \in Seq(Entries), NEW x \in Entries
    PROVE  /\ Append(s, x) \in Seq(Entries)
           /\ Len(s) \in Nat /\ DOMAIN s = 1..Len(s) /\ Len(Append(s, x)) = Len(s) + 1
           /\ DOMAIN Append(s, x) = 1..(Len(s) + 1)
           /\ \A i \in 1..Len(s) : Append(s, x)[i] = s[i]
           /\ Append(s, x)[Len(s) + 1] = x
<1>1. /\ Append(s, x) \in Seq(Entries) /\ Len(Append(s, x)) = Len(s) + 1
      /\ \A i \in 1..Len(s) : Append(s, x)[i] = s[i]
      /\ Append(s, x)[Len(s) + 1] = x
    BY AppendProperties
<1>2. DOMAIN Append(s, x) = 1..Len(Append(s, x)) /\ Len(s) \in Nat /\ DOMAIN s = 1..Len(s)
    BY <1>1, LenProperties
<1>3. QED
    BY <1>1, <1>2

Logged(s) == s \in Seq(Entries) /\ \A i \in DOMAIN s : s[i].launch \in DOMAIN launches

LEMMA ProbeLogged ==
    ASSUME Inv, FileInv, NEW k \in DOMAIN launches, Probe(k), Advances(k)
    PROVE  logs' \in [Names -> Seq(Entries)]
           /\ \A n \in Names : \A i \in DOMAIN logs'[n] : logs'[n][i].launch \in DOMAIN launches
<1>1. launches[k].done \in 0..3 /\ k \in Nat /\ launches[k].name \in Names
    BY Domain DEF Advances, LaunchTypes
<1>2. logs \in [Names -> Seq(Entries)]
      /\ \A n \in Names : \A i \in DOMAIN logs[n] : logs[n][i].launch \in DOMAIN launches
    BY DEF FileInv
<1>3. ASSUME NEW e \in Events, Writes(e, k)
      PROVE  logs' \in [Names -> Seq(Entries)]
             /\ \A n \in Names : \A i \in DOMAIN logs'[n] : logs'[n][i].launch \in DOMAIN launches
  <2> DEFINE x == [event |-> e, launch |-> k]
             m == launches[k].name
  <2>1. x \in Entries /\ x.launch = k
    BY <1>1 DEF Entries
  <2>2. logs' = [logs EXCEPT ![m] = Append(logs[m], x)] /\ m \in Names
    BY <1>1, <1>3 DEF Writes
  <2> HIDE DEF x, m
  <2>3. logs[m] \in Seq(Entries)
    BY <1>2, <2>2
  <2>4. /\ Append(logs[m], x) \in Seq(Entries)
        /\ \A i \in DOMAIN Append(logs[m], x) : Append(logs[m], x)[i].launch \in DOMAIN launches
    <3>1. /\ Append(logs[m], x) \in Seq(Entries)
          /\ Len(logs[m]) \in Nat /\ DOMAIN logs[m] = 1..Len(logs[m])
          /\ DOMAIN Append(logs[m], x) = 1..(Len(logs[m]) + 1)
          /\ \A i \in 1..Len(logs[m]) : Append(logs[m], x)[i] = logs[m][i]
          /\ Append(logs[m], x)[Len(logs[m]) + 1] = x
        BY <2>1, <2>3, OneMore
    <3>2. \A i \in 1..(Len(logs[m]) + 1) : i \in 1..Len(logs[m]) \/ i = Len(logs[m]) + 1
        BY <3>1
    <3>3. QED
        BY <1>2, <2>1, <2>2, <3>1, <3>2
  <2>5. QED
    BY <1>2, <2>2, <2>4
<1>4. "load" \in Events /\ "cold" \in Events /\ "cached" \in Events
    BY DEF Events
<1>5. CASE launches[k].done = 0
    BY <1>3, <1>4, <1>5, ProbeLogs
<1>6. CASE launches[k].done = 1
    BY <1>3, <1>4, <1>6, ProbeLogs
<1>7. CASE launches[k].done = 2
    BY <1>2, <1>7, ProbeLogs
<1>8. CASE launches[k].done = 3
    BY <1>3, <1>4, <1>8, ProbeLogs
<1>9. QED
    BY <1>1, <1>5, <1>6, <1>7, <1>8

\* What a step writes.
LEMMA ReportsWritten ==
    ASSUME Inv, [Next]_vars
    PROVE  UNCHANGED reports \/ \E k \in DOMAIN launches : Report(k) /\ UNCHANGED campaign
    BY DEF Next, vars, campaignVars, Creates, Guards, Probe, ProbeEnds, Begin, Skip, RunNext,
       RunVariant, MatrixReturn, NsysReturn, VariantReturn, VariantKilled, Finish,
       CampaignInterrupt, CampaignStops

LEMMA OutputsWritten ==
    ASSUME Inv, [Next]_vars
    PROVE  UNCHANGED outputs \/ RunVariant \/ VariantReturn
    BY DEF Next, vars, campaignVars, Creates, Guards, Probe, ProbeEnds, Begin, Skip, RunNext,
       MatrixReturn, NsysReturn, VariantKilled, Finish, CampaignInterrupt, CampaignStops

LEMMA FileNext ==
    ASSUME Inv, FileInv, RecordInv, [Next]_vars
    PROVE  FileInv'
<1>1. DOMAIN launches \subseteq DOMAIN launches'
    BY LaunchesGrow
<1>2. logs \in [Names -> Seq(Entries)]
      /\ \A n \in Names : \A i \in DOMAIN logs[n] : logs[n][i].launch \in DOMAIN launches
    BY DEF FileInv
<1>3. logs' \in [Names -> Seq(Entries)]
      /\ \A n \in Names : \A i \in DOMAIN logs'[n] : logs'[n][i].launch \in DOMAIN launches'
  <2>1. CASE UNCHANGED logs
    BY <1>1, <1>2, <2>1
  <2>2. CASE \E k \in DOMAIN launches : Probe(k) /\ Advances(k)
    BY <1>1, <2>2, ProbeLogged
  <2>3. CASE RunVariant
    <3>1. logs' = [logs EXCEPT ![Head(campaign.todo)] = <<>>]
        BY <2>3 DEF RunVariant
    <3>2. <<>> \in Seq(Entries) /\ DOMAIN <<>> = {}
        OBVIOUS
    <3>3. QED
        BY <1>1, <1>2, <3>1, <3>2
  <2>4. QED
    BY <2>1, <2>2, <2>3, StepKinds
<1>4. outputs' \in [Names -> {None} \cup DOMAIN launches']
  <2>1. outputs \in [Names -> {None} \cup DOMAIN launches]
    BY DEF FileInv
  <2>2. CASE UNCHANGED outputs
    BY <1>1, <2>1, <2>2
  <2>3. CASE RunVariant
    <3>1. outputs' = [outputs EXCEPT ![Head(campaign.todo)] = None]
        BY <2>3 DEF RunVariant
    <3>2. QED
        BY <1>1, <2>1, <3>1
  <2>4. CASE VariantReturn
    <3>1. PICK shown \in {None, Len(launches)} :
              outputs' = [outputs EXCEPT ![Head(campaign.todo)] = shown]
        BY <2>4 DEF VariantReturn
    <3>2. Len(launches) \in DOMAIN launches
        BY <2>4, VariantLaunch DEF VariantReturn
    <3>3. QED
        BY <1>1, <2>1, <3>1, <3>2
  <2>5. QED
    BY <2>2, <2>3, <2>4, OutputsWritten
<1>5. reports' \in [Names -> {None} \cup DOMAIN launches']
  <2>1. reports \in [Names -> {None} \cup DOMAIN launches]
    BY DEF FileInv
  <2>2. CASE UNCHANGED reports
    BY <1>1, <2>1, <2>2
  <2>3. ASSUME NEW k \in DOMAIN launches, Report(k)
        PROVE  reports' \in [Names -> {None} \cup DOMAIN launches']
    BY <1>1, <2>1, <2>3 DEF Report
  <2>4. QED
    BY <2>2, <2>3, ReportsWritten
<1>6. QED
    BY <1>3, <1>4, <1>5 DEF FileInv

\* The campaign ends.
LEMMA StopRecord ==
    ASSUME Inv, RecordInv, [Next]_vars, NEW rc \in Nat, NEW rows \in Seq(Rows),
           Len(rows) <= Len(campaign.names), NEW stats \in {None} \cup DOMAIN launches,
           campaign' = [campaign EXCEPT !.at = "done", !.rc = rc, !.rows = rows, !.stats = stats]
    PROVE  RecordInv'
<1>1. /\ campaign'.at = "done" /\ campaign'.rc = rc /\ campaign'.rows = rows
      /\ campaign'.stats = stats /\ campaign'.names = campaign.names
      /\ campaign'.from = campaign.from
    BY CampaignFields DEF CampaignValues
<1>2. campaign.from <= Len(launches') /\ stats \in {None} \cup DOMAIN launches'
    BY LaunchesGrow, CampaignFields DEF RecordInv
<1>3. QED
    BY <1>1, <1>2 DEF RecordInv

\* It goes on with the next name.
LEMMA PopRecord ==
    ASSUME Inv, RecordInv, [Next]_vars, campaign.todo # <<>>, NEW rows \in Seq(Rows),
           Len(rows) + Len(campaign.todo) <= Len(campaign.names) + 1,
           campaign' = [campaign EXCEPT !.at = "next", !.todo = Tail(@), !.rows = rows]
    PROVE  RecordInv'
<1>1. /\ campaign'.at = "next" /\ campaign'.rc = campaign.rc /\ campaign'.rows = rows
      /\ campaign'.stats = campaign.stats /\ campaign'.names = campaign.names
      /\ campaign'.from = campaign.from /\ campaign'.todo = Tail(campaign.todo)
    BY CampaignFields DEF CampaignValues
<1>2. campaign.from <= Len(launches') /\ campaign.stats \in {None} \cup DOMAIN launches'
    BY LaunchesGrow, CampaignFields DEF RecordInv
<1>3. Len(rows) + Len(Tail(campaign.todo)) <= Len(campaign.names)
      /\ Len(rows) <= Len(campaign.names)
  <2> DEFINE a == Len(rows)  b == Len(campaign.todo)  c == Len(campaign.names)
             d == Len(Tail(campaign.todo))
  <2>1. a \in Nat /\ b \in Nat /\ c \in Nat /\ d = b - 1 /\ b >= 1 /\ a + b <= c + 1
    BY TodoTail, CampaignFields, LenProperties
  <2> HIDE DEF a, b, c, d
  <2>2. a + d <= c /\ a <= c
    BY <2>1
  <2>3. QED
    BY <2>2 DEF a, b, c, d
<1>4. campaign'.rc \in Nat /\ campaign'.rows \in Seq(Rows)
    BY <1>1 DEF RecordInv
<1>5. QED
    BY <1>1, <1>2, <1>3, <1>4 DEF RecordInv

LEMMA RowsFit ==
    ASSUME Inv, RecordInv, campaign.at # "done", campaign.todo # <<>>
    PROVE  /\ campaign.rows \in Seq(Rows) /\ Len(campaign.rows) \in Nat
           /\ Len(campaign.rows) + Len(campaign.todo) <= Len(campaign.names)
           /\ Len(campaign.rows) + 1 <= Len(campaign.names)
<1> DEFINE a == Len(campaign.rows)  b == Len(campaign.todo)  c == Len(campaign.names)
<1>1. campaign.rows \in Seq(Rows)
    BY DEF RecordInv
<1>2. a \in Nat /\ b \in Nat /\ c \in Nat /\ b >= 1 /\ a + b <= c
    BY <1>1, TodoTail, CampaignFields, LenProperties DEF RecordInv
<1> HIDE DEF a, b, c
<1>3. a + 1 <= c
    BY <1>2
<1>4. QED
    BY <1>1, <1>2, <1>3 DEF a, b, c

\* What VariantReturn makes of the variant.
LEMMA RowMade ==
    ASSUME Inv, FileInv, RecordInv, VariantReturn
    PROVE  \/ campaign' = [campaign EXCEPT !.at = "done", !.rc = 1, !.rows = campaign.rows,
                                           !.stats = campaign.stats]
           \/ \E row \in Rows :
                 /\ row.event = logs[Head(campaign.todo)][First(Generated(Head(campaign.todo)))].launch
                 /\ row.shown = Len(launches) /\ Generated(Head(campaign.todo)) # {}
                 /\ \/ campaign' = [campaign EXCEPT !.at = "done", !.rc = row.rc,
                             !.rows = Append(campaign.rows, row), !.stats = campaign.stats]
                    \/ campaign' = [campaign EXCEPT !.at = "next", !.todo = Tail(@),
                             !.rows = Append(campaign.rows, row)]
<1> DEFINE n == Head(campaign.todo)
           shown == IF launches[Len(launches)].done >= 3 THEN Len(launches) ELSE None
           event == logs[n][First(Generated(n))].launch
           row == [name |-> n, event |-> event, shown |-> shown, rc |-> launches[Len(launches)].rc]
           rows == [campaign EXCEPT !.rows = Append(@, row)]
<1>0. campaign \in CampaignValues
    BY CampaignFields
<1>1. /\ campaign.at = "run" /\ launches[Len(launches)].at = "ended"
      /\ campaign' = IF Generated(n) = {} \/ shown = None THEN Done(1)
                     ELSE IF row.rc # 0
                     THEN [rows EXCEPT !.at = "done", !.rc = row.rc]
                     ELSE [rows EXCEPT !.at = "next", !.todo = Tail(@)]
    BY DEF VariantReturn
<1>2. n \in Names /\ campaign.todo # <<>>
  <2>1. campaign.todo # <<>>
    BY <1>1 DEF Inv, CampaignInv
  <2>2. QED
    BY <2>1, HeadIsName
<1>3. Len(launches) \in DOMAIN launches /\ launches[Len(launches)] \in LaunchTypes
    BY <1>1, VariantLaunch
<1>4. launches[Len(launches)].rc \in Nat
    BY <1>1, <1>3 DEF Inv, GuardInv, Shown, LaunchTypes
<1>5. CASE Generated(n) = {} \/ shown = None
  <2>1. campaign' = Done(1)
    BY <1>1, <1>5
  <2>2. QED
    BY <1>0, <2>1 DEF CampaignValues, Done
<1>6. CASE Generated(n) # {} /\ shown # None
  <2>1. shown = Len(launches) /\ Len(launches) \in Nat
    BY <1>6, Domain
  <2>2. event \in Nat
    <3>1. logs[n] \in Seq(Entries)
        BY <1>2 DEF FileInv
    <3>2. Generated(n) \in SUBSET Nat
        BY <3>1, LenProperties DEF Generated
    <3>3. First(Generated(n)) \in Generated(n)
        BY <1>6, <3>2, FirstIsLeast
    <3>4. First(Generated(n)) \in DOMAIN logs[n]
        BY <3>3 DEF Generated
    <3>5. QED
        BY <1>2, <3>4, Domain DEF FileInv
  <2>3. row \in Rows /\ row.event = event /\ row.shown = Len(launches)
    BY <1>2, <1>4, <2>1, <2>2 DEF Rows
  <2>4. \/ campaign' = [rows EXCEPT !.at = "done", !.rc = row.rc]
        \/ campaign' = [rows EXCEPT !.at = "next", !.todo = Tail(@)]
    BY <1>1, <1>6
  <2> HIDE DEF row
  <2>5. \/ campaign' = [campaign EXCEPT !.at = "done", !.rc = row.rc,
                             !.rows = Append(campaign.rows, row), !.stats = campaign.stats]
        \/ campaign' = [campaign EXCEPT !.at = "next", !.todo = Tail(@),
                             !.rows = Append(campaign.rows, row)]
    BY <1>0, <2>4 DEF CampaignValues
  <2>6. QED
    BY <1>6, <2>3, <2>5
<1>7. QED
    BY <1>5, <1>6

\* The steps after which a campaign is done.
LEMMA StopKinds ==
    ASSUME Inv, [Next]_vars, campaign.at # "done", campaign'.at = "done"
    PROVE  MatrixReturn \/ NsysReturn \/ VariantReturn \/ VariantKilled \/ Finish \/ CampaignStops
<1>1. campaign \in CampaignValues
    BY CampaignFields
<1>2. CASE UNCHANGED campaign
    BY <1>2
<1>3. CASE Begin \/ Skip \/ RunNext \/ RunVariant \/ CampaignInterrupt
    BY <1>1, <1>3 DEF Begin, NoCampaign, Skip, RunNext, RunVariant, CampaignInterrupt,
       CampaignValues
<1>4. UNCHANGED campaign \/ (Begin \/ Skip \/ RunNext \/ RunVariant \/ CampaignInterrupt)
      \/ MatrixReturn \/ NsysReturn \/ VariantReturn \/ VariantKilled \/ Finish \/ CampaignStops
    BY DEF Next, vars, campaignVars, Creates, Guards, Probe, ProbeEnds
<1>5. QED
    BY <1>2, <1>3, <1>4

LEMMA RecordNext ==
    ASSUME Inv, FileInv, RecordInv, [Next]_vars
    PROVE  RecordInv'
<1>0. /\ campaign \in CampaignValues /\ Len(campaign.names) \in Nat /\ Len(campaign.todo) \in Nat
      /\ campaign.from \in Nat
    BY CampaignFields
<1>1. /\ Len(launches) \in Nat /\ Len(launches') \in Nat /\ Len(launches) <= Len(launches')
      /\ DOMAIN launches \subseteq DOMAIN launches'
    BY LaunchesGrow
<1>r. /\ campaign.rows \in Seq(Rows) /\ Len(campaign.rows) <= Len(campaign.names)
      /\ campaign.stats \in {None} \cup DOMAIN launches
    BY DEF RecordInv
<1>2. CASE Keeps
  <2>1. campaign' = campaign
    BY <1>2 DEF Keeps
  <2>2. campaign.from <= Len(launches') /\ campaign.stats \in {None} \cup DOMAIN launches'
    BY <1>0, <1>1 DEF RecordInv
  <2>3. campaign.at = "run" => campaign.from < Len(launches')
    BY <1>0, <1>1 DEF RecordInv
  <2>4. QED
    BY <2>1, <2>2, <2>3 DEF RecordInv
<1>3. CASE Begin
  <2>1. /\ rest # <<>> /\ UNCHANGED launches
        /\ campaign' = [NoCampaign EXCEPT !.kind = Head(rest).kind, !.names = Head(rest).names,
                           !.skip = Head(rest).skip, !.todo = Head(rest).names,
                           !.at = "next", !.from = Len(launches)]
    BY <1>3 DEF Begin, guardVars
  <2>2. rest \in Seq(Campaigns)
    BY DEF Inv, CampaignInv
  <2>3. Head(rest) \in Campaigns
    BY <2>1, <2>2
  <2>4. Len(Head(rest).names) \in Nat
    BY <2>3, LenProperties DEF Campaigns
  <2>5. /\ campaign'.at = "next" /\ campaign'.rc = 0 /\ campaign'.rows = <<>>
        /\ campaign'.stats = None /\ campaign'.names = Head(rest).names
        /\ campaign'.from = Len(launches) /\ campaign'.todo = Head(rest).names
    BY <2>1 DEF NoCampaign
  <2>6. <<>> \in Seq(Rows) /\ Len(<<>>) = 0
    OBVIOUS
  <2>7. /\ Len(campaign'.rows) <= Len(campaign'.names)
        /\ Len(campaign'.rows) + Len(campaign'.todo) <= Len(campaign'.names)
    <3> DEFINE a == Len(campaign'.rows)  b == Len(campaign'.todo)  c == Len(campaign'.names)
    <3>1. a = 0 /\ b = c /\ c \in Nat
        BY <2>4, <2>5, <2>6
    <3> HIDE DEF a, b, c
    <3>2. a <= c /\ a + b <= c
        BY <3>1
    <3>3. QED
        BY <3>2 DEF a, b, c
  <2>8. campaign'.from <= Len(launches')
    BY <1>1, <2>1, <2>5
  <2>9. campaign'.rc \in Nat /\ campaign'.rows \in Seq(Rows)
    BY <2>5, <2>6
  <2>10. QED
    BY <2>5, <2>7, <2>8, <2>9 DEF RecordInv
<1>4. CASE Turns
  <2>1. PICK at \in {"run", "stopping"} : campaign' = [campaign EXCEPT !.at = at]
    BY <1>4 DEF Turns
  <2>2. /\ campaign'.at = at /\ campaign'.rc = campaign.rc /\ campaign'.rows = campaign.rows
        /\ campaign'.stats = campaign.stats /\ campaign'.names = campaign.names
        /\ campaign'.from = campaign.from /\ campaign'.todo = campaign.todo
    BY <1>0, <2>1 DEF CampaignValues
  <2>3. campaign.at # "done"
    BY <1>4 DEF Turns
  <2>4. campaign.from <= Len(launches') /\ campaign.stats \in {None} \cup DOMAIN launches'
    BY <1>0, <1>1 DEF RecordInv
  <2>5. at = "run" => campaign.from < Len(launches')
    <3>1. at = "run" => RunNext \/ RunVariant
        BY <1>4, <2>2 DEF Turns
    <3>2. RunNext \/ RunVariant => Len(launches') = Len(launches) + 1
        BY RunNextBegins, RunVariantBegins DEF Begins
    <3>3. campaign.from <= Len(launches)
        BY DEF RecordInv
    <3>4. QED
        BY <1>0, <1>1, <3>1, <3>2, <3>3
  <2>6. QED
    BY <2>2, <2>3, <2>4, <2>5 DEF RecordInv
<1>5. CASE VariantReturn
  <2>1. campaign.at = "run" /\ campaign.todo # <<>>
    BY <1>5 DEF VariantReturn, Inv, CampaignInv
  <2>2. CASE campaign' = [campaign EXCEPT !.at = "done", !.rc = 1, !.rows = campaign.rows,
                                           !.stats = campaign.stats]
    BY <1>r, <2>2, StopRecord
  <2>3. ASSUME NEW row \in Rows,
               \/ campaign' = [campaign EXCEPT !.at = "done", !.rc = row.rc,
                             !.rows = Append(campaign.rows, row), !.stats = campaign.stats]
               \/ campaign' = [campaign EXCEPT !.at = "next", !.todo = Tail(@),
                             !.rows = Append(campaign.rows, row)]
        PROVE  RecordInv'
    <3> DEFINE new == Append(campaign.rows, row)
    <3>1. /\ Len(campaign.rows) \in Nat
          /\ Len(campaign.rows) + Len(campaign.todo) <= Len(campaign.names)
          /\ Len(campaign.rows) + 1 <= Len(campaign.names)
        BY <2>1, RowsFit
    <3>2. new \in Seq(Rows) /\ Len(new) = Len(campaign.rows) + 1 /\ row.rc \in Nat
        BY <1>r, <2>3, AppendProperties DEF Rows
    <3> HIDE DEF new
    <3>3. Len(new) <= Len(campaign.names) /\ Len(new) + Len(campaign.todo) <= Len(campaign.names) + 1
      <4> DEFINE a == Len(campaign.rows)  b == Len(campaign.todo)  c == Len(campaign.names)
                 d == Len(new)
      <4>1. a \in Nat /\ b \in Nat /\ c \in Nat /\ a + b <= c /\ a + 1 <= c /\ d = a + 1
        BY <1>0, <3>1, <3>2
      <4> HIDE DEF a, b, c, d
      <4>2. d <= c /\ d + b <= c + 1
        BY <4>1
      <4>3. QED
        BY <4>2 DEF a, b, c, d
    <3>4. CASE campaign' = [campaign EXCEPT !.at = "done", !.rc = row.rc, !.rows = new,
                                            !.stats = campaign.stats]
        BY <1>r, <3>2, <3>3, <3>4, StopRecord
    <3>5. CASE campaign' = [campaign EXCEPT !.at = "next", !.todo = Tail(@), !.rows = new]
        BY <2>1, <3>2, <3>3, <3>5, PopRecord
    <3>6. QED
        BY <2>3, <3>4, <3>5 DEF new
  <2>4. QED
    BY <1>5, <2>2, <2>3, RowMade
<1>6. CASE Pops /\ ~VariantReturn
  <2>1. campaign.at # "done" /\ campaign.todo # <<>>
        /\ campaign' = [campaign EXCEPT !.at = "next", !.todo = Tail(@), !.rows = campaign.rows]
    BY <1>6 DEF Pops
  <2>2. Len(campaign.rows) + Len(campaign.todo) <= Len(campaign.names) + 1
    <3> DEFINE a == Len(campaign.rows)  b == Len(campaign.todo)  c == Len(campaign.names)
    <3>1. a \in Nat /\ b \in Nat /\ c \in Nat /\ a + b <= c
        BY <1>0, <2>1, RowsFit
    <3> HIDE DEF a, b, c
    <3>2. a + b <= c + 1
        BY <3>1
    <3>3. QED
        BY <3>2 DEF a, b, c
  <2>3. QED
    BY <1>r, <2>1, <2>2, PopRecord
<1>7. CASE Stops /\ ~VariantReturn
  <2>1. PICK rc, stats : /\ campaign' = [campaign EXCEPT !.at = "done", !.rc = rc,
                                            !.rows = campaign.rows, !.stats = stats]
                         /\ stats # campaign.stats => NsysReturn
    BY <1>7 DEF Stops
  <2>2. campaign'.rc = rc /\ campaign'.stats = stats /\ campaign'.at = "done"
    BY <1>0, <2>1 DEF CampaignValues
  <2>3. stats \in {None} \cup DOMAIN launches
    <3>1. CASE stats = campaign.stats
        BY <1>r, <3>1
    <3>2. CASE NsysReturn
      <4>1. campaign' = [Done(guard.rc) EXCEPT !.stats = reports[Head(campaign.todo)]]
            /\ campaign.at = "run"
        BY <3>2 DEF NsysReturn
      <4>2. stats = reports[Head(campaign.todo)]
        BY <1>0, <2>2, <4>1 DEF Done, CampaignValues
      <4>3. Head(campaign.todo) \in Names
        BY <4>1, HeadIsName DEF Inv, CampaignInv
      <4>4. QED
        BY <4>2, <4>3 DEF FileInv
    <3>3. QED
        BY <2>1, <3>1, <3>2
  <2>4. rc \in Nat
    <3>1. guard.rc \in Nat /\ campaign.at # "done"
        BY <1>7 DEF Inv, GuardInv, GuardValues, Stops
    <3>2. CASE MatrixReturn
      <4>1. campaign' = Done(guard.rc) \/ campaign'.at = "next"
        BY <1>0, <3>2 DEF MatrixReturn, CampaignValues
      <4>2. QED
        BY <1>0, <2>2, <3>1, <4>1 DEF Done, CampaignValues
    <3>3. CASE NsysReturn
        BY <1>0, <2>2, <3>1, <3>3 DEF NsysReturn, Done, CampaignValues
    <3>4. CASE VariantKilled \/ Finish \/ CampaignStops
      <4>1. campaign' = Done(137) \/ campaign' = Done(0) \/ campaign' = Done(130)
        BY <3>4 DEF VariantKilled, Finish, CampaignStops
      <4>2. rc \in {137, 0, 130}
        BY <1>0, <2>2, <4>1 DEF Done, CampaignValues
      <4>3. QED
        BY <4>2
    <3>5. QED
        BY <1>7, <2>2, <3>1, <3>2, <3>3, <3>4, StopKinds
  <2>5. QED
    BY <1>r, <2>1, <2>3, <2>4, StopRecord
<1>8. QED
    BY <1>2, <1>3, <1>4, <1>5, <1>6, <1>7, PlanKinds

\* Everything that the campaigns and the files hold.
BookInv == Inv /\ FileInv /\ PlanInv /\ RecordInv

LEMMA BookInit == Init => BookInv
<1> SUFFICES ASSUME Init PROVE BookInv
    OBVIOUS
<1>1. Inv
    BY InitInv
<1>2. launches = <<>> /\ DOMAIN launches = {} /\ Len(launches) = 0
    BY DEF Init, GuardInit
<1>3. FileInv
  <2>1. <<>> \in Seq(Entries) /\ DOMAIN <<>> = {}
    OBVIOUS
  <2>2. QED
    BY <2>1 DEF Init, FileInv
<1>4. /\ campaign.kind = None /\ campaign.at = "done" /\ campaign.names = <<>>
      /\ campaign.todo = <<>> /\ campaign.from = 0 /\ campaign.rc = 0 /\ campaign.rows = <<>>
      /\ campaign.stats = None /\ rest = config.campaigns
    BY DEF Init, NoCampaign
<1>5. PlanInv
    BY <1>4 DEF PlanInv
<1>6. RecordInv
  <2>1. <<>> \in Seq(Rows) /\ Len(<<>>) = 0 /\ 0 \in Nat
    OBVIOUS
  <2>2. QED
    BY <1>2, <1>4, <2>1 DEF RecordInv
<1>7. QED
    BY <1>1, <1>3, <1>5, <1>6 DEF BookInv

LEMMA BookNext == BookInv /\ [Next]_vars => BookInv'
    BY NextInv, FileNext, PlanNext, RecordNext DEF BookInv

\* In every state the campaigns and their files are of a piece: a campaign is one of
\* those planned and is where its names to do begin, and telemetry, outputs and reports
\* are of launches that there were (the loops of run_runtime_matrix.py,
\* run_nsys_profile.py and run_materializer_ab.py).
THEOREM CampaignBooks == Spec => []BookInv
    BY BookInit, BookNext, PTL DEF Spec

LEMMA BookTypes ==
    ASSUME BookInv
    PROVE  TypeOK
<1>1. GuardTypes
  <2>1. \A k \in DOMAIN launches :
            /\ launches[k].name \in Names /\ launches[k].done \in 0..4
            /\ launches[k].at \in {"starting", "running", "ended"}
            /\ launches[k].rc = None <=> launches[k].at # "ended"
    BY Domain DEF BookInv, Inv, GuardInv, LaunchTypes, Shown
  <2>2. /\ guard.at \in {"off", "poll", "kill", "wait", "recover"}
        /\ guard.launch \in 0..Len(launches) /\ (guard.launch = 0 => guard = NoGuard)
        /\ guard.reason \in {None, "memory", "timeout", "interrupt"} /\ guard.rc \in Nat
        /\ guard.at = "recover" => guard.step \in 1..5
    BY Domain DEF BookInv, Inv, GuardInv, GuardValues, Stages
  <2>3. /\ driver.modules \subseteq Whole.modules /\ driver.daemon \in BOOLEAN
        /\ memory.large \subseteq Containers /\ memory.retained \in BOOLEAN
        /\ faults \in 0..config.faults
    BY DEF BookInv, Inv, GuardInv
  <2>4. QED
    BY <2>1, <2>2, <2>3 DEF GuardTypes
<1>2. /\ campaign.at \in {"done", "next", "run", "stopping"} /\ campaign.rc \in Nat
      /\ campaign.from \in 0..Len(launches)
      /\ Len(campaign.todo) <= Len(campaign.names) /\ Len(campaign.rows) <= Len(campaign.names)
      /\ campaign.stats \in {None} \cup DOMAIN launches
    BY Domain, CampaignFields DEF BookInv, CampaignValues, PlanInv, RecordInv
<1>3. ASSUME NEW n \in Names
      PROVE  /\ \A i \in DOMAIN logs[n] : logs[n][i].event \in Events
                                       /\ logs[n][i].launch \in DOMAIN launches
             /\ outputs[n] \in {None} \cup DOMAIN launches
             /\ reports[n] \in {None} \cup DOMAIN launches
  <2>1. logs[n] \in Seq(Entries)
    BY DEF BookInv, FileInv
  <2>2. \A i \in DOMAIN logs[n] : logs[n][i] \in Entries
    BY <2>1, LenProperties
  <2>3. QED
    BY <2>2 DEF BookInv, FileInv, Entries
<1>4. QED
    BY <1>1, <1>2, <1>3 DEF TypeOK

\* The type invariant: guards, campaigns and files have the values that the programs
\* give them, and an A/B run has no more rows than names.
THEOREM CampaignTypes == Spec => []TypeOK
    BY CampaignBooks, BookTypes, PTL

-----------------------------------------------------------------------------
(* What becomes of a launch and of its guard *)

LEMMA LaunchKept ==
    ASSUME Inv, [Next]_vars, NEW k \in DOMAIN launches
    PROVE  /\ launches'[k].name = launches[k].name
           /\ launches[k].at = "ended" => launches'[k] = launches[k]
           /\ launches'[k].at # "ended" => launches[k].at # "ended"
           /\ launches[k].at # "ended" /\ launches'[k].at = "ended" /\ launches'[k].rc = 0 =>
                 Running(k) /\ launches[k].done = 4 /\ launches'[k].done = 4 /\ Report(k)
                 /\ \A j \in DOMAIN launches : j # k => launches'[j] = launches[j]
<1>0. launches[k] \in LaunchTypes
    BY Domain
<1>1. CASE Endings
  <2>1. PICK K \in SUBSET DOMAIN launches, rc \in Nat :
            /\ Ends(K, rc) /\ \A j \in K : launches[j].at # "ended"
            /\ rc = 0 => \E j \in K : K = {j} /\ Running(j) /\ launches[j].done = 4 /\ Report(j)
    BY <1>1 DEF Endings
  <2>2. CASE k \in K
    <3>1. launches'[k] = [launches[k] EXCEPT !.at = "ended", !.rc = rc]
        BY <2>1, <2>2 DEF Ends
    <3>2. /\ launches'[k].name = launches[k].name /\ launches'[k].rc = rc
          /\ launches'[k].done = launches[k].done
        BY <1>0, <3>1 DEF LaunchTypes
    <3>3. rc = 0 => K = {k} /\ Running(k) /\ launches[k].done = 4 /\ Report(k)
        BY <2>1, <2>2
    <3>4. K = {k} => \A j \in DOMAIN launches : j # k => launches'[j] = launches[j]
        BY <2>1 DEF Ends
    <3>5. QED
        BY <2>1, <2>2, <3>2, <3>3, <3>4
  <2>3. CASE k \notin K
    BY <2>1, <2>3 DEF Ends
  <2>4. QED
    BY <2>2, <2>3
<1>2. ASSUME NEW j \in DOMAIN launches, Starts(j)
      PROVE  /\ launches'[k].name = launches[k].name
             /\ k = j => launches[k].at = "starting" /\ launches'[k].at = "running"
             /\ k # j => launches'[k] = launches[k]
    BY <1>0, <1>2 DEF Starts, LaunchTypes
<1>3. ASSUME NEW j \in DOMAIN launches, Advances(j)
      PROVE  /\ launches'[k].name = launches[k].name
             /\ k = j => launches[k].at = "running" /\ launches'[k].at = "running"
             /\ k # j => launches'[k] = launches[k]
    BY <1>0, <1>3 DEF Advances, LaunchTypes, Running
<1>4. CASE \E n, at : Begins(n, at)
    BY <1>4 DEF Begins
<1>5. CASE \E j \in DOMAIN launches : Starts(j)
    BY <1>2, <1>5
<1>6. CASE \E j \in DOMAIN launches : Advances(j)
    BY <1>3, <1>6
<1>7. QED
    BY <1>1, <1>4, <1>5, <1>6, StepKinds

\* A new launch is the last one.
LEMMA NewLaunch ==
    ASSUME Inv, [Next]_vars, NEW k \in DOMAIN launches', k \notin DOMAIN launches
    PROVE  /\ k = Len(launches) + 1 /\ Len(launches') = Len(launches) + 1
           /\ \A j \in DOMAIN launches : launches'[j] = launches[j]
           /\ launches'[k].name = Head(campaign.todo) /\ launches'[k].done = 0
           /\ \/ RunNext /\ launches'[k].at = "starting"
              \/ RunVariant /\ launches'[k].at = "running"
<1>1. Endings => DOMAIN launches' = DOMAIN launches
    BY DEF Endings, Ends
<1>2. \A j : Starts(j) \/ Advances(j) => DOMAIN launches' = DOMAIN launches
    BY DEF Starts, Advances
<1>3. \/ RunNext /\ Begins(Head(campaign.todo), "starting")
      \/ RunVariant /\ Begins(Head(campaign.todo), "running")
    BY <1>1, <1>2, StepKinds
<1>4. ASSUME NEW at, Begins(Head(campaign.todo), at)
      PROVE  /\ k = Len(launches) + 1 /\ Len(launches') = Len(launches) + 1
             /\ \A j \in DOMAIN launches : launches'[j] = launches[j]
             /\ launches'[k].name = Head(campaign.todo) /\ launches'[k].done = 0
             /\ launches'[k].at = at
  <2>1. k \in 1..(Len(launches) + 1) /\ k \notin 1..Len(launches) /\ Len(launches) \in Nat
    BY <1>4 DEF Begins
  <2>2. k = Len(launches) + 1
    BY <2>1
  <2>3. QED
    BY <1>4, <2>2 DEF Begins
<1>5. QED
    BY <1>3, <1>4

\* What a step does to the guard.
Waits == Wait /\ UNCHANGED campaignVars

LEMMA GuardKinds ==
    ASSUME Inv, [Next]_vars
    PROVE  \/ UNCHANGED guard
           \/ RunNext /\ guard' = [NoGuard EXCEPT !.at = "poll", !.launch = Len(launches) + 1]
           \/ /\ guard.at # "off" /\ guard'.launch = guard.launch /\ guard' \in GuardValues
              /\ \/ guard'.at \notin {"off", "recover"}
                 \/ guard'.rc # 0
                 \/ Waits /\ guard'.rc = ReturnCode
                 \/ guard.at = "recover" /\ guard'.rc = guard.rc
<1>0. guard \in GuardValues /\ guard' \in GuardValues
    BY NextInv DEF Inv, GuardInv
<1>1. CASE UNCHANGED guardVars \/ UNCHANGED vars
    BY <1>1 DEF guardVars, vars
<1>2. CASE Creates \/ RunVariant \/ VariantKilled
    BY <1>2 DEF Creates, Create, RunVariant, VariantKilled
<1>3. CASE \E k \in DOMAIN launches :
          \/ (Grow(k) \/ OutOfMemory(k)) /\ UNCHANGED campaignVars
          \/ Probe(k)
          \/ ProbeEnds(k, 0) \/ ProbeEnds(k, 1)
    BY <1>3 DEF Grow, OutOfMemory, Probe, ProbeEnds, End
<1>4. CASE Begin \/ Skip \/ MatrixReturn \/ NsysReturn \/ VariantReturn \/ Finish \/ CampaignStops
    BY <1>1, <1>4 DEF Begin, Skip, MatrixReturn, NsysReturn, VariantReturn, Finish, CampaignStops
<1>5. CASE RunNext
    BY <1>5 DEF RunNext, Launch
<1>6. CASE GuardDies
  <2>1. guard.at # "off" /\ guard' = [guard EXCEPT !.at = "off", !.reason = "interrupt", !.rc = 130]
    BY <1>6 DEF GuardDies
  <2>2. guard'.launch = guard.launch /\ guard'.rc = 130
    BY <1>0, <2>1 DEF GuardValues
  <2>3. QED
    BY <1>0, <2>1, <2>2
<1>7. CASE Interrupt
  <2>1. guard.at # "off" /\ guard' = [guard EXCEPT !.at = "kill", !.reason = "interrupt"]
    BY <1>7 DEF Interrupt
  <2>2. guard'.launch = guard.launch /\ guard'.at = "kill"
    BY <1>0, <2>1 DEF GuardValues
  <2>3. QED
    BY <1>0, <2>1, <2>2
<1>8. CASE Guards /\ (PollEnded \/ PollLow \/ PollTimeout \/ Kill)
  <2>1. guard.at # "off" /\ \E reason : \E at \in {"wait", "kill"} :
            guard' = [guard EXCEPT !.at = at, !.reason = reason]
    <3>1. PollEnded => guard' = [guard EXCEPT !.at = "wait", !.reason = guard.reason]
        BY <1>0 DEF PollEnded, GuardValues
    <3>2. Kill => guard' = [guard EXCEPT !.at = "wait", !.reason = guard.reason]
        BY <1>0 DEF Kill, GuardValues
    <3>3. PollLow => guard' = [guard EXCEPT !.at = "kill", !.reason = "memory"]
        BY DEF PollLow
    <3>4. PollTimeout => guard' = [guard EXCEPT !.at = "kill", !.reason = "timeout"]
        BY DEF PollTimeout
    <3>5. guard.at # "off"
        BY <1>8 DEF PollEnded, PollLow, PollTimeout, Kill
    <3>6. QED
        BY <1>8, <3>1, <3>2, <3>3, <3>4, <3>5
  <2>2. guard'.launch = guard.launch /\ guard'.at \in {"wait", "kill"}
    BY <1>0, <2>1 DEF GuardValues
  <2>3. QED
    BY <1>0, <2>1, <2>2
<1>9. CASE Guards /\ Wait
  <2>1. guard.at # "off" /\ UNCHANGED campaignVars
        /\ guard' = [guard EXCEPT !.at = IF config.recover THEN "recover" ELSE "off",
                              !.step = 1, !.rc = ReturnCode]
    BY <1>9 DEF Wait, Guards
  <2>2. guard'.launch = guard.launch /\ guard'.rc = ReturnCode
    BY <1>0, <2>1 DEF GuardValues
  <2>3. QED
    BY <1>0, <1>9, <2>1, <2>2 DEF Waits
<1>10. CASE Guards /\ (RecoverStep \/ RecoverFails)
  <2>1. guard.at = "recover" /\ \E at, step : guard' = [guard EXCEPT !.at = at, !.step = step]
    <3>1. RecoverFails => guard' = [guard EXCEPT !.at = "off", !.step = guard.step]
        BY <1>0 DEF RecoverFails, GuardValues
    <3>2. RecoverStep => guard' = [guard EXCEPT !.at = IF guard.step = Len(Commands) THEN "off" ELSE "recover",
                           !.step = guard.step + 1]
        BY <1>0 DEF RecoverStep, Recovered, GuardValues
    <3>3. QED
        BY <1>10, <3>1, <3>2 DEF RecoverStep, RecoverFails
  <2>2. guard'.launch = guard.launch /\ guard'.rc = guard.rc
    BY <1>0, <2>1 DEF GuardValues
  <2>3. QED
    BY <1>0, <2>1, <2>2
<1>11. QED
    BY <1>1, <1>2, <1>3, <1>4, <1>5, <1>6, <1>7, <1>8, <1>9, <1>10
       DEF Next, CampaignInterrupt, Guards, GuardStep

\* A guard that returns 0 had a launch that ended well.
SuccessInv ==
    guard.at \in {"off", "recover"} /\ guard.launch # 0 /\ guard.rc = 0 =>
        Own.at = "ended" /\ Own.rc = 0

LEMMA SuccessNext ==
    ASSUME Inv, SuccessInv, [Next]_vars
    PROVE  SuccessInv'
<1> SUFFICES ASSUME guard'.at \in {"off", "recover"}, guard'.launch # 0, guard'.rc = 0
             PROVE  Own'.at = "ended" /\ Own'.rc = 0
    BY DEF SuccessInv
<1>1. ASSUME guard'.launch = guard.launch, Own.at = "ended", Own.rc = 0
      PROVE  Own'.at = "ended" /\ Own'.rc = 0
  <2>1. guard.launch \in DOMAIN launches
    BY <1>1, Domain DEF Inv, GuardInv, GuardValues
  <2>2. launches'[guard.launch] = launches[guard.launch]
    BY <1>1, <2>1, LaunchKept DEF Own
  <2>3. QED
    BY <1>1, <2>2 DEF Own
<1>2. CASE UNCHANGED guard
    BY <1>1, <1>2 DEF SuccessInv
<1>3. CASE guard' = [NoGuard EXCEPT !.at = "poll", !.launch = Len(launches) + 1]
    BY <1>3 DEF NoGuard
<1>4. CASE Waits /\ guard'.rc = ReturnCode /\ guard'.launch = guard.launch
  <2>1. Own.at = "ended"
    BY <1>4 DEF Waits, Wait
  <2>2. Own.rc = 0
    BY <1>4 DEF ReturnCode
  <2>3. QED
    BY <1>1, <1>4, <2>1, <2>2
<1>5. CASE guard.at = "recover" /\ guard'.rc = guard.rc /\ guard'.launch = guard.launch
    BY <1>1, <1>5 DEF SuccessInv
<1>6. QED
    BY <1>2, <1>3, <1>4, <1>5, GuardKinds

-----------------------------------------------------------------------------
(* A profile's own statistics *)

\* The guard at work is that of the campaign's last launch, the name's to do.
CurrentInv ==
    campaign.at = "run" /\ campaign.kind # "ab" =>
        /\ guard.launch = Len(launches) /\ guard.launch > campaign.from
        /\ guard.launch \in DOMAIN launches /\ Own.name = Head(campaign.todo)

LEMMA CurrentNext ==
    ASSUME BookInv, CurrentInv, [Next]_vars
    PROVE  CurrentInv'
<1> SUFFICES ASSUME campaign'.at = "run", campaign'.kind # "ab"
             PROVE  /\ guard'.launch = Len(launches') /\ guard'.launch > campaign'.from
                    /\ guard'.launch \in DOMAIN launches'
                    /\ Own'.name = Head(campaign'.todo)
    BY DEF CurrentInv
<1>0. campaign \in CampaignValues /\ Inv /\ campaign.from \in Nat
    BY CampaignFields DEF BookInv
<1>1. CASE Keeps
  <2>1. campaign' = campaign
    BY <1>1 DEF Keeps
  <2>2. /\ guard.launch = Len(launches) /\ guard.launch > campaign.from
        /\ guard.launch \in DOMAIN launches /\ Own.name = Head(campaign.todo)
    BY <2>1 DEF CurrentInv
  <2>3. guard'.launch = guard.launch
    <3>1. ~RunNext
        BY <2>1 DEF RunNext
    <3>2. QED
        BY <1>0, <3>1, GuardKinds
  <2>4. Len(launches') = Len(launches)
    <3>1. ~RunVariant /\ ~RunNext
        BY <2>1 DEF RunNext, RunVariant
    <3>2. DOMAIN launches' = DOMAIN launches
        BY <1>0, <3>1, LaunchesGrow, NewLaunch
    <3>3. QED
        BY <1>0, <3>2, LaunchesGrow
  <2>5. guard.launch \in DOMAIN launches' /\ launches'[guard.launch].name = Own.name
    BY <1>0, <2>2, LaunchKept, LaunchesGrow DEF Own
  <2>6. QED
    BY <2>1, <2>2, <2>3, <2>4, <2>5 DEF Own
<1>2. CASE Begin
    BY <1>2 DEF Begin, NoCampaign
<1>3. CASE Pops
    BY <1>0, <1>3 DEF Pops, CampaignValues
<1>4. CASE Stops
    BY <1>0, <1>4 DEF Stops, CampaignValues
<1>5. CASE Turns
  <2>1. RunNext \/ RunVariant
    BY <1>5 DEF Turns
  <2>2. campaign' = [campaign EXCEPT !.at = "run"]
    BY <2>1 DEF RunNext, RunVariant
  <2>3. campaign'.kind = campaign.kind /\ campaign'.from = campaign.from /\ campaign'.todo = campaign.todo
    BY <1>0, <2>2 DEF CampaignValues
  <2>4. RunNext
    BY <2>1, <2>3 DEF RunVariant
  <2>5. guard' = [NoGuard EXCEPT !.at = "poll", !.launch = Len(launches) + 1]
    BY <2>4 DEF RunNext, Launch
  <2>6. guard'.launch = Len(launches) + 1
    BY <2>5 DEF NoGuard
  <2>7. /\ Len(launches) \in Nat /\ Len(launches') = Len(launches) + 1
        /\ DOMAIN launches' = 1..(Len(launches) + 1)
        /\ launches'[Len(launches) + 1] = [name |-> Head(campaign.todo), at |-> "starting",
                                           rc |-> None, done |-> 0]
    BY <1>0, <2>4, RunNextBegins DEF Begins
  <2>8. campaign.from <= Len(launches)
    BY DEF BookInv, RecordInv
  <2>9. Own'.name = Head(campaign.todo)
    BY <2>6, <2>7 DEF Own
  <2>10. guard'.launch > campaign'.from
    BY <1>0, <2>3, <2>6, <2>7, <2>8
  <2>11. QED
    BY <2>3, <2>6, <2>7, <2>9, <2>10
<1>6. QED
    BY <1>0, <1>1, <1>2, <1>3, <1>4, <1>5, PlanKinds

\* A profile has its one name before it until it is done.
SingleInv ==
    campaign.kind = "nsys" /\ campaign.at \in {"next", "run"} => campaign.todo = campaign.names

LEMMA SingleNext ==
    ASSUME BookInv, SingleInv, [Next]_vars
    PROVE  SingleInv'
<1>0. campaign \in CampaignValues /\ Inv
    BY CampaignFields DEF BookInv
<1>1. CASE Keeps
    BY <1>1 DEF Keeps, SingleInv
<1>2. CASE Begin
    BY <1>2 DEF Begin, NoCampaign, SingleInv
<1>3. CASE Turns
    BY <1>0, <1>3 DEF Turns, CampaignValues, SingleInv
<1>4. CASE Stops
    BY <1>0, <1>4 DEF Stops, CampaignValues, SingleInv
<1>5. CASE Pops
  <2>1. campaign.at \in {"next", "run"} /\ campaign'.kind = campaign.kind
        /\ campaign'.at = "next" /\ campaign'.todo = Tail(campaign.todo) /\ campaign.todo # <<>>
    BY <1>0, <1>5 DEF Pops, CampaignValues
  <2>2. campaign.kind # "nsys"
    <3>1. UNCHANGED campaign => FALSE
      <4>1. Len(Tail(campaign.todo)) = Len(campaign.todo) - 1 /\ Len(campaign.todo) \in Nat
        BY <1>0, <2>1, TodoTail, CampaignFields
      <4> DEFINE a == Len(Tail(campaign.todo))  b == Len(campaign.todo)
      <4>a. a = b - 1 /\ b \in Nat
        BY <4>1
      <4>b. Tail(campaign.todo) = campaign.todo => a = b
        OBVIOUS
      <4> HIDE DEF a, b
      <4>2. Tail(campaign.todo) # campaign.todo
        BY <4>a, <4>b
      <4>3. QED
        BY <2>1, <4>2
    <3>2. ~Begin /\ ~RunNext /\ ~RunVariant /\ ~VariantKilled /\ ~Finish /\ ~CampaignInterrupt
          /\ ~CampaignStops
        BY <1>0, <2>1 DEF Begin, RunNext, RunVariant, VariantKilled, Finish, CampaignInterrupt,
           CampaignStops, Done, CampaignValues
    <3>3. NsysReturn => FALSE
        BY <1>0, <2>1 DEF NsysReturn, Done, CampaignValues
    <3>4. Skip \/ MatrixReturn \/ VariantReturn
        BY <3>1, <3>2, <3>3 DEF Next, vars, campaignVars, Creates, Guards, Probe, ProbeEnds
    <3>5. QED
        BY <3>4 DEF Skip, Skips, MatrixReturn, VariantReturn
  <2>3. QED
    BY <2>1, <2>2 DEF SingleInv
<1>6. QED
    BY <1>0, <1>1, <1>2, <1>3, <1>4, <1>5, PlanKinds

\* A profile's launch that ended well has left its report.
ReportInv ==
    campaign.kind = "nsys" =>
        \A k \in DOMAIN launches :
            k > campaign.from /\ launches[k].at = "ended" /\ launches[k].rc = 0 =>
                /\ reports[launches[k].name] # None
                /\ reports[launches[k].name] > campaign.from

LEMMA ReportNext ==
    ASSUME BookInv, ReportInv, [Next]_vars
    PROVE  ReportInv'
<1>0. /\ campaign \in CampaignValues /\ Inv /\ campaign.from \in Nat
      /\ Len(launches) \in Nat /\ DOMAIN launches = 1..Len(launches)
      /\ reports \in [Names -> {None} \cup DOMAIN launches]
    BY CampaignFields, Domain DEF BookInv, FileInv
<1>1. CASE Begin
  <2>1. campaign'.from = Len(launches) /\ UNCHANGED launches
    BY <1>1 DEF Begin, NoCampaign, guardVars
  <2>2. \A k \in DOMAIN launches : ~(k > Len(launches))
    BY <1>0
  <2>3. QED
    BY <2>1, <2>2 DEF ReportInv
<1>2. CASE ~Begin
  <2>1. campaign'.kind = campaign.kind /\ campaign'.from = campaign.from
    <3>1. Keeps \/ Pops \/ Turns \/ Stops
        BY <1>0, <1>2, PlanKinds
    <3>2. QED
        BY <1>0, <3>1 DEF Keeps, Pops, Turns, Stops, CampaignValues
  <2> SUFFICES ASSUME campaign.kind = "nsys", NEW k \in DOMAIN launches',
                      k > campaign.from, launches'[k].at = "ended", launches'[k].rc = 0
               PROVE  reports'[launches'[k].name] # None /\ reports'[launches'[k].name] > campaign.from
    BY <2>1 DEF ReportInv
  <2>2. k \in DOMAIN launches
    BY <1>0, NewLaunch
  <2>3. launches'[k].name = launches[k].name /\ launches[k].name \in Names
    BY <1>0, <2>2, LaunchKept, Domain DEF LaunchTypes
  <2>4. CASE launches[k].at = "ended"
    <3>1. launches'[k] = launches[k]
        BY <1>0, <2>2, <2>4, LaunchKept
    <3>2. reports[launches[k].name] # None /\ reports[launches[k].name] > campaign.from
        BY <2>2, <2>4, <3>1 DEF ReportInv
    <3>3. CASE UNCHANGED reports
        BY <3>1, <3>2, <3>3
    <3>4. ASSUME NEW j \in DOMAIN launches, Report(j)
          PROVE  reports'[launches[k].name] # None /\ reports'[launches[k].name] > campaign.from
        BY <1>0, <2>3, <3>2, <3>4, NoneAssumption DEF Report
    <3>5. QED
        BY <1>0, <3>1, <3>3, <3>4, ReportsWritten
  <2>5. CASE launches[k].at # "ended"
    <3>1. Report(k)
        BY <1>0, <2>2, <2>5, LaunchKept
    <3>2. reports' = [reports EXCEPT ![launches[k].name] = k]
        BY <3>1 DEF Report
    <3>3. QED
        BY <1>0, <2>2, <2>3, <3>2, NoneAssumption
  <2>6. QED
    BY <2>4, <2>5
<1>3. QED
    BY <1>1, <1>2

\* What a profile that returns 0 has read.
LEMMA StatsNext ==
    ASSUME BookInv, SuccessInv, CurrentInv, SingleInv, ReportInv, StatsAreOwn, [Next]_vars
    PROVE  StatsAreOwn'
<1> SUFFICES ASSUME campaign'.kind = "nsys", campaign'.at = "done", campaign'.rc = 0
             PROVE  campaign'.stats # None /\ campaign'.stats > campaign'.from
    BY DEF StatsAreOwn
<1>0. campaign \in CampaignValues /\ Inv
    BY CampaignFields DEF BookInv
<1>1. CASE Keeps
    BY <1>1 DEF Keeps, StatsAreOwn
<1>2. CASE campaign.at # "done" /\ campaign'.kind = campaign.kind
  <2>1. MatrixReturn \/ NsysReturn \/ VariantReturn \/ VariantKilled \/ Finish \/ CampaignStops
    BY <1>0, <1>2, StopKinds
  <2>2. ~MatrixReturn /\ ~VariantReturn /\ ~VariantKilled
    BY <1>2 DEF MatrixReturn, VariantReturn, VariantKilled
  <2>3. ~CampaignStops
    <3>1. CampaignStops => campaign'.rc = 130
        BY <1>0 DEF CampaignStops, Done, CampaignValues
    <3>2. QED
        BY <3>1
  <2>4. ~Finish
    <3> SUFFICES ASSUME Finish PROVE FALSE
        OBVIOUS
    <3>1. campaign.names = <<>> /\ campaign.kind # None
        BY <1>2 DEF Finish, SingleInv, BookInv, PlanInv
    <3>2. PICK i \in DOMAIN config.campaigns :
              config.campaigns[i] = [kind |-> "nsys", names |-> <<>>, skip |-> campaign.skip]
        BY <1>2, <3>1 DEF BookInv, PlanInv, Planned
    <3>3. config.campaigns[i].kind = "nsys" /\ config.campaigns[i].names = <<>>
        BY <3>2
    <3>4. Len(config.campaigns[i].names) = 1
        BY <3>3, ProfileAssumption DEF BookInv, Inv, GuardInv
    <3>5. QED
        BY <3>3, <3>4
  <2>5. NsysReturn
    BY <2>1, <2>2, <2>3, <2>4
  <2>6. /\ campaign.at = "run" /\ guard.at = "off"
        /\ campaign' = [Done(guard.rc) EXCEPT !.stats = reports[Head(campaign.todo)]]
    BY <2>5 DEF NsysReturn
  <2>7. /\ campaign'.stats = reports[Head(campaign.todo)] /\ campaign'.rc = guard.rc
        /\ campaign'.from = campaign.from
    BY <1>0, <2>6 DEF Done, CampaignValues
  <2>8. /\ guard.launch > campaign.from /\ guard.launch \in DOMAIN launches
        /\ Own.name = Head(campaign.todo)
    BY <1>2, <2>6 DEF CurrentInv
  <2>9. Own.at = "ended" /\ Own.rc = 0
    <3>1. guard.launch # 0
        BY <1>0, <2>8, Domain
    <3>2. QED
        BY <2>6, <2>7, <3>1 DEF SuccessInv
  <2>10. reports[Own.name] # None /\ reports[Own.name] > campaign.from
    BY <1>2, <2>8, <2>9 DEF ReportInv, Own
  <2>11. QED
    BY <2>7, <2>8, <2>10
<1>3. CASE Begin
    BY <1>3 DEF Begin, NoCampaign
<1>4. (campaign.at # "done" /\ campaign'.kind = campaign.kind) \/ Keeps \/ Begin
    BY <1>0, PlanKinds DEF Pops, Turns, Stops, CampaignValues
<1>5. QED
    BY <1>1, <1>2, <1>3, <1>4

-----------------------------------------------------------------------------
(* An A/B run's own rows *)

\* A name of an A/B run.
Variant(n) ==
    \E i \in DOMAIN config.campaigns :
        /\ config.campaigns[i].kind = "ab"
        /\ \E j \in DOMAIN config.campaigns[i].names : config.campaigns[i].names[j] = n

LEMMA HeadIsPlanned ==
    ASSUME BookInv, campaign.at # "done", campaign.todo # <<>>
    PROVE  /\ \E j \in DOMAIN campaign.names : campaign.names[j] = Head(campaign.todo)
           /\ Variant(Head(campaign.todo)) <=> campaign.kind = "ab"
<1>0. campaign \in CampaignValues /\ Inv
    BY CampaignFields DEF BookInv
<1>1. \E j \in DOMAIN campaign.names : campaign.names[j] = Head(campaign.todo)
  <2> DEFINE a == Len(campaign.names)  b == Len(campaign.todo)
  <2>1. a \in Nat /\ b \in Nat /\ b >= 1 /\ b <= a /\ DOMAIN campaign.names = 1..a
        /\ DOMAIN campaign.todo = 1..b /\ Head(campaign.todo) = campaign.todo[1]
    BY <1>0, CampaignFields, TodoTail DEF BookInv, PlanInv
  <2>2. \A i \in DOMAIN campaign.todo : campaign.todo[i] = campaign.names[a - b + i]
    BY DEF BookInv, PlanInv
  <2> HIDE DEF a, b
  <2>3. 1 \in 1..b /\ a - b + 1 \in 1..a
    BY <2>1
  <2>4. campaign.todo[1] = campaign.names[a - b + 1]
    BY <2>1, <2>2, <2>3
  <2>5. QED
    BY <2>1, <2>3, <2>4
<1>2. PICK i \in DOMAIN config.campaigns :
          config.campaigns[i] = [kind |-> campaign.kind, names |-> campaign.names,
                                 skip |-> campaign.skip]
    BY DEF BookInv, PlanInv, Planned
<1>3. config.campaigns[i].kind = campaign.kind /\ config.campaigns[i].names = campaign.names
    BY <1>2
<1>4. campaign.kind = "ab" => Variant(Head(campaign.todo))
    BY <1>1, <1>3 DEF Variant
<1>5. ASSUME campaign.kind # "ab", Variant(Head(campaign.todo)) PROVE FALSE
  <2>1. PICK m \in DOMAIN config.campaigns : config.campaigns[m].kind = "ab"
            /\ \E j \in DOMAIN config.campaigns[m].names :
                  config.campaigns[m].names[j] = Head(campaign.todo)
    BY <1>5 DEF Variant
  <2>2. PICK j \in DOMAIN config.campaigns[m].names :
            config.campaigns[m].names[j] = Head(campaign.todo)
    BY <2>1
  <2>3. PICK l \in DOMAIN campaign.names : campaign.names[l] = Head(campaign.todo)
    BY <1>1
  <2>4. config \in Configs
    BY <1>0 DEF Inv, GuardInv
  <2>5. config.campaigns[m].names[j] # config.campaigns[i].names[l]
    BY <1>3, <1>5, <2>1, <2>3, <2>4, PrefixAssumption
  <2>6. QED
    BY <1>3, <2>2, <2>3, <2>5
<1>6. QED
    BY <1>1, <1>4, <1>5

\* Only an A/B run at work has a launch of such a name that goes on.
VariantRunInv ==
    \A j \in DOMAIN launches : launches[j].at # "ended" /\ Variant(launches[j].name) =>
        campaign.kind = "ab" /\ campaign.at = "run" /\ j = Len(launches)

LEMMA VariantRunNext ==
    ASSUME BookInv, VariantRunInv, [Next]_vars
    PROVE  VariantRunInv'
<1>0. campaign \in CampaignValues /\ Inv /\ config' = config
    BY CampaignFields, StepKinds DEF BookInv
<1> SUFFICES ASSUME NEW j \in DOMAIN launches', launches'[j].at # "ended",
                    Variant(launches'[j].name)
             PROVE  campaign'.kind = "ab" /\ campaign'.at = "run" /\ j = Len(launches')
    BY <1>0 DEF VariantRunInv, Variant
<1>1. CASE j \notin DOMAIN launches
  <2>1. /\ j = Len(launches) + 1 /\ Len(launches') = Len(launches) + 1
        /\ launches'[j].name = Head(campaign.todo) /\ (RunNext \/ RunVariant)
    BY <1>0, <1>1, NewLaunch
  <2>2. campaign.kind = "ab"
    <3>1. campaign.at # "done" /\ campaign.todo # <<>>
        BY <2>1 DEF RunNext, RunVariant
    <3>2. QED
        BY <2>1, <3>1, HeadIsPlanned
  <2>3. campaign' = [campaign EXCEPT !.at = "run"]
    BY <2>1 DEF RunNext, RunVariant
  <2>4. campaign'.kind = campaign.kind /\ campaign'.at = "run"
    BY <1>0, <2>3 DEF CampaignValues
  <2>5. QED
    BY <2>1, <2>2, <2>4
<1>2. CASE j \in DOMAIN launches
  <2>1. launches[j].at # "ended" /\ launches[j].name = launches'[j].name
    BY <1>0, <1>2, LaunchKept
  <2>2. campaign.kind = "ab" /\ campaign.at = "run" /\ j = Len(launches)
    BY <1>2, <2>1 DEF VariantRunInv
  <2>3. Len(launches') = Len(launches)
    <3>1. ~RunVariant /\ ~RunNext
        BY <2>2 DEF RunNext, RunVariant
    <3>2. DOMAIN launches' = DOMAIN launches
        BY <1>0, <3>1, LaunchesGrow, NewLaunch
    <3>3. QED
        BY <1>0, <3>2, LaunchesGrow
  <2>4. ~VariantReturn
    BY <2>1, <2>2 DEF VariantReturn
  <2>5. ~VariantKilled
    <3> SUFFICES ASSUME VariantKilled PROVE FALSE
        OBVIOUS
    <3>1. guard.at = "off"
        BY <1>0, <2>2, NextIsIdle
    <3>2. launches[j].at # "starting"
        BY <1>0, <1>2, <3>1 DEF Inv, RecoverInv
    <3>3. j \in Containers
        BY <1>0, <1>2, <2>1, <3>2, Domain DEF Containers, Running, LaunchTypes
    <3>4. Ends(Containers, 137)
        BY <1>0, VariantKilledEnds
    <3>5. launches'[j] = [launches[j] EXCEPT !.at = "ended", !.rc = 137]
        BY <1>2, <3>3, <3>4 DEF Ends
    <3>6. launches'[j].at = "ended"
        BY <1>0, <1>2, <3>5, Domain DEF LaunchTypes
    <3>7. QED
        BY <3>6
  <2>6. UNCHANGED campaign
    <3>1. ~(Begin \/ Skip \/ RunNext \/ RunVariant \/ MatrixReturn \/ NsysReturn \/ Finish
            \/ CampaignInterrupt \/ CampaignStops)
        BY <2>2 DEF Begin, Skip, RunNext, RunVariant, MatrixReturn, NsysReturn, Finish,
           CampaignInterrupt, CampaignStops
    <3>2. QED
        BY <2>4, <2>5, <3>1 DEF Next, vars, campaignVars, Creates, Guards, Probe, ProbeEnds
  <2>7. QED
    BY <2>2, <2>3, <2>6
<1>3. QED
    BY <1>1, <1>2

\* A probe writes to its own telemetry only.
LEMMA OtherLog ==
    ASSUME NEW k \in DOMAIN launches, Probe(k), Advances(k), logs \in [Names -> Seq(Entries)],
           NEW n, n # launches[k].name
    PROVE  logs'[n] = logs[n]
<1>1. launches[k].done \in 0..3
    BY DEF Advances
<1>2. logs' = logs \/ \E e : Writes(e, k)
    BY <1>1, ProbeLogs
<1>3. \A e : Writes(e, k) => logs'[n] = logs[n]
    BY DEF Writes
<1>4. QED
    BY <1>2, <1>3

\* What an A/B run's telemetry holds is of its last launch.
VariantLogInv ==
    campaign.kind = "ab" /\ campaign.at = "run" =>
        /\ launches[Len(launches)].name = Head(campaign.todo)
        /\ \A i \in DOMAIN logs[Head(campaign.todo)] :
              logs[Head(campaign.todo)][i].launch = Len(launches)

LEMMA VariantLogNext ==
    ASSUME BookInv, VariantRunInv, VariantLogInv, [Next]_vars
    PROVE  VariantLogInv'
<1>0. campaign \in CampaignValues /\ Inv /\ logs \in [Names -> Seq(Entries)]
    BY CampaignFields DEF BookInv, FileInv
<1> SUFFICES ASSUME campaign'.kind = "ab", campaign'.at = "run"
             PROVE  /\ launches'[Len(launches')].name = Head(campaign'.todo)
                    /\ \A i \in DOMAIN logs'[Head(campaign'.todo)] :
                          logs'[Head(campaign'.todo)][i].launch = Len(launches')
    BY DEF VariantLogInv
<1>1. CASE Keeps
  <2>1. campaign' = campaign /\ campaign.kind = "ab" /\ campaign.at = "run"
    BY <1>1 DEF Keeps
  <2> DEFINE n == Head(campaign.todo)
             k == Len(launches)
  <2>2. launches[k].name = n /\ \A i \in DOMAIN logs[n] : logs[n][i].launch = k
    BY <2>1 DEF VariantLogInv
  <2>3. k \in DOMAIN launches /\ n \in Names /\ k \in Nat
    BY <1>0, <2>1, VariantLaunch, HeadIsName, Domain DEF BookInv, Inv, CampaignInv
  <2>4. ~RunVariant /\ ~RunNext
    BY <2>1 DEF RunNext, RunVariant
  <2>5. Len(launches') = k
    <3>1. DOMAIN launches' = DOMAIN launches
        BY <1>0, <2>4, LaunchesGrow, NewLaunch
    <3>2. QED
        BY <1>0, <3>1, LaunchesGrow
  <2>6. launches'[k].name = n
    BY <1>0, <2>2, <2>3, LaunchKept
  <2>7. CASE UNCHANGED logs
    BY <2>1, <2>2, <2>5, <2>6, <2>7
  <2>8. ASSUME NEW j \in DOMAIN launches, Probe(j), Advances(j)
        PROVE  \A i \in DOMAIN logs'[n] : logs'[n][i].launch = k
    <3>1. CASE launches[j].name = n
      <4>1. Variant(n)
        BY <2>1, HeadIsPlanned DEF BookInv, Inv, CampaignInv
      <4>2. j = k
        BY <2>8, <3>1, <4>1 DEF VariantRunInv, Advances, Running
      <4>3. ASSUME NEW e \in Events, Writes(e, j)
            PROVE  \A i \in DOMAIN logs'[n] : logs'[n][i].launch = k
        <5> DEFINE x == [event |-> e, launch |-> j]
        <5>1. x \in Entries /\ x.launch = k
            BY <2>3, <4>2 DEF Entries
        <5>2. logs'[n] = Append(logs[n], x)
            BY <1>0, <2>3, <3>1, <4>3 DEF Writes
        <5> HIDE DEF x, n, k
        <5>3. /\ Len(logs[n]) \in Nat /\ DOMAIN logs[n] = 1..Len(logs[n])
              /\ DOMAIN logs'[n] = 1..(Len(logs[n]) + 1)
              /\ \A i \in 1..Len(logs[n]) : logs'[n][i] = logs[n][i]
              /\ logs'[n][Len(logs[n]) + 1] = x
            BY <1>0, <2>3, <5>1, <5>2, OneMore
        <5>4. \A i \in DOMAIN logs'[n] : i \in 1..Len(logs[n]) \/ i = Len(logs[n]) + 1
            BY <5>3
        <5>5. QED
            BY <2>2, <5>1, <5>3, <5>4
      <4>4. "load" \in Events /\ "cold" \in Events /\ "cached" \in Events
            /\ launches[j].done \in 0..3
        BY <2>8 DEF Events, Advances
      <4>5. logs' = logs \/ Writes("load", j) \/ Writes("cold", j) \/ Writes("cached", j)
        BY <2>8, <4>4, ProbeLogs
      <4>6. QED
        BY <2>2, <4>3, <4>4, <4>5
    <3>2. CASE launches[j].name # n
        BY <1>0, <2>2, <2>8, <3>2, OtherLog
    <3>3. QED
        BY <3>1, <3>2
  <2>9. QED
    BY <1>0, <2>1, <2>4, <2>5, <2>6, <2>7, <2>8, StepKinds
<1>2. CASE Begin
    BY <1>2 DEF Begin, NoCampaign
<1>3. CASE Pops
    BY <1>0, <1>3 DEF Pops, CampaignValues
<1>4. CASE Stops
    BY <1>0, <1>4 DEF Stops, CampaignValues
<1>5. CASE Turns
  <2>1. RunNext \/ RunVariant
    BY <1>5 DEF Turns
  <2>2. campaign' = [campaign EXCEPT !.at = "run"]
    BY <2>1 DEF RunNext, RunVariant
  <2>3. campaign'.kind = campaign.kind /\ campaign'.todo = campaign.todo
    BY <1>0, <2>2 DEF CampaignValues
  <2>4. RunVariant
    BY <2>1, <2>3 DEF RunNext
  <2>5. logs' = [logs EXCEPT ![Head(campaign.todo)] = <<>>]
    BY <2>4 DEF RunVariant
  <2>6. Head(campaign.todo) \in Names
    BY <1>0, <2>4, HeadIsName DEF RunVariant
  <2>7. logs'[Head(campaign.todo)] = <<>>
    BY <1>0, <2>5, <2>6
  <2>8. launches'[Len(launches')].name = Head(campaign.todo)
    BY <1>0, <2>4, RunVariantBegins DEF Begins
  <2>9. QED
    BY <2>3, <2>7, <2>8
<1>6. QED
    BY <1>0, <1>1, <1>2, <1>3, <1>4, <1>5, PlanKinds

LEMMA RowsNext ==
    ASSUME BookInv, VariantLogInv, VariantRowsAreOwn, [Next]_vars
    PROVE  VariantRowsAreOwn'
<1>0. campaign \in CampaignValues /\ Inv /\ logs \in [Names -> Seq(Entries)]
      /\ campaign.rows \in Seq(Rows)
    BY CampaignFields DEF BookInv, FileInv, RecordInv
<1>1. ASSUME campaign'.rows = campaign.rows, campaign'.from = campaign.from
      PROVE  VariantRowsAreOwn'
    BY <1>1 DEF VariantRowsAreOwn
<1>2. CASE Begin
    BY <1>2 DEF Begin, NoCampaign, VariantRowsAreOwn
<1>3. CASE VariantReturn
  <2>1. campaign.at = "run" /\ campaign.kind = "ab"
    BY <1>3 DEF VariantReturn
  <2> DEFINE n == Head(campaign.todo)
             k == Len(launches)
  <2>2. \A i \in DOMAIN logs[n] : logs[n][i].launch = k
    BY <2>1 DEF VariantLogInv
  <2>3. n \in Names /\ k > campaign.from
    BY <1>0, <2>1, VariantLaunch, HeadIsName DEF BookInv, Inv, CampaignInv
  <2>4. Generated(n) # {} => First(Generated(n)) \in DOMAIN logs[n]
    <3>1. logs[n] \in Seq(Entries)
        BY <1>0, <2>3
    <3>2. Generated(n) \in SUBSET Nat
        BY <3>1, LenProperties DEF Generated
    <3>3. QED
        BY <3>2, FirstIsLeast DEF Generated
  <2>5. CASE campaign' = [campaign EXCEPT !.at = "done", !.rc = 1, !.rows = campaign.rows,
                                           !.stats = campaign.stats]
    BY <1>0, <1>1, <2>5 DEF CampaignValues
  <2>6. ASSUME NEW row \in Rows, row.event = logs[n][First(Generated(n))].launch, row.shown = k,
               Generated(n) # {},
               \/ campaign' = [campaign EXCEPT !.at = "done", !.rc = row.rc,
                             !.rows = Append(campaign.rows, row), !.stats = campaign.stats]
               \/ campaign' = [campaign EXCEPT !.at = "next", !.todo = Tail(@),
                             !.rows = Append(campaign.rows, row)]
        PROVE  VariantRowsAreOwn'
    <3>1. row.event = k
        BY <2>2, <2>4, <2>6
    <3>2. campaign'.rows = Append(campaign.rows, row) /\ campaign'.from = campaign.from
        BY <1>0, <2>6 DEF CampaignValues
    <3>3. /\ \A i \in 1..Len(campaign.rows) : campaign'.rows[i] = campaign.rows[i]
          /\ campaign'.rows[Len(campaign.rows) + 1] = row
          /\ campaign'.rows \in Seq(Rows) /\ Len(campaign'.rows) = Len(campaign.rows) + 1
        BY <1>0, <3>2, AppendProperties
    <3>4. DOMAIN campaign'.rows = 1..Len(campaign'.rows)
          /\ DOMAIN campaign.rows = 1..Len(campaign.rows) /\ Len(campaign.rows) \in Nat
        BY <1>0, <3>3, LenProperties
    <3>5. \A i \in DOMAIN campaign'.rows : i \in DOMAIN campaign.rows \/ i = Len(campaign.rows) + 1
        BY <3>3, <3>4
    <3>6. \A i \in DOMAIN campaign.rows :
              campaign.rows[i].event = campaign.rows[i].shown /\ campaign.rows[i].event > campaign.from
        BY DEF VariantRowsAreOwn
    <3>7. ASSUME NEW i \in DOMAIN campaign'.rows
          PROVE  campaign'.rows[i].event = campaign'.rows[i].shown
                 /\ campaign'.rows[i].event > campaign'.from
      <4>1. CASE i \in DOMAIN campaign.rows
        BY <3>2, <3>3, <3>4, <3>6, <4>1
      <4>2. CASE i = Len(campaign.rows) + 1
        BY <2>3, <2>6, <3>1, <3>2, <3>3, <4>2
      <4>3. QED
        BY <3>5, <4>1, <4>2
    <3>8. QED
        BY <3>7 DEF VariantRowsAreOwn
  <2>7. QED
    BY <1>0, <1>3, <2>5, <2>6, RowMade DEF BookInv
<1>4. CASE ~Begin /\ ~VariantReturn
  <2>1. Keeps \/ Pops \/ Turns \/ Stops
    BY <1>0, <1>4, PlanKinds
  <2>2. campaign'.rows = campaign.rows /\ campaign'.from = campaign.from
    BY <1>0, <1>4, <2>1 DEF Keeps, Pops, Turns, Stops, CampaignValues
  <2>3. QED
    BY <1>1, <2>2
<1>5. QED
    BY <1>2, <1>3, <1>4

OwnInv ==
    /\ BookInv /\ SuccessInv /\ CurrentInv /\ SingleInv /\ ReportInv
    /\ VariantRunInv /\ VariantLogInv /\ ReportsAreOwn

LEMMA OwnInit == Init => OwnInv
<1> SUFFICES ASSUME Init PROVE OwnInv
    OBVIOUS
<1>1. BookInv
    BY BookInit
<1>2. /\ campaign.kind = None /\ campaign.at = "done" /\ campaign.rows = <<>>
      /\ guard.launch = 0 /\ DOMAIN launches = {}
    BY DEF Init, GuardInit, NoGuard, NoCampaign
<1>3. campaign.kind # "nsys"
    BY <1>2, KindAssumption
<1>4. SuccessInv /\ CurrentInv /\ SingleInv /\ ReportInv /\ VariantRunInv /\ VariantLogInv
    BY <1>2, <1>3 DEF SuccessInv, CurrentInv, SingleInv, ReportInv, VariantRunInv, VariantLogInv
<1>5. ReportsAreOwn
    BY <1>2, <1>3 DEF ReportsAreOwn, StatsAreOwn, VariantRowsAreOwn
<1>6. QED
    BY <1>1, <1>4, <1>5 DEF OwnInv

LEMMA OwnNext == OwnInv /\ [Next]_vars => OwnInv'
<1> SUFFICES ASSUME OwnInv, [Next]_vars PROVE OwnInv'
    OBVIOUS
<1>1. BookInv /\ Inv
    BY DEF OwnInv, BookInv
<1>2. BookInv' /\ SuccessInv' /\ CurrentInv' /\ SingleInv' /\ ReportInv'
    BY <1>1, BookNext, SuccessNext, CurrentNext, SingleNext, ReportNext DEF OwnInv
<1>3. VariantRunInv' /\ VariantLogInv'
    BY <1>1, VariantRunNext, VariantLogNext DEF OwnInv
<1>4. ReportsAreOwn'
  <2>1. StatsAreOwn'
    BY StatsNext DEF OwnInv, ReportsAreOwn
  <2>2. VariantRowsAreOwn'
    BY RowsNext DEF OwnInv, ReportsAreOwn
  <2>3. QED
    BY <2>1, <2>2 DEF ReportsAreOwn
<1>5. QED
    BY <1>2, <1>3, <1>4 DEF OwnInv

\* Behind what a campaign reports: a guard that returned 0 had a launch of the campaign
\* that wrote its report, and the telemetry of the variant at work is of its last
\* launch, whose files were removed before it (run_materializer_ab.py:175).
THEOREM CampaignOwnsReports == Spec => []OwnInv
    BY OwnInit, OwnNext, PTL DEF Spec

\* The statistics of a profile that ends well (run_nsys_profile.py, run_stats) are of a
\* launch of its own, and every row of an A/B summary (row_for_run) takes its times and
\* its tokens from one launch, one of its own.
THEOREM CampaignReportsAreOwn == Spec => []ReportsAreOwn
<1>1. OwnInv => ReportsAreOwn
    BY DEF OwnInv
<1>2. QED
    BY <1>1, CampaignOwnsReports, PTL

-----------------------------------------------------------------------------
(* A matrix that returns 0 *)

\* What docker and the A/B run see to: no two containers of one name run.
OneOfAName ==
    \A j, k \in DOMAIN launches :
        Running(j) /\ Running(k) /\ launches[j].name = launches[k].name => j = k

\* The last completion of n is k's cold one.
ColdLast(n, k) ==
    \E c \in Generated(n) :
        /\ logs[n][c] = [event |-> "cold", launch |-> k]
        /\ \A j \in Generated(n) : j <= c

\* The last two are k's.
CompletedBy(n, k) ==
    \E c, d \in Generated(n) :
        /\ logs[n][c] = [event |-> "cold", launch |-> k]
        /\ logs[n][d] = [event |-> "cached", launch |-> k]
        /\ c < d /\ \A j \in Generated(n) : j <= c \/ j = d

\* The telemetry of a launch that runs tells how far it is.
Progress(k) ==
    /\ launches[k].done \in {2, 3} => ColdLast(launches[k].name, k)
    /\ launches[k].done = 4 => CompletedBy(launches[k].name, k)

RunsInv ==
    /\ OneOfAName
    /\ \A k \in DOMAIN launches :
          /\ launches[k].at = "starting" => launches[k].done = 0
          /\ Running(k) => Progress(k)

\* The telemetry of n stays as it is.
LEMMA SameLog ==
    ASSUME NEW n, NEW k, logs'[n] = logs[n]
    PROVE  /\ ColdLast(n, k) => ColdLast(n, k)'
           /\ CompletedBy(n, k) => CompletedBy(n, k)'
    BY DEF ColdLast, CompletedBy, Generated

\* An event is added to it.
LEMMA MoreLog ==
    ASSUME logs \in [Names -> Seq(Entries)], NEW n \in Names, NEW x \in Entries,
           logs'[n] = Append(logs[n], x)
    PROVE  /\ Len(logs[n]) \in Nat /\ Generated(n) \subseteq 1..Len(logs[n])
           /\ \A i \in 1..Len(logs[n]) : logs'[n][i] = logs[n][i]
           /\ logs'[n][Len(logs[n]) + 1] = x
           /\ x.event = "load" => Generated(n)' = Generated(n)
           /\ x.event # "load" => Generated(n)' = Generated(n) \cup {Len(logs[n]) + 1}
<1>1. logs[n] \in Seq(Entries)
    OBVIOUS
<1>2. /\ Len(logs[n]) \in Nat /\ DOMAIN logs[n] = 1..Len(logs[n])
      /\ DOMAIN logs'[n] = 1..(Len(logs[n]) + 1)
      /\ \A i \in 1..Len(logs[n]) : logs'[n][i] = logs[n][i]
      /\ logs'[n][Len(logs[n]) + 1] = x
    BY <1>1, OneMore
<1>3. Generated(n) = {i \in 1..Len(logs[n]) : logs[n][i].event # "load"}
    BY <1>2 DEF Generated
<1>4. Generated(n)' = {i \in 1..(Len(logs[n]) + 1) : logs'[n][i].event # "load"}
    BY <1>2 DEF Generated
<1>5. 1..(Len(logs[n]) + 1) = 1..Len(logs[n]) \cup {Len(logs[n]) + 1}
    BY <1>2
<1>6. \A i \in 1..Len(logs[n]) : i # Len(logs[n]) + 1
    BY <1>2
<1>7. QED
    BY <1>2, <1>3, <1>4, <1>5, <1>6

LEMMA ProgressGoesOn ==
    ASSUME BookInv, NEW k \in DOMAIN launches, Probe(k), Advances(k), Progress(k)
    PROVE  Progress(k)'
<1>0. launches[k].name \in Names
    BY Domain DEF BookInv, LaunchTypes
<1>n. PICK n \in Names : n = launches[k].name
    BY <1>0
<1>1. /\ logs \in [Names -> Seq(Entries)] /\ launches[k] \in LaunchTypes /\ k \in Nat
    BY Domain DEF BookInv, FileInv
<1>2. launches'[k] = [launches[k] EXCEPT !.done = @ + 1] /\ launches[k].done \in 0..3
    BY DEF Advances
<1>3. launches'[k].name = n /\ launches'[k].done = launches[k].done + 1
    BY <1>1, <1>2, <1>n DEF LaunchTypes
<1>4. ASSUME NEW e \in Events, Writes(e, k)
      PROVE  /\ [event |-> e, launch |-> k] \in Entries
             /\ logs'[n] = Append(logs[n], [event |-> e, launch |-> k])
    BY <1>1, <1>4, <1>n DEF Writes, Entries
<1>5. "load" \in Events /\ "cold" \in Events /\ "cached" \in Events
    BY DEF Events
<1>6. CASE launches[k].done = 0
  <2>1. launches'[k].done = 1
    BY <1>3, <1>6
  <2>2. QED
    BY <2>1 DEF Progress
<1>7. CASE launches[k].done = 1
  <2> DEFINE x == [event |-> "cold", launch |-> k]
  <2>1. x \in Entries /\ logs'[n] = Append(logs[n], x) /\ x.event # "load"
    BY <1>4, <1>5, <1>7, ProbeLogs
  <2>2. /\ Len(logs[n]) \in Nat /\ Generated(n) \subseteq 1..Len(logs[n])
        /\ logs'[n][Len(logs[n]) + 1] = x
        /\ Generated(n)' = Generated(n) \cup {Len(logs[n]) + 1}
    BY <1>1, <2>1, MoreLog
  <2>3. \A j \in Generated(n)' : j <= Len(logs[n]) + 1
    BY <2>2
  <2>4. ColdLast(n, k)'
    BY <2>2, <2>3 DEF ColdLast
  <2>5. launches'[k].done = 2
    BY <1>3, <1>7
  <2>6. QED
    BY <1>3, <2>4, <2>5 DEF Progress
<1>8. CASE launches[k].done = 2
  <2>1. logs'[n] = logs[n]
    BY <1>8, ProbeLogs
  <2>2. ColdLast(n, k)
    BY <1>8, <1>n DEF Progress
  <2>3. ColdLast(n, k)'
    BY <2>1, <2>2, SameLog
  <2>4. launches'[k].done = 3
    BY <1>3, <1>8
  <2>5. QED
    BY <1>3, <2>3, <2>4 DEF Progress
<1>9. CASE launches[k].done = 3
  <2> DEFINE x == [event |-> "cached", launch |-> k]
  <2>1. x \in Entries /\ logs'[n] = Append(logs[n], x) /\ x.event # "load"
    BY <1>4, <1>5, <1>9, ProbeLogs
  <2>2. /\ Len(logs[n]) \in Nat /\ Generated(n) \subseteq 1..Len(logs[n])
        /\ \A i \in 1..Len(logs[n]) : logs'[n][i] = logs[n][i]
        /\ logs'[n][Len(logs[n]) + 1] = x
        /\ Generated(n)' = Generated(n) \cup {Len(logs[n]) + 1}
    BY <1>1, <2>1, MoreLog
  <2>3. ColdLast(n, k)
    BY <1>9, <1>n DEF Progress
  <2>4. PICK c \in Generated(n) : /\ logs[n][c] = [event |-> "cold", launch |-> k]
                                  /\ \A j \in Generated(n) : j <= c
    BY <2>3 DEF ColdLast
  <2> DEFINE d == Len(logs[n]) + 1
  <2>5. /\ c \in Generated(n)' /\ d \in Generated(n)' /\ c < d
        /\ logs'[n][c] = [event |-> "cold", launch |-> k] /\ logs'[n][d] = x
    BY <2>2, <2>4
  <2>6. \A j \in Generated(n)' : j <= c \/ j = d
    BY <2>2, <2>4
  <2> HIDE DEF d
  <2>7. CompletedBy(n, k)'
    BY <2>5, <2>6 DEF CompletedBy
  <2>8. launches'[k].done = 4
    BY <1>3, <1>9
  <2>9. QED
    BY <1>3, <2>7, <2>8 DEF Progress
<1>10. QED
    BY <1>2, <1>6, <1>7, <1>8, <1>9

LEMMA SameProgress ==
    ASSUME NEW k, launches'[k].name = launches[k].name, launches'[k].done = launches[k].done,
           logs'[launches[k].name] = logs[launches[k].name], Progress(k)
    PROVE  Progress(k)'
<1>1. PICK n : n = launches[k].name
    OBVIOUS
<1>2. logs'[n] = logs[n]
    BY <1>1
<1>3. /\ ColdLast(n, k) => ColdLast(n, k)'
      /\ CompletedBy(n, k) => CompletedBy(n, k)'
    BY <1>2, SameLog
<1>4. /\ launches[k].done \in {2, 3} => ColdLast(n, k)
      /\ launches[k].done = 4 => CompletedBy(n, k)
    BY <1>1 DEF Progress
<1>5. launches'[k].name = n
    BY <1>1
<1>6. QED
    BY <1>3, <1>4, <1>5 DEF Progress

LEMMA OneOfANameNext ==
    ASSUME BookInv, VariantRunInv, OneOfAName, [Next]_vars
    PROVE  OneOfAName'
<1>0. Inv
    BY DEF BookInv
<1> SUFFICES ASSUME NEW j \in DOMAIN launches', NEW k \in DOMAIN launches', j # k,
                    Running(j)', Running(k)', launches'[j].name = launches'[k].name
             PROVE  FALSE
    BY DEF OneOfAName
<1>1. ASSUME NEW i \in DOMAIN launches', Running(i)', i \notin DOMAIN launches
      PROVE  /\ RunVariant /\ Variant(launches'[i].name)
             /\ \A l \in DOMAIN launches : launches'[l] = launches[l]
             /\ i = Len(launches) + 1
  <2>1. /\ launches'[i].name = Head(campaign.todo) /\ RunVariant /\ i = Len(launches) + 1
        /\ \A l \in DOMAIN launches : launches'[l] = launches[l]
    BY <1>0, <1>1, NewLaunch DEF Running
  <2>2. Variant(Head(campaign.todo))
    <3>1. campaign.kind = "ab" /\ campaign.at # "done" /\ campaign.todo # <<>>
        BY <2>1 DEF RunVariant
    <3>2. QED
        BY <3>1, HeadIsPlanned
  <2>3. PICK n : n = Head(campaign.todo)
    OBVIOUS
  <2>4. QED
    BY <2>1, <2>2
<1>2. ASSUME NEW i \in DOMAIN launches', Running(i)', i \notin DOMAIN launches,
             NEW l \in DOMAIN launches, Running(l)', launches'[l].name = launches'[i].name
      PROVE  FALSE
  <2>1. RunVariant /\ Variant(launches'[i].name) /\ launches'[l] = launches[l]
    BY <1>1, <1>2
  <2>2. Running(l) /\ Variant(launches[l].name)
    BY <1>2, <2>1 DEF Running
  <2>3. campaign.at = "run"
    BY <1>2, <2>2 DEF VariantRunInv, Running
  <2>4. QED
    BY <2>1, <2>3 DEF RunVariant
<1>3. CASE j \notin DOMAIN launches /\ k \notin DOMAIN launches
    BY <1>1, <1>3
<1>4. CASE j \in DOMAIN launches /\ k \in DOMAIN launches
  <2>1. launches[j].name = launches[k].name
    BY <1>0, <1>4, LaunchKept
  <2>2. CASE Running(j) /\ Running(k)
    BY <1>4, <2>1, <2>2 DEF OneOfAName
  <2>3. ASSUME NEW l \in DOMAIN launches, Running(l)', ~Running(l) PROVE Starts(l)
    <3>1. ~Endings
      <4> SUFFICES ASSUME Endings PROVE FALSE
        OBVIOUS
      <4>1. PICK K \in SUBSET DOMAIN launches, rc \in Nat : Ends(K, rc)
        BY DEF Endings
      <4>2. launches'[l] = launches[l] \/ launches'[l] = [launches[l] EXCEPT !.at = "ended", !.rc = rc]
        BY <2>3, <4>1 DEF Ends
      <4>3. launches'[l].at \in {launches[l].at, "ended"}
        BY <1>0, <2>3, <4>2, Domain DEF LaunchTypes
      <4>4. QED
        BY <2>3, <4>3 DEF Running
    <3>2. \A i \in DOMAIN launches : Starts(i) /\ i # l => launches'[l] = launches[l]
        BY <2>3 DEF Starts
    <3>3. \A i \in DOMAIN launches : Advances(i) => i # l /\ launches'[l] = launches[l]
        BY <2>3 DEF Advances
    <3>4. \A n, at : Begins(n, at) => launches'[l] = launches[l]
        BY <2>3 DEF Begins
    <3>5. launches'[l] # launches[l]
        BY <2>3 DEF Running
    <3>6. QED
        BY <1>0, <3>1, <3>2, <3>3, <3>4, <3>5, StepKinds
  <2>4. ASSUME NEW l \in DOMAIN launches, NEW i \in DOMAIN launches, l # i, Running(i)', Starts(l),
               launches[i].name = launches[l].name
        PROVE  FALSE
    <3>1. launches'[i] = launches[i]
        BY <2>4 DEF Starts
    <3>2. i \in Named(launches[l].name)
        BY <2>4, <3>1 DEF Named, Containers, Running
    <3>3. QED
        BY <2>4, <3>2 DEF Starts
  <2>5. QED
    BY <1>4, <2>1, <2>2, <2>3, <2>4
<1>5. QED
    BY <1>2, <1>3, <1>4

LEMMA RunsNext ==
    ASSUME BookInv, VariantRunInv, RunsInv, [Next]_vars
    PROVE  RunsInv'
<1>0. Inv /\ logs \in [Names -> Seq(Entries)] /\ OneOfAName
    BY DEF BookInv, FileInv, RunsInv
<1>1. OneOfAName'
    BY <1>0, OneOfANameNext
<1> SUFFICES ASSUME NEW k \in DOMAIN launches'
             PROVE  /\ launches'[k].at = "starting" => launches'[k].done = 0
                    /\ Running(k)' => Progress(k)'
    BY <1>1 DEF RunsInv
<1>2. CASE launches'[k].done = 0
    BY <1>2 DEF Progress
<1>3. CASE k \notin DOMAIN launches
    BY <1>0, <1>2, <1>3, NewLaunch
<1>4. CASE k \in DOMAIN launches
  <2>0. /\ launches[k].at = "starting" => launches[k].done = 0
        /\ Running(k) => Progress(k)
        /\ launches[k] \in LaunchTypes
    BY <1>0, <1>4, Domain DEF RunsInv
  <2>1. ASSUME launches'[k] = launches[k], logs'[launches[k].name] = logs[launches[k].name]
        PROVE  /\ launches'[k].at = "starting" => launches'[k].done = 0
               /\ Running(k)' => Progress(k)'
    BY <2>0, <2>1, SameProgress DEF Running
  <2>2. CASE Endings /\ UNCHANGED logs
    <3>1. PICK K \in SUBSET DOMAIN launches, rc \in Nat : Ends(K, rc)
        BY <2>2 DEF Endings
    <3>2. CASE k \in K
      <4>1. launches'[k] = [launches[k] EXCEPT !.at = "ended", !.rc = rc]
        BY <1>4, <3>1, <3>2 DEF Ends
      <4>2. launches'[k].at = "ended"
        BY <2>0, <4>1 DEF LaunchTypes
      <4>3. QED
        BY <4>2 DEF Running
    <3>3. CASE k \notin K
        BY <1>4, <2>1, <2>2, <3>1, <3>3 DEF Ends
    <3>4. QED
        BY <3>2, <3>3
  <2>3. ASSUME NEW j \in DOMAIN launches, Starts(j), UNCHANGED logs
        PROVE  /\ launches'[k].at = "starting" => launches'[k].done = 0
               /\ Running(k)' => Progress(k)'
    <3>1. CASE j = k
      <4>1. launches[k].at = "starting" /\ launches'[k] = [launches[k] EXCEPT !.at = "running"]
        BY <1>4, <2>3, <3>1 DEF Starts
      <4>2. launches'[k].done = 0
        BY <2>0, <4>1 DEF LaunchTypes
      <4>3. QED
        BY <1>2, <4>2
    <3>2. CASE j # k
        BY <1>4, <2>1, <2>3, <3>2 DEF Starts
    <3>3. QED
        BY <3>1, <3>2
  <2>4. ASSUME NEW j \in DOMAIN launches, Probe(j), Advances(j)
        PROVE  /\ launches'[k].at = "starting" => launches'[k].done = 0
               /\ Running(k)' => Progress(k)'
    <3>1. CASE j = k
      <4>1. Progress(k)'
        BY <2>0, <2>4, <3>1, ProgressGoesOn DEF Advances
      <4>2. launches'[k].at = "running"
        BY <1>4, <2>0, <2>4, <3>1 DEF Advances, LaunchTypes, Running
      <4>3. QED
        BY <4>1, <4>2
    <3>2. CASE j # k
      <4>1. launches'[k] = launches[k]
        BY <1>4, <2>4, <3>2 DEF Advances
      <4>2. CASE ~Running(k)
        BY <2>0, <4>1, <4>2 DEF Running
      <4>3. CASE Running(k)
        <5>1. launches[j].name # launches[k].name
            BY <1>0, <1>4, <2>4, <3>2, <4>3 DEF OneOfAName, Advances
        <5>2. logs'[launches[k].name] = logs[launches[k].name]
          <6>1. PICK n : n = launches[k].name
            OBVIOUS
          <6>2. logs'[n] = logs[n]
            BY <1>0, <2>4, <5>1, <6>1, OtherLog
          <6>3. QED
            BY <6>1, <6>2
        <5>3. QED
            BY <2>1, <4>1, <5>2
      <4>4. QED
        BY <4>2, <4>3
    <3>3. QED
        BY <3>1, <3>2
  <2>5. CASE RunNext /\ Begins(Head(campaign.todo), "starting") /\ UNCHANGED logs
    BY <1>4, <2>1, <2>5 DEF Begins
  <2>6. CASE RunVariant /\ Begins(Head(campaign.todo), "running")
    <3>1. launches'[k] = launches[k]
        BY <1>4, <2>6 DEF Begins
    <3>2. CASE ~Running(k)
        BY <2>0, <3>1, <3>2 DEF Running
    <3>3. CASE Running(k)
      <4>1. campaign.kind = "ab" /\ campaign.at = "next" /\ campaign.todo # <<>>
            /\ logs' = [logs EXCEPT ![Head(campaign.todo)] = <<>>]
        BY <2>6 DEF RunVariant
      <4>2. Variant(Head(campaign.todo))
        BY <4>1, HeadIsPlanned
      <4>3. launches[k].name # Head(campaign.todo)
        BY <1>4, <3>3, <4>1, <4>2 DEF VariantRunInv, Running
      <4>4. logs'[launches[k].name] = logs[launches[k].name]
        BY <1>0, <2>0, <4>1, <4>3 DEF LaunchTypes
      <4>5. QED
        BY <2>1, <3>1, <4>4
    <3>4. QED
        BY <3>2, <3>3
  <2>7. QED
    BY <1>0, <2>2, <2>3, <2>4, <2>5, <2>6, StepKinds
<1>5. QED
    BY <1>3, <1>4

\* Every launch of n has ended.
Quiet(n) == \A j \in DOMAIN launches : launches[j].name = n => launches[j].at = "ended"

\* Nothing writes to the telemetry of such a name until it is launched again.
LEMMA QuietLog ==
    ASSUME BookInv, [Next]_vars, NEW n, Quiet(n),
           (RunNext \/ RunVariant) => Head(campaign.todo) # n
    PROVE  Quiet(n)' /\ logs'[n] = logs[n]
<1>0. Inv /\ logs \in [Names -> Seq(Entries)]
    BY DEF BookInv, FileInv
<1>1. Quiet(n)'
  <2> SUFFICES ASSUME NEW j \in DOMAIN launches', launches'[j].name = n
               PROVE  launches'[j].at = "ended"
    BY DEF Quiet
  <2>1. j \in DOMAIN launches
    BY <1>0, NewLaunch
  <2>2. launches[j].at = "ended"
    BY <1>0, <2>1, LaunchKept DEF Quiet
  <2>3. QED
    BY <1>0, <2>1, <2>2, LaunchKept
<1>2. logs'[n] = logs[n]
  <2>1. ASSUME NEW k \in DOMAIN launches, Probe(k), Advances(k)
        PROVE  logs'[n] = logs[n]
    <3>1. launches[k].name # n
        BY <2>1 DEF Quiet, Advances, Running
    <3>2. QED
        BY <1>0, <2>1, <3>1, OtherLog
  <2>2. CASE RunVariant
    <3>1. logs' = [logs EXCEPT ![Head(campaign.todo)] = <<>>] /\ Head(campaign.todo) # n
        BY <2>2 DEF RunVariant
    <3>2. QED
        BY <1>0, <3>1
  <2>3. QED
    BY <1>0, <2>1, <2>2, StepKinds
<1>3. QED
    BY <1>1, <1>2

\* The launch of a matrix's guard that has ended well.
WellEndedInv ==
    campaign.kind = "matrix" /\ campaign.at = "run" /\ Own.at = "ended" /\ Own.rc = 0 =>
        Quiet(Own.name) /\ CompletedBy(Own.name, guard.launch)

LEMMA WellEndedNext ==
    ASSUME BookInv, CurrentInv, RunsInv, WellEndedInv, [Next]_vars
    PROVE  WellEndedInv'
<1>0. campaign \in CampaignValues /\ Inv
    BY CampaignFields DEF BookInv
<1> SUFFICES ASSUME campaign'.kind = "matrix", campaign'.at = "run", Own'.at = "ended", Own'.rc = 0
             PROVE  (Quiet(Own.name) /\ CompletedBy(Own.name, guard.launch))'
    BY DEF WellEndedInv
<1>1. CASE Keeps
  <2>1. campaign.kind = "matrix" /\ campaign.at = "run"
    BY <1>1 DEF Keeps
  <2>2. ~RunNext /\ ~RunVariant
    BY <2>1 DEF RunNext, RunVariant
  <2>3. guard.launch \in DOMAIN launches
    BY <2>1 DEF CurrentInv
  <2>4. guard'.launch = guard.launch
    BY <1>0, <2>2, GuardKinds
  <2>5. PICK k \in DOMAIN launches : k = guard.launch
    BY <2>3
  <2>6. PICK n : n = launches[k].name
    OBVIOUS
  <2>7. guard'.launch = k /\ launches'[k].name = n /\ launches'[k].at = "ended" /\ launches'[k].rc = 0
    BY <1>0, <2>4, <2>5, <2>6, LaunchKept DEF Own
  <2>8. CASE launches[k].at = "ended"
    <3>1. launches'[k] = launches[k]
        BY <1>0, <2>8, LaunchKept
    <3>2. Quiet(n) /\ CompletedBy(n, k)
        BY <2>1, <2>5, <2>6, <2>7, <2>8, <3>1 DEF WellEndedInv, Own
    <3>3. Quiet(n)' /\ logs'[n] = logs[n]
        BY <2>2, <3>2, QuietLog
    <3>4. CompletedBy(n, k)'
        BY <3>2, <3>3, SameLog
    <3>5. QED
        BY <2>7, <3>3, <3>4 DEF Own
  <2>9. CASE launches[k].at # "ended"
    <3>1. /\ Running(k) /\ launches[k].done = 4
          /\ \A j \in DOMAIN launches : j # k => launches'[j] = launches[j]
        BY <1>0, <2>7, <2>9, LaunchKept
    <3>2. CompletedBy(n, k)
        BY <2>6, <3>1 DEF RunsInv, Progress
    <3>3. UNCHANGED logs
      <4>1. ASSUME NEW j \in DOMAIN launches, Advances(j) PROVE FALSE
        <5>1. CASE j = k
          <6>1. launches'[k] = [launches[k] EXCEPT !.done = @ + 1] /\ launches[k] \in LaunchTypes
            BY <1>0, <4>1, <5>1, Domain DEF Advances
          <6>2. launches'[k].at = launches[k].at
            BY <6>1 DEF LaunchTypes
          <6>3. QED
            BY <2>7, <2>9, <6>2
        <5>2. CASE j # k
            BY <2>7, <2>9, <4>1, <5>2 DEF Advances
        <5>3. QED
            BY <5>1, <5>2
      <4>2. QED
        BY <1>0, <2>2, <4>1, StepKinds
    <3>4. Quiet(n)'
      <4> SUFFICES ASSUME NEW j \in DOMAIN launches', launches'[j].name = n, launches'[j].at # "ended"
                   PROVE  FALSE
        BY DEF Quiet
      <4>1. j \in DOMAIN launches /\ j # k
        BY <1>0, <2>2, <2>7, NewLaunch
      <4>2. launches[j].at # "ended" /\ launches[j].name = n
        BY <3>1, <4>1
      <4>3. launches[j].at # "starting"
        BY <1>0, <2>5, <4>1 DEF Inv, RecoverInv
      <4>4. Running(j)
        BY <1>0, <4>1, <4>2, <4>3, Domain DEF LaunchTypes, Running
      <4>5. QED
        BY <2>6, <3>1, <4>1, <4>2, <4>4 DEF RunsInv, OneOfAName
    <3>5. CompletedBy(n, k)'
        BY <3>2, <3>3, SameLog
    <3>6. QED
        BY <2>7, <3>4, <3>5 DEF Own
  <2>10. QED
    BY <2>8, <2>9
<1>2. CASE Begin
    BY <1>2 DEF Begin, NoCampaign
<1>3. CASE Pops
    BY <1>0, <1>3 DEF Pops, CampaignValues
<1>4. CASE Stops
    BY <1>0, <1>4 DEF Stops, CampaignValues
<1>5. CASE Turns
  <2>1. RunNext \/ RunVariant
    BY <1>5 DEF Turns
  <2>2. campaign' = [campaign EXCEPT !.at = "run"]
    BY <2>1 DEF RunNext, RunVariant
  <2>3. RunNext
    BY <1>0, <2>1, <2>2 DEF RunVariant, CampaignValues
  <2>4. guard'.launch = Len(launches) + 1
    BY <2>3 DEF RunNext, Launch, NoGuard
  <2>5. Own'.at = "starting"
    BY <1>0, <2>3, <2>4, RunNextBegins DEF Begins, Own
  <2>6. QED
    BY <2>5
<1>6. QED
    BY <1>0, <1>1, <1>2, <1>3, <1>4, <1>5, PlanKinds

\* A scenario that a matrix has done with.
Finished(n) ==
    Quiet(n) /\ \E k \in (campaign.from + 1)..Len(launches) : CompletedBy(n, k)

LEMMA FinishedKept ==
    ASSUME BookInv, [Next]_vars, NEW n, Finished(n), campaign'.from = campaign.from,
           (RunNext \/ RunVariant) => Head(campaign.todo) # n
    PROVE  Finished(n)'
<1>1. Quiet(n)' /\ logs'[n] = logs[n]
    BY QuietLog DEF Finished
<1>2. PICK k \in (campaign.from + 1)..Len(launches) : CompletedBy(n, k)
    BY DEF Finished
<1>3. CompletedBy(n, k)'
    BY <1>1, <1>2, SameLog
<1>4. k \in (campaign'.from + 1)..Len(launches')
    BY <1>2, LaunchesGrow, CampaignFields DEF BookInv
<1>5. QED
    BY <1>1, <1>3, <1>4 DEF Finished

\* The names that a matrix without --skip-existing has done with.
MatrixInv ==
    campaign.kind = "matrix" /\ ~campaign.skip =>
        /\ campaign.at = "done" /\ campaign.rc = 0 => campaign.todo = <<>>
        /\ campaign.at \in {"next", "run"} \/ (campaign.at = "done" /\ campaign.rc = 0) =>
              \A i \in DOMAIN campaign.names :
                  i <= Len(campaign.names) - Len(campaign.todo) => Finished(campaign.names[i])

\* No name comes twice.
LEMMA HeadIsNew ==
    ASSUME BookInv, campaign.at # "done", campaign.todo # <<>>, NEW i \in DOMAIN campaign.names,
           i <= Len(campaign.names) - Len(campaign.todo)
    PROVE  campaign.names[i] # Head(campaign.todo)
<1>0. Inv
    BY DEF BookInv
<1> DEFINE a == Len(campaign.names)  b == Len(campaign.todo)
<1>1. a \in Nat /\ b \in Nat /\ b >= 1 /\ b <= a /\ DOMAIN campaign.names = 1..a
      /\ DOMAIN campaign.todo = 1..b /\ Head(campaign.todo) = campaign.todo[1] /\ i <= a - b
    BY <1>0, CampaignFields, TodoTail DEF BookInv, PlanInv
<1>2. \A l \in DOMAIN campaign.todo : campaign.todo[l] = campaign.names[a - b + l]
    BY DEF BookInv, PlanInv
<1> HIDE DEF a, b
<1>3. 1 \in 1..b /\ a - b + 1 \in 1..a /\ i # a - b + 1
    BY <1>1
<1>4. Head(campaign.todo) = campaign.names[a - b + 1]
    BY <1>1, <1>2, <1>3
<1>5. PICK m \in DOMAIN config.campaigns :
          config.campaigns[m] = [kind |-> campaign.kind, names |-> campaign.names,
                                 skip |-> campaign.skip]
    BY DEF BookInv, PlanInv, Planned
<1>6. config.campaigns[m].names = campaign.names /\ config \in Configs
    BY <1>0, <1>5 DEF Inv, GuardInv
<1>7. \A l, o \in DOMAIN campaign.names : campaign.names[l] = campaign.names[o] => l = o
    BY <1>6, CampaignAssumption
<1>8. QED
    BY <1>1, <1>3, <1>4, <1>7

\* Which name comes next.
LEMMA HeadIsAt ==
    ASSUME BookInv, campaign.todo # <<>>, NEW i \in DOMAIN campaign.names,
           i <= Len(campaign.names) - Len(Tail(campaign.todo)),
           ~(i <= Len(campaign.names) - Len(campaign.todo))
    PROVE  campaign.names[i] = Head(campaign.todo)
<1>0. Inv
    BY DEF BookInv
<1> DEFINE a == Len(campaign.names)  b == Len(campaign.todo)  c == Len(Tail(campaign.todo))
<1>1. /\ a \in Nat /\ b \in Nat /\ b >= 1 /\ DOMAIN campaign.names = 1..a
      /\ DOMAIN campaign.todo = 1..b /\ Head(campaign.todo) = campaign.todo[1]
      /\ i <= a - c /\ ~(i <= a - b) /\ c = b - 1
    BY <1>0, CampaignFields, TodoTail
<1>2. \A l \in DOMAIN campaign.todo : campaign.todo[l] = campaign.names[a - b + l]
    BY DEF BookInv, PlanInv
<1> HIDE DEF a, b, c
<1>3. 1 \in 1..b /\ i = a - b + 1
    BY <1>1
<1>4. QED
    BY <1>1, <1>2, <1>3

LEMMA MatrixNext ==
    ASSUME BookInv, SuccessInv, CurrentInv, WellEndedInv, MatrixInv, [Next]_vars
    PROVE  MatrixInv'
<1>0. campaign \in CampaignValues /\ Inv /\ campaign.from \in Nat
    BY CampaignFields DEF BookInv
<1> SUFFICES ASSUME campaign'.kind = "matrix", ~campaign'.skip
             PROVE  /\ campaign'.at = "done" /\ campaign'.rc = 0 => campaign'.todo = <<>>
                    /\ campaign'.at \in {"next", "run"} \/ (campaign'.at = "done" /\ campaign'.rc = 0) =>
                          \A i \in DOMAIN campaign'.names :
                              i <= Len(campaign'.names) - Len(campaign'.todo) =>
                                  Finished(campaign.names[i])'
    BY DEF MatrixInv
<1>1. CASE Keeps
  <2>1. campaign' = campaign
    BY <1>1 DEF Keeps
  <2>2. ~RunNext /\ ~RunVariant
    BY <1>0, <2>1 DEF RunNext, RunVariant, CampaignValues
  <2>3. ASSUME NEW i \in DOMAIN campaign.names, Finished(campaign.names[i])
        PROVE  Finished(campaign.names[i])'
    <3>1. PICK n : n = campaign.names[i]
        OBVIOUS
    <3>2. Finished(n)
        BY <2>3, <3>1
    <3>3. Finished(n)'
        BY <2>1, <2>2, <3>2, FinishedKept
    <3>4. QED
        BY <2>1, <3>1, <3>3
  <2>4. QED
    BY <2>1, <2>3 DEF MatrixInv
<1>2. CASE Begin
  <2>1. campaign'.at = "next" /\ campaign'.todo = Head(rest).names /\ campaign'.names = Head(rest).names
        /\ rest # <<>>
    BY <1>2 DEF Begin, NoCampaign
  <2>2. rest \in Seq(Campaigns)
    BY <1>0 DEF Inv, CampaignInv
  <2>3. Head(rest).names \in Seq(Names)
    <3>1. Head(rest) \in Campaigns
        BY <2>1, <2>2
    <3>2. QED
        BY <3>1 DEF Campaigns
  <2>4. Len(campaign'.names) \in Nat /\ DOMAIN campaign'.names = 1..Len(campaign'.names)
    BY <2>1, <2>3, LenProperties
  <2>5. \A i \in DOMAIN campaign'.names : ~(i <= Len(campaign'.names) - Len(campaign'.todo))
    <3> DEFINE a == Len(campaign'.names)
    <3>1. a \in Nat /\ DOMAIN campaign'.names = 1..a /\ Len(campaign'.todo) = a
        BY <2>1, <2>4
    <3> HIDE DEF a
    <3>2. \A i \in 1..a : ~(i <= a - a)
        BY <3>1
    <3>3. QED
        BY <3>1, <3>2 DEF a
  <2>6. QED
    BY <2>1, <2>5
<1>3. CASE Turns
  <2>1. PICK at \in {"run", "stopping"} : campaign' = [campaign EXCEPT !.at = at]
    BY <1>3 DEF Turns
  <2>2. /\ campaign'.at = at /\ campaign'.kind = campaign.kind /\ campaign'.skip = campaign.skip
        /\ campaign'.names = campaign.names /\ campaign'.todo = campaign.todo
        /\ campaign'.from = campaign.from
    BY <1>0, <2>1 DEF CampaignValues
  <2>3. CASE at = "stopping"
    BY <2>2, <2>3
  <2>4. CASE at = "run"
    <3>1. (campaign.at = "next" /\ RunNext) \/ RunVariant
        BY <1>3, <2>2, <2>4 DEF Turns
    <3>2. RunNext /\ campaign.todo # <<>> /\ campaign.at = "next"
        BY <2>2, <3>1 DEF RunNext, RunVariant
    <3>3. ASSUME NEW i \in DOMAIN campaign.names,
                 i <= Len(campaign.names) - Len(campaign.todo)
          PROVE  Finished(campaign.names[i])'
      <4>1. PICK n : n = campaign.names[i]
        OBVIOUS
      <4>2. Finished(n)
        BY <2>2, <3>2, <3>3, <4>1 DEF MatrixInv
      <4>3. n # Head(campaign.todo)
        BY <3>2, <3>3, <4>1, HeadIsNew
      <4>4. Finished(n)'
        BY <2>2, <4>2, <4>3, FinishedKept
      <4>5. QED
        BY <2>2, <4>1, <4>4
    <3>4. QED
        BY <2>2, <2>4, <3>3
  <2>5. QED
    BY <2>3, <2>4
<1>4. CASE Pops
  <2>1. campaign.at \in {"next", "run"} /\ campaign.todo # <<>>
    BY <1>4 DEF Pops
  <2>2. /\ campaign'.at = "next" /\ campaign'.kind = campaign.kind /\ campaign'.skip = campaign.skip
        /\ campaign'.names = campaign.names /\ campaign'.todo = Tail(campaign.todo)
        /\ campaign'.from = campaign.from
    BY <1>0, <1>4 DEF Pops, CampaignValues
  <2>3. ~RunNext /\ ~RunVariant
    BY <1>0, <2>2 DEF RunNext, RunVariant, CampaignValues
  <2>4. MatrixReturn
    <3>1. UNCHANGED campaign => FALSE
      <4> DEFINE a == Len(Tail(campaign.todo))  b == Len(campaign.todo)
      <4>1. a = b - 1 /\ b \in Nat
        BY <1>0, <2>1, TodoTail, CampaignFields
      <4>2. Tail(campaign.todo) = campaign.todo => a = b
        OBVIOUS
      <4> HIDE DEF a, b
      <4>3. Tail(campaign.todo) # campaign.todo
        BY <4>1, <4>2
      <4>4. QED
        BY <2>2, <4>3
    <3>2. ~Begin /\ ~VariantKilled /\ ~Finish /\ ~CampaignInterrupt /\ ~CampaignStops /\ ~NsysReturn
          /\ ~VariantReturn
        BY <1>0, <2>1, <2>2 DEF Begin, VariantKilled, Finish, CampaignInterrupt,
           CampaignStops, NsysReturn, VariantReturn, Done, CampaignValues
    <3>3. ~Skip
        BY <2>2 DEF Skip, Skips
    <3>4. QED
        BY <2>3, <3>1, <3>2, <3>3 DEF Next, vars, campaignVars, Creates, Guards, Probe, ProbeEnds
  <2>5. campaign.at = "run" /\ guard.at = "off" /\ guard.rc = 0 /\ UNCHANGED launches
    <3>1. /\ campaign.at = "run" /\ guard.at = "off" /\ UNCHANGED launches
          /\ guard.rc # 0 => campaign' = Done(guard.rc)
        BY <2>4 DEF MatrixReturn, guardVars
    <3>2. campaign' # Done(guard.rc)
        BY <1>0, <2>2 DEF Done, CampaignValues
    <3>3. QED
        BY <3>1, <3>2
  <2>6. /\ guard.launch > campaign.from /\ guard.launch = Len(launches)
        /\ guard.launch \in DOMAIN launches /\ Own.name = Head(campaign.todo)
    BY <2>2, <2>5 DEF CurrentInv
  <2>7. Own.at = "ended" /\ Own.rc = 0
    <3>1. guard.launch # 0
        BY <1>0, <2>6, Domain
    <3>2. QED
        BY <2>5, <3>1 DEF SuccessInv
  <2>8. Finished(Head(campaign.todo))
    <3>1. Quiet(Own.name) /\ CompletedBy(Own.name, guard.launch)
        BY <2>2, <2>5, <2>7 DEF WellEndedInv
    <3>2. guard.launch \in (campaign.from + 1)..Len(launches)
        BY <1>0, <2>6, Domain
    <3>3. QED
        BY <2>6, <3>1, <3>2 DEF Finished
  <2>9. ASSUME NEW i \in DOMAIN campaign.names,
               i <= Len(campaign.names) - Len(Tail(campaign.todo))
        PROVE  Finished(campaign.names[i])'
    <3>1. PICK n : n = campaign.names[i]
        OBVIOUS
    <3>2. Finished(n)
      <4>1. CASE i <= Len(campaign.names) - Len(campaign.todo)
        BY <2>1, <2>2, <3>1, <4>1 DEF MatrixInv
      <4>2. CASE ~(i <= Len(campaign.names) - Len(campaign.todo))
        BY <2>1, <2>8, <2>9, <3>1, <4>2, HeadIsAt
      <4>3. QED
        BY <4>1, <4>2
    <3>3. Finished(n)'
        BY <2>2, <2>3, <3>2, FinishedKept
    <3>4. QED
        BY <2>2, <3>1, <3>3
  <2>10. QED
    BY <2>2, <2>9
<1>5. CASE Stops
  <2>1. campaign.at # "done"
    BY <1>5 DEF Stops
  <2>2. /\ campaign'.at = "done" /\ campaign'.kind = campaign.kind /\ campaign'.skip = campaign.skip
        /\ campaign'.names = campaign.names /\ campaign'.todo = campaign.todo
        /\ campaign'.from = campaign.from
    BY <1>0, <1>5 DEF Stops, CampaignValues
  <2>3. CASE campaign'.rc # 0
    BY <2>2, <2>3
  <2>4. CASE campaign'.rc = 0
    <3>1. Finish
      <4>1. ~NsysReturn /\ ~VariantReturn /\ ~VariantKilled
        BY <2>2 DEF NsysReturn, VariantReturn, VariantKilled
      <4>2. CampaignStops => campaign'.rc = 130
        BY <1>0 DEF CampaignStops, Done, CampaignValues
      <4>3. MatrixReturn => guard.rc # 0 /\ campaign'.rc = guard.rc
        BY <1>0, <2>2 DEF MatrixReturn, Done, CampaignValues
      <4>4. QED
        BY <1>0, <2>1, <2>2, <2>4, <4>1, <4>2, <4>3, StopKinds
    <3>2. campaign.at = "next" /\ campaign.todo = <<>>
        BY <3>1 DEF Finish
    <3>3. ~RunNext /\ ~RunVariant
        BY <3>2 DEF RunNext, RunVariant
    <3>4. ASSUME NEW i \in DOMAIN campaign.names,
                 i <= Len(campaign.names) - Len(campaign.todo)
          PROVE  Finished(campaign.names[i])'
      <4>1. PICK n : n = campaign.names[i]
        OBVIOUS
      <4>2. Finished(n)
        BY <2>2, <3>2, <3>4, <4>1 DEF MatrixInv
      <4>3. Finished(n)'
        BY <2>2, <3>3, <4>2, FinishedKept
      <4>4. QED
        BY <2>2, <4>1, <4>3
    <3>5. QED
        BY <2>2, <3>2, <3>4
  <2>5. QED
    BY <2>3, <2>4
<1>6. QED
    BY <1>0, <1>1, <1>2, <1>3, <1>4, <1>5, PlanKinds

LEMMA MatrixComplete ==
    ASSUME BookInv, MatrixInv
    PROVE  ZeroMeansComplete
<1> SUFFICES ASSUME campaign.kind = "matrix", campaign.at = "done", campaign.rc = 0, ~campaign.skip,
                    NEW i \in DOMAIN campaign.names
             PROVE  \E k \in (campaign.from + 1)..Len(launches), c, d \in Generated(campaign.names[i]) :
                        /\ logs[campaign.names[i]][c] = [event |-> "cold", launch |-> k]
                        /\ logs[campaign.names[i]][d] = [event |-> "cached", launch |-> k]
                        /\ c < d /\ \A j \in Generated(campaign.names[i]) : j <= c \/ j = d
    BY DEF ZeroMeansComplete
<1>1. campaign.todo = <<>>
    BY DEF MatrixInv
<1>2. i <= Len(campaign.names) - Len(campaign.todo)
  <2> DEFINE a == Len(campaign.names)
  <2>1. a \in Nat /\ i \in 1..a /\ Len(campaign.todo) = 0
    BY <1>1, CampaignFields DEF BookInv
  <2> HIDE DEF a
  <2>2. i <= a - 0
    BY <2>1
  <2>3. QED
    BY <2>1, <2>2 DEF a
<1>3. Finished(campaign.names[i])
    BY <1>2 DEF MatrixInv
<1>4. QED
    BY <1>3 DEF Finished, CompletedBy

DoneInv == OwnInv /\ RunsInv /\ WellEndedInv /\ MatrixInv

LEMMA DoneInit == Init => DoneInv
<1> SUFFICES ASSUME Init PROVE DoneInv
    OBVIOUS
<1>1. /\ campaign.kind = None /\ DOMAIN launches = {}
    BY DEF Init, GuardInit, NoCampaign
<1>2. campaign.kind # "matrix"
    BY <1>1, KindAssumption
<1>3. RunsInv /\ WellEndedInv /\ MatrixInv
    BY <1>1, <1>2 DEF RunsInv, OneOfAName, WellEndedInv, MatrixInv
<1>4. QED
    BY <1>3, OwnInit DEF DoneInv

LEMMA DoneNext == DoneInv /\ [Next]_vars => DoneInv'
<1> SUFFICES ASSUME DoneInv, [Next]_vars PROVE DoneInv'
    OBVIOUS
<1>1. OwnInv' /\ BookInv /\ SuccessInv /\ CurrentInv /\ VariantRunInv
    BY OwnNext DEF DoneInv, OwnInv
<1>2. RunsInv' /\ WellEndedInv' /\ MatrixInv'
    BY <1>1, RunsNext, WellEndedNext, MatrixNext DEF DoneInv
<1>3. QED
    BY <1>1, <1>2 DEF DoneInv

\* A matrix without --skip-existing that returns 0 has run each scenario to its end: the
\* last completions in the scenario's telemetry are the cold and the cached one of one
\* launch of this matrix, whatever was in the file before.
THEOREM MatrixIsComplete == Spec => []ZeroMeansComplete
<1>1. DoneInv => ZeroMeansComplete
    BY MatrixComplete DEF DoneInv, OwnInv
<1>2. QED
    BY <1>1, DoneInit, DoneNext, PTL DEF Spec

-----------------------------------------------------------------------------
(* A matrix that skips what exists *)

\* Until a guard dies, what has not ended is the launch of the guard at work.
Tended ==
    \A k \in DOMAIN launches : launches[k].at # "ended" =>
        k = guard.launch /\ guard.at \in {"poll", "kill", "wait"}

\* Telemetry of one launch, k.
Whole3 == <<"load", "cold", "cached">>
OfOneRun(s, k) ==
    Len(s) <= 3 /\ \A i \in DOMAIN s : s[i].event = Whole3[i] /\ s[i].launch = k

Written(done) == IF done <= 2 THEN done ELSE done - 1

OneRunInv == AlwaysSkips /\ faults = 0 =>
    /\ Tended
    /\ \A n \in Names : \E k \in Nat : OfOneRun(logs[n], k)
    /\ \A k \in DOMAIN launches : launches[k].at # "ended" =>
          OfOneRun(logs[launches[k].name], k)
          /\ Len(logs[launches[k].name]) = Written(launches[k].done)

LEMMA FaultsStay ==
    ASSUME Inv, [Next]_vars, faults' = 0
    PROVE  faults = 0 /\ ~GuardDies
<1>1. faults \in Nat
    BY ConfigAssumption DEF Inv, GuardInv
<1>2. ~GuardDies
    BY <1>1 DEF GuardDies
<1>3. faults' = faults \/ faults' = faults + 1
    BY DEF Next, vars, guardVars, Creates, Create, Guards, GuardStep, PollEnded, PollLow, PollTimeout,
       Kill, Wait, RecoverStep, RecoverFails, Grow, OutOfMemory, Probe, ProbeEnds, End, GuardDies,
       Begin, Skip, RunNext, Launch, RunVariant, MatrixReturn, NsysReturn, VariantReturn,
       VariantKilled, Finish, CampaignInterrupt, Interrupt, CampaignStops
<1>4. QED
    BY <1>1, <1>2, <1>3

LEMMA GuardStays ==
    ASSUME Inv, [Next]_vars, ~GuardDies, guard.at \in {"poll", "kill", "wait"}, Own.at # "ended"
    PROVE  guard'.launch = guard.launch /\ guard'.at \in {"poll", "kill", "wait"}
<1>0. guard \in GuardValues
    BY DEF Inv, GuardInv
<1>1. CASE UNCHANGED guard
    BY <1>1
<1>2. CASE PollEnded \/ PollLow \/ PollTimeout \/ Kill \/ Interrupt
    BY <1>0, <1>2 DEF PollEnded, PollLow, PollTimeout, Kill, Interrupt, GuardValues
<1>3. ~Wait /\ ~RecoverStep /\ ~RecoverFails /\ ~RunNext
    BY DEF Wait, RecoverStep, RecoverFails, RunNext, Launch
<1>4. UNCHANGED guard \/ PollEnded \/ PollLow \/ PollTimeout \/ Kill \/ Interrupt
    BY <1>3 DEF Next, vars, guardVars, Creates, Create, Guards, GuardStep, Grow, OutOfMemory, Probe,
       ProbeEnds, End, Begin, Skip, RunVariant, MatrixReturn, NsysReturn, VariantReturn,
       VariantKilled, Finish, CampaignInterrupt, CampaignStops
<1>5. QED
    BY <1>1, <1>2, <1>4

\* Where every campaign skips, nothing else is launched.
LEMMA OnlySkipping ==
    ASSUME BookInv, AlwaysSkips, campaign.at # "done"
    PROVE  campaign.kind = "matrix" /\ campaign.skip
<1>1. PICK i \in DOMAIN config.campaigns :
          config.campaigns[i] = [kind |-> campaign.kind, names |-> campaign.names,
                                 skip |-> campaign.skip]
    BY DEF BookInv, PlanInv, Planned
<1>2. config.campaigns[i].kind = campaign.kind /\ config.campaigns[i].skip = campaign.skip
    BY <1>1
<1>3. QED
    BY <1>2 DEF AlwaysSkips

LEMMA NoVariantRuns ==
    ASSUME BookInv, AlwaysSkips
    PROVE  ~RunVariant
    BY OnlySkipping DEF RunVariant

LEMMA TendedNext ==
    ASSUME BookInv, AlwaysSkips, Tended, [Next]_vars, ~GuardDies
    PROVE  Tended'
<1>0. Inv
    BY DEF BookInv
<1> SUFFICES ASSUME NEW k \in DOMAIN launches', launches'[k].at # "ended"
             PROVE  k = guard'.launch /\ guard'.at \in {"poll", "kill", "wait"}
    BY DEF Tended
<1>1. CASE k \in DOMAIN launches
  <2>1. k = guard.launch /\ guard.at \in {"poll", "kill", "wait"} /\ Own.at # "ended"
    BY <1>0, <1>1, LaunchKept DEF Tended, Own
  <2>2. QED
    BY <1>0, <2>1, GuardStays
<1>2. CASE k \notin DOMAIN launches
  <2>1. k = Len(launches) + 1 /\ RunNext
    BY <1>0, <1>2, NewLaunch, NoVariantRuns
  <2>2. guard'.launch = Len(launches) + 1 /\ guard'.at = "poll"
    BY <2>1 DEF RunNext, Launch, NoGuard
  <2>3. QED
    BY <2>1, <2>2
<1>3. QED
    BY <1>1, <1>2

\* One more event of the same run.
LEMMA OneRunGoesOn ==
    ASSUME NEW s \in Seq(Entries), NEW k \in Nat, OfOneRun(s, k), Len(s) <= 2,
           NEW e \in Events, e = Whole3[Len(s) + 1]
    PROVE  /\ OfOneRun(Append(s, [event |-> e, launch |-> k]), k)
           /\ Len(Append(s, [event |-> e, launch |-> k])) = Len(s) + 1
<1> DEFINE x == [event |-> e, launch |-> k]
<1>1. x \in Entries /\ x.event = e /\ x.launch = k
    BY DEF Entries
<1> HIDE DEF x
<1>2. /\ Len(s) \in Nat /\ DOMAIN s = 1..Len(s) /\ Len(Append(s, x)) = Len(s) + 1
      /\ DOMAIN Append(s, x) = 1..(Len(s) + 1)
      /\ \A i \in 1..Len(s) : Append(s, x)[i] = s[i]
      /\ Append(s, x)[Len(s) + 1] = x
    BY <1>1, OneMore
<1>3. \A i \in DOMAIN Append(s, x) : i \in DOMAIN s \/ i = Len(s) + 1
    BY <1>2
<1>4. Len(Append(s, x)) <= 3
    BY <1>2
<1>5. \A i \in DOMAIN Append(s, x) : Append(s, x)[i].event = Whole3[i] /\ Append(s, x)[i].launch = k
    BY <1>1, <1>2, <1>3 DEF OfOneRun
<1>6. QED
    BY <1>2, <1>4, <1>5 DEF OfOneRun, x

LEMMA OneRunProbe ==
    ASSUME BookInv, NEW k \in DOMAIN launches, Probe(k), Advances(k),
           NEW n \in Names, n = launches[k].name,
           OfOneRun(logs[n], k), Len(logs[n]) = Written(launches[k].done)
    PROVE  OfOneRun(logs'[n], k) /\ Len(logs'[n]) = Written(launches[k].done + 1)
<1>1. logs \in [Names -> Seq(Entries)] /\ k \in Nat /\ launches[k].done \in 0..3
    BY Domain DEF BookInv, FileInv, Advances
<1>2. logs[n] \in Seq(Entries)
    BY <1>1
<1>3. ASSUME NEW e \in Events, Writes(e, k)
      PROVE  logs'[n] = Append(logs[n], [event |-> e, launch |-> k])
    BY <1>1, <1>3 DEF Writes
<1>4. /\ Whole3[1] = "load" /\ Whole3[2] = "cold" /\ Whole3[3] = "cached"
      /\ "load" \in Events /\ "cold" \in Events /\ "cached" \in Events
    BY DEF Events, Whole3
<1>5. CASE launches[k].done = 0
  <2>1. Len(logs[n]) = 0 /\ Written(launches[k].done + 1) = 1
    BY <1>5 DEF Written
  <2>2. logs'[n] = Append(logs[n], [event |-> "load", launch |-> k])
    BY <1>3, <1>4, <1>5, ProbeLogs
  <2>3. "load" = Whole3[Len(logs[n]) + 1] /\ Len(logs[n]) <= 2 /\ Len(logs[n]) + 1 = 1
    BY <1>4, <2>1
  <2>4. QED
    BY <1>1, <1>2, <1>4, <2>1, <2>2, <2>3, OneRunGoesOn
<1>6. CASE launches[k].done = 1
  <2>1. Len(logs[n]) = 1 /\ Written(launches[k].done + 1) = 2
    BY <1>6 DEF Written
  <2>2. logs'[n] = Append(logs[n], [event |-> "cold", launch |-> k])
    BY <1>3, <1>4, <1>6, ProbeLogs
  <2>3. "cold" = Whole3[Len(logs[n]) + 1] /\ Len(logs[n]) <= 2 /\ Len(logs[n]) + 1 = 2
    BY <1>4, <2>1
  <2>4. QED
    BY <1>1, <1>2, <1>4, <2>1, <2>2, <2>3, OneRunGoesOn
<1>7. CASE launches[k].done = 2
  <2>1. Len(logs[n]) = 2 /\ Written(launches[k].done + 1) = 2
    BY <1>7 DEF Written
  <2>2. logs'[n] = logs[n]
    BY <1>7, ProbeLogs
  <2>3. QED
    BY <2>1, <2>2
<1>8. CASE launches[k].done = 3
  <2>1. Len(logs[n]) = 2 /\ Written(launches[k].done + 1) = 3
    BY <1>8 DEF Written
  <2>2. logs'[n] = Append(logs[n], [event |-> "cached", launch |-> k])
    BY <1>3, <1>4, <1>8, ProbeLogs
  <2>3. "cached" = Whole3[Len(logs[n]) + 1] /\ Len(logs[n]) <= 2 /\ Len(logs[n]) + 1 = 3
    BY <1>4, <2>1
  <2>4. QED
    BY <1>1, <1>2, <1>4, <2>1, <2>2, <2>3, OneRunGoesOn
<1>9. QED
    BY <1>1, <1>5, <1>6, <1>7, <1>8

\* The launch that runs, its telemetry, and that of every name.
Following(k) ==
    OfOneRun(logs[launches[k].name], k) /\ Len(logs[launches[k].name]) = Written(launches[k].done)

LEMMA OneRunParts ==
    OneRunInv <=> (AlwaysSkips /\ faults = 0 =>
        /\ Tended
        /\ \A n \in Names : \E k \in Nat : OfOneRun(logs[n], k)
        /\ \A k \in DOMAIN launches : launches[k].at # "ended" => Following(k))
    BY DEF OneRunInv, Following

\* Telemetry and launches that a step leaves as they are.
LEMMA FollowingStays ==
    ASSUME NEW k \in DOMAIN launches, Following(k), NEW n, n = launches[k].name,
           launches'[k].name = n, launches'[k].done = launches[k].done, logs'[n] = logs[n]
    PROVE  Following(k)'
    BY DEF Following

LEMMA OneRunWhileProbing ==
    ASSUME BookInv, Tended, NEW k \in DOMAIN launches, Probe(k), Advances(k),
           \A n \in Names : \E r \in Nat : OfOneRun(logs[n], r),
           \A j \in DOMAIN launches : launches[j].at # "ended" => Following(j)
    PROVE  /\ \A n \in Names : \E r \in Nat : OfOneRun(logs'[n], r)
           /\ \A j \in DOMAIN launches' : launches'[j].at # "ended" => Following(j)'
<1>1. PICK m \in Names : m = launches[k].name
    BY Domain DEF BookInv, LaunchTypes
<1>2. launches[k] \in LaunchTypes /\ k \in Nat /\ launches[k].at # "ended"
    BY Domain DEF BookInv, Advances, Running
<1>3. OfOneRun(logs[m], k) /\ Len(logs[m]) = Written(launches[k].done)
    BY <1>1, <1>2 DEF Following
<1>4. OfOneRun(logs'[m], k) /\ Len(logs'[m]) = Written(launches[k].done + 1)
    BY <1>1, <1>3, OneRunProbe
<1>5. \A n \in Names : n # m => logs'[n] = logs[n]
    BY <1>1, OtherLog DEF BookInv, FileInv
<1>6. \A n \in Names : \E r \in Nat : OfOneRun(logs'[n], r)
    BY <1>2, <1>4, <1>5
<1>7. launches'[k].name = m /\ launches'[k].done = launches[k].done + 1
    BY <1>1, <1>2 DEF Advances, LaunchTypes
<1>8. Following(k)'
    BY <1>4, <1>7 DEF Following
<1>9. \A j \in DOMAIN launches' : launches'[j].at # "ended" => j = k
  <2>1. \A j \in DOMAIN launches : j # k => launches'[j] = launches[j]
    BY DEF Advances
  <2>2. k = guard.launch
    BY <1>2 DEF Tended
  <2>3. \A j \in DOMAIN launches : launches[j].at # "ended" => j = guard.launch
    BY DEF Tended
  <2>4. DOMAIN launches' = DOMAIN launches
    BY DEF Advances
  <2>5. QED
    BY <2>1, <2>2, <2>3, <2>4
<1>10. QED
    BY <1>6, <1>8, <1>9

LEMMA OneRunBegins ==
    ASSUME BookInv, AlwaysSkips, Tended, RunNext, Begins(Head(campaign.todo), "starting"),
           UNCHANGED logs
    PROVE  \A j \in DOMAIN launches' : launches'[j].at # "ended" => Following(j)'
<1> SUFFICES ASSUME NEW j \in DOMAIN launches', launches'[j].at # "ended"
             PROVE  Following(j)'
    OBVIOUS
<1>1. PICK n \in Names : n = Head(campaign.todo)
    BY HeadIsName DEF BookInv, RunNext
<1>2. logs[n] = <<>>
  <2>1. campaign.kind = "matrix" /\ campaign.skip
    BY OnlySkipping DEF RunNext
  <2>2. QED
    BY <1>1, <2>1 DEF RunNext, Skips
<1>3. CASE j \in DOMAIN launches
    BY <1>3 DEF Begins, Tended, RunNext, Launch
<1>4. CASE j = Len(launches) + 1
  <2>1. launches'[j].name = n /\ launches'[j].done = 0
    BY <1>1, <1>4 DEF Begins
  <2>2. logs'[n] = <<>>
    BY <1>2
  <2>3. OfOneRun(logs'[n], j) /\ Len(logs'[n]) = Written(0)
    BY <2>2 DEF OfOneRun, Written
  <2>4. QED
    BY <2>1, <2>3 DEF Following
<1>5. QED
    BY <1>3, <1>4 DEF Begins

LEMMA OneRunEnds ==
    ASSUME BookInv, Endings \/ (\E k \in DOMAIN launches : Starts(k)), UNCHANGED logs,
           \A j \in DOMAIN launches : launches[j].at # "ended" => Following(j)
    PROVE  \A j \in DOMAIN launches' : launches'[j].at # "ended" => Following(j)'
<1> SUFFICES ASSUME NEW j \in DOMAIN launches', launches'[j].at # "ended"
             PROVE  Following(j)'
    OBVIOUS
<1>1. /\ j \in DOMAIN launches /\ launches[j].at # "ended"
      /\ launches'[j].name = launches[j].name /\ launches'[j].done = launches[j].done
  <2>1. CASE Endings
    <3>1. PICK K \in SUBSET DOMAIN launches, rc \in Nat : Ends(K, rc)
        BY <2>1 DEF Endings
    <3>2. j \in DOMAIN launches /\ launches[j] \in LaunchTypes
        BY <3>1, Domain DEF Ends, BookInv
    <3>3. j \notin K
        BY <3>1, <3>2 DEF Ends, LaunchTypes
    <3>4. QED
        BY <3>1, <3>2, <3>3 DEF Ends
  <2>2. CASE \E k \in DOMAIN launches : Starts(k)
    <3>1. PICK k \in DOMAIN launches : Starts(k)
        BY <2>2
    <3>2. j \in DOMAIN launches /\ launches[j] \in LaunchTypes
        BY <3>1, Domain DEF Starts, BookInv
    <3>3. CASE j = k
        BY <3>1, <3>2, <3>3 DEF Starts, LaunchTypes
    <3>4. CASE j # k
        BY <3>1, <3>2, <3>4 DEF Starts
    <3>5. QED
        BY <3>3, <3>4
  <2>3. QED
    BY <2>1, <2>2
<1>2. PICK n : n = launches[j].name
    OBVIOUS
<1>3. QED
    BY <1>1, <1>2, FollowingStays

LEMMA OneRunNext ==
    ASSUME BookInv, OneRunInv, [Next]_vars
    PROVE  OneRunInv'
<1>0. Inv
    BY DEF BookInv
<1>1. AlwaysSkips' <=> AlwaysSkips
    BY <1>0, StepKinds DEF AlwaysSkips
<1> SUFFICES ASSUME AlwaysSkips, faults' = 0
             PROVE  /\ Tended'
                    /\ \A n \in Names : \E k \in Nat : OfOneRun(logs'[n], k)
                    /\ \A k \in DOMAIN launches' : launches'[k].at # "ended" => Following(k)'
    BY <1>1 DEF OneRunInv, Following
<1>2. faults = 0 /\ ~GuardDies
    BY <1>0, FaultsStay
<1>3. /\ Tended
      /\ \A n \in Names : \E k \in Nat : OfOneRun(logs[n], k)
      /\ \A k \in DOMAIN launches : launches[k].at # "ended" => Following(k)
    BY <1>2, OneRunParts
<1>4. Tended'
    BY <1>2, <1>3, TendedNext
<1>5. CASE \E k \in DOMAIN launches : Probe(k) /\ Advances(k)
    BY <1>3, <1>4, <1>5, OneRunWhileProbing
<1>6. CASE RunNext /\ Begins(Head(campaign.todo), "starting") /\ UNCHANGED logs
    BY <1>3, <1>4, <1>6, OneRunBegins
<1>7. CASE (Endings \/ \E k \in DOMAIN launches : Starts(k)) /\ UNCHANGED logs
    BY <1>3, <1>4, <1>7, OneRunEnds
<1>8. QED
    BY <1>0, <1>5, <1>6, <1>7, NoVariantRuns, StepKinds

LEMMA OneRunInit == Init => OneRunInv
<1> SUFFICES ASSUME Init PROVE OneRunInv
    OBVIOUS
<1>1. DOMAIN launches = {} /\ logs = [n \in Names |-> <<>>]
    BY DEF Init, GuardInit
<1>2. OfOneRun(<<>>, 0)
    BY DEF OfOneRun
<1>3. QED
    BY <1>1, <1>2 DEF OneRunInv, Tended

\* Where the telemetry of one run has two completions, they are a cold and a cached one.
LEMMA TwoCompletions ==
    ASSUME BookInv, NEW n \in Names, NEW k \in Nat, OfOneRun(logs[n], k),
           NEW i \in Generated(n), NEW j \in Generated(n), i # j
    PROVE  /\ Row(n).first.event = "cold" /\ Row(n).cached.event = "cached"
           /\ Row(n).first.launch = k /\ Row(n).cached.launch = k
<1>1. logs[n] \in Seq(Entries)
    BY DEF BookInv, FileInv
<1>2. Len(logs[n]) \in Nat /\ DOMAIN logs[n] = 1..Len(logs[n]) /\ Len(logs[n]) <= 3
    BY <1>1, LenProperties DEF OfOneRun
<1>3. \A p \in DOMAIN logs[n] : logs[n][p].event = Whole3[p] /\ logs[n][p].launch = k
    BY DEF OfOneRun
<1>4. Whole3[1] = "load" /\ Whole3[2] = "cold" /\ Whole3[3] = "cached"
    BY DEF Whole3
<1>5. \A p \in Generated(n) : p \in DOMAIN logs[n] /\ p \in {2, 3}
  <2>1. \A p \in DOMAIN logs[n] : p \in {1, 2, 3}
    BY <1>2
  <2>2. QED
    BY <1>3, <1>4, <2>1 DEF Generated
<1>6. Generated(n) = {2, 3}
    BY <1>5
<1>7. First(Generated(n)) = 2
  <2>1. {2, 3} \in SUBSET Nat /\ {2, 3} # {}
    OBVIOUS
  <2>2. First({2, 3}) \in {2, 3} /\ First({2, 3}) <= 2
    BY <2>1, FirstIsLeast
  <2>3. First({2, 3}) = 2
    BY <2>2
  <2>4. QED
    BY <1>6, <2>3
<1>8. First(Generated(n) \ {First(Generated(n))}) = 3
  <2>1. Generated(n) \ {First(Generated(n))} = {3}
    BY <1>6, <1>7
  <2>2. {3} \in SUBSET Nat /\ {3} # {}
    OBVIOUS
  <2>3. First({3}) \in {3}
    BY <2>2, FirstIsLeast
  <2>4. QED
    BY <2>1, <2>3
<1>9. 2 \in DOMAIN logs[n] /\ 3 \in DOMAIN logs[n]
    BY <1>5, <1>6
<1>10. Row(n).first = logs[n][2] /\ Row(n).cached = logs[n][3]
    BY <1>7, <1>8 DEF Row
<1>11. QED
    BY <1>3, <1>4, <1>9, <1>10

\* With --skip-existing throughout, and as long as no guard dies, a row with two
\* completions (summarize_runtime_matrix.py) has the cold one first and the cached one
\* second, of one launch: a scenario is never run again over what is left of it.
THEOREM RowsAreOfOneRun == Spec => []RowsOfOneRun
<1>1. BookInv /\ OneRunInv => RowsOfOneRun
    BY OneRunParts, TwoCompletions DEF RowsOfOneRun
<1>2. Init => BookInv /\ OneRunInv
    BY BookInit, OneRunInit
<1>3. BookInv /\ OneRunInv /\ [Next]_vars => BookInv' /\ OneRunInv'
    BY BookNext, OneRunNext
<1>4. QED
    BY <1>1, <1>2, <1>3, PTL DEF Spec
=============================================================================
