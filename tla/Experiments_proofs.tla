-------------------------- MODULE Experiments_proofs --------------------------
(***************************************************************************)
(* What the guard's kill and its recovery of the driver leave behind, for  *)
(* any campaigns, any number of launches, and faults anywhere.             *)
(***************************************************************************)
EXTENDS Experiments, SequenceTheorems, TLAPS

Stages == {"off", "poll", "kill", "wait", "recover"}

LaunchTypes == [name : Names, at : {"starting", "running", "ended"}, rc : Nat \cup {None}, done : 0..4]

Shown(l) == l.rc = None <=> l.at # "ended"

GuardValues ==
    [at : Stages, launch : Nat, reason : {None, "memory", "timeout", "interrupt"},
     step : Nat, rc : Nat]

CampaignValues ==
    [kind : {"matrix", "nsys", "ab", None}, names : Seq(Names), skip : BOOLEAN,
     at : {"done", "next", "run", "stopping"}, todo : Seq(Names), from : Nat,
     rc : {campaign.rc}, rows : {campaign.rows}, stats : {campaign.stats}]

\* A guard that is at work has a launch.
GuardInv ==
    /\ config \in Configs
    /\ launches \in Seq(LaunchTypes)
    /\ \A k \in DOMAIN launches : Shown(launches[k])
    /\ guard \in GuardValues /\ guard.launch <= Len(launches)
    /\ guard.launch = 0 => guard = NoGuard
    /\ guard.at = "recover" => guard.step \in 1..5
    /\ driver \in [modules : SUBSET Whole.modules, daemon : BOOLEAN]
    /\ memory \in [large : SUBSET Nat, retained : BOOLEAN] /\ memory.large \subseteq Containers
    /\ faults \in 0..config.faults

CampaignInv ==
    /\ campaign \in CampaignValues /\ rest \in Seq(Campaigns)
    /\ campaign.at = "run" => campaign.todo # <<>>
    /\ guard.at # "off" => campaign.kind \in {"matrix", "nsys"} /\ campaign.at \in {"run", "stopping"}
    /\ config.retains =>
          /\ campaign.at # "done" => campaign.kind # "ab"
          /\ \A i \in DOMAIN rest : rest[i].kind # "ab"

\* A docker client that has yet to make its container is the guard's own; so nothing
\* can start while the driver is recovered, and what is unloaded is unused until
\* everything is loaded again.
RecoverInv ==
    /\ \A k \in DOMAIN launches : launches[k].at = "starting" =>
          k = guard.launch /\ guard.at \in {"poll", "kill", "wait"}
    /\ guard.at = "recover" =>
          /\ guard.step >= 2 => ~driver.daemon
          /\ guard.step >= 3 => Containers = {} /\ ~memory.retained
          /\ guard.step >= 5 => driver.modules = Whole.modules
    /\ memory.retained => config.retains

\* Until something fails: only the guard's container runs, and it has ended when the
\* guard goes on to wait; a client that is still starting meets no kill; what a kill
\* leaves with the driver is gone before the next launch.
Calm == faults = 0 /\ Recovers

Working(k) ==
    \/ k = guard.launch /\ guard.at \in {"poll", "kill"}
    \/ k = Len(launches) /\ campaign.kind = "ab" /\ campaign.at = "run"

CalmInv == Calm =>
    /\ \A k \in DOMAIN launches : Running(k) => Working(k)
    /\ guard.at = "kill" => Own.at # "starting"
    /\ guard.at = "wait" => Own.at = "ended"
    /\ guard.at # "recover" => driver = Whole
    /\ memory.retained =>
          /\ guard.at # "off" /\ Own.at = "ended"
          /\ guard.at = "recover" => guard.step <= 2

Inv == GuardInv /\ CampaignInv /\ RecoverInv /\ CalmInv

-----------------------------------------------------------------------------
(* Launches *)

LEMMA InitInv == Init => Inv
<1> SUFFICES ASSUME Init PROVE Inv
    OBVIOUS
<1>1. config \in Configs /\ config.faults \in Nat
    BY ConfigAssumption DEF Init, GuardInit
<1>2. launches = <<>> /\ launches \in Seq(LaunchTypes) /\ DOMAIN launches = {} /\ Len(launches) = 0
    BY DEF Init, GuardInit
<1>3. GuardInv
    BY <1>1, <1>2 DEF Init, GuardInit, GuardInv, GuardValues, NoGuard, Stages, Whole, Containers
<1>4. rest \in Seq(Campaigns) /\ (config.retains => \A i \in DOMAIN rest : rest[i].kind # "ab")
    BY <1>1, CampaignAssumption, VariantAssumption DEF Init
<1>5. campaign \in CampaignValues /\ campaign.at = "done"
  <2>1. <<>> \in Seq(Names)
    OBVIOUS
  <2>2. QED
    BY <2>1 DEF Init, NoCampaign, CampaignValues
<1>6. guard.at = "off"
    BY DEF Init, GuardInit, NoGuard
<1>7. CampaignInv
    BY <1>4, <1>5, <1>6 DEF CampaignInv
<1>8. RecoverInv /\ CalmInv
    BY <1>2, <1>6 DEF Init, GuardInit, RecoverInv, CalmInv
<1>9. QED
    BY <1>3, <1>7, <1>8 DEF Inv

\* One launch becomes v.
LEMMA OneLaunch ==
    ASSUME launches \in Seq(LaunchTypes), NEW k \in DOMAIN launches, NEW v \in LaunchTypes
    PROVE  /\ [launches EXCEPT ![k] = v] \in Seq(LaunchTypes)
           /\ Len([launches EXCEPT ![k] = v]) = Len(launches)
           /\ DOMAIN [launches EXCEPT ![k] = v] = DOMAIN launches
           /\ [launches EXCEPT ![k] = v][k] = v
           /\ \A j \in DOMAIN launches : j # k => [launches EXCEPT ![k] = v][j] = launches[j]
<1>1. DOMAIN launches = 1..Len(launches) /\ Len(launches) \in Nat
    BY LenProperties
<1>2. [launches EXCEPT ![k] = v] \in Seq(LaunchTypes)
      /\ Len([launches EXCEPT ![k] = v]) = Len(launches)
    BY <1>1, ExceptSeq
<1>3. QED
    BY <1>1, <1>2

LEMMA LaunchEnds ==
    ASSUME launches \in Seq(LaunchTypes), NEW k \in DOMAIN launches, NEW rc \in Nat
    PROVE  /\ Ended(k, rc) \in Seq(LaunchTypes) /\ Len(Ended(k, rc)) = Len(launches)
           /\ DOMAIN Ended(k, rc) = DOMAIN launches
           /\ Ended(k, rc)[k].at = "ended" /\ Ended(k, rc)[k].rc = rc
           /\ Ended(k, rc)[k].name = launches[k].name
           /\ Shown(Ended(k, rc)[k])
           /\ \A j \in DOMAIN launches : j # k => Ended(k, rc)[j] = launches[j]
<1> DEFINE v == [launches[k] EXCEPT !.at = "ended", !.rc = rc]
<1>1. launches[k] \in LaunchTypes
    BY LenProperties
<1>2. v \in LaunchTypes /\ v.at = "ended" /\ v.rc = rc /\ v.name = launches[k].name
    BY <1>1 DEF LaunchTypes
<1>3. Shown(v)
    BY <1>2, NoneAssumption DEF Shown
<1>4. Ended(k, rc) = [launches EXCEPT ![k] = v]
    BY DEF Ended
<1> HIDE DEF v
<1>5. QED
    BY <1>2, <1>3, <1>4, OneLaunch

\* Running containers end, and no other launch changes.
Ending(K) ==
    /\ launches' \in Seq(LaunchTypes) /\ Len(launches') = Len(launches)
    /\ DOMAIN launches' = DOMAIN launches
    /\ \A k \in DOMAIN launches :
          /\ Shown(launches'[k]) /\ launches'[k].name = launches[k].name
          /\ launches'[k].at = IF k \in K THEN "ended" ELSE launches[k].at

LEMMA KilledEnds ==
    ASSUME GuardInv, NEW K \in SUBSET Containers,
           launches' = [k \in DOMAIN launches |-> IF k \in K THEN Ended(k, 137)[k] ELSE launches[k]]
    PROVE  Ending(K)
<1>1. launches \in Seq(LaunchTypes) /\ \A k \in DOMAIN launches : Shown(launches[k])
    BY DEF GuardInv
<1>2. DOMAIN launches = 1..Len(launches) /\ Len(launches) \in Nat
    BY <1>1, LenProperties
<1>3. \A k \in DOMAIN launches : Ended(k, 137) \in Seq(LaunchTypes) /\ Ended(k, 137)[k].at = "ended"
          /\ Ended(k, 137)[k].name = launches[k].name /\ Shown(Ended(k, 137)[k])
          /\ DOMAIN Ended(k, 137) = DOMAIN launches
    BY <1>1, LaunchEnds
<1>4. \A k \in DOMAIN launches : Ended(k, 137)[k] \in LaunchTypes /\ launches[k] \in LaunchTypes
    BY <1>1, <1>3
<1>5. launches' \in [1..Len(launches) -> LaunchTypes]
    BY <1>2, <1>4
<1>6. launches' \in Seq(LaunchTypes) /\ Len(launches') = Len(launches)
    BY <1>2, <1>5
<1>7. QED
    BY <1>1, <1>2, <1>3, <1>6 DEF Ending

LEMMA OneEnds ==
    ASSUME GuardInv, NEW k \in Containers, NEW rc \in Nat, launches' = Ended(k, rc)
    PROVE  Ending({k})
<1>1. launches \in Seq(LaunchTypes) /\ k \in DOMAIN launches
      /\ \A j \in DOMAIN launches : Shown(launches[j])
    BY DEF GuardInv, Containers
<1>2. QED
    BY <1>1, LaunchEnds DEF Ending

\* The launch of a guard that is at work.
LEMMA OwnLaunch ==
    ASSUME GuardInv, guard.at # "off"
    PROVE  guard.launch \in DOMAIN launches /\ Own \in LaunchTypes
<1>1. launches \in Seq(LaunchTypes) /\ DOMAIN launches = 1..Len(launches) /\ Len(launches) \in Nat
  <2>1. launches \in Seq(LaunchTypes)
    BY DEF GuardInv
  <2>2. QED
    BY <2>1, LenProperties
<1>2. guard.launch \in Nat /\ guard.launch # 0 /\ guard.launch <= Len(launches)
    BY DEF GuardInv, GuardValues, NoGuard
<1>3. guard.launch \in DOMAIN launches
    BY <1>1, <1>2
<1>4. QED
    BY <1>1, <1>3 DEF Own

LEMMA RunningAfter ==
    ASSUME NEW K \in SUBSET Containers, Ending(K)
    PROVE  /\ Containers' = Containers \ K
           /\ \A k \in DOMAIN launches : Running(k)' => Running(k) /\ k \notin K
           /\ \A k \in DOMAIN launches : launches'[k].at = "starting" => launches[k].at = "starting"
           /\ \A k \in DOMAIN launches : launches[k].at = "ended" => launches'[k].at = "ended"
           /\ \A k \in DOMAIN launches : launches'[k].at = "starting" <=> launches[k].at = "starting"
    BY DEF Ending, Containers, Running

-----------------------------------------------------------------------------
(* Containers *)

\* What containers do by themselves or have done to them, while the guard and the
\* campaign stay where they are.
LEMMA ContainerSteps ==
    ASSUME Inv, NEW K \in SUBSET Containers, Ending(K),
           UNCHANGED <<config, guard, driver, faults, campaign, rest>>,
           memory' \in [large : SUBSET Nat, retained : BOOLEAN],
           memory'.large \subseteq Containers \ K,
           memory'.retained => memory.retained \/ (K # {} /\ config.retains)
    PROVE  Inv'
<1>1. Containers' = Containers \ K
    BY RunningAfter
<1>2. GuardInv'
  <2>1. /\ launches' \in Seq(LaunchTypes) /\ \A k \in DOMAIN launches' : Shown(launches'[k])
        /\ guard.launch <= Len(launches')
    BY DEF Ending, Inv, GuardInv
  <2>2. QED
    BY <1>1, <2>1 DEF Inv, GuardInv
<1>3. CampaignInv'
    BY DEF Inv, CampaignInv, CampaignValues
<1>4. RecoverInv'
  <2>1. \A k \in DOMAIN launches' : launches'[k].at = "starting" =>
            k = guard.launch /\ guard.at \in {"poll", "kill", "wait"}
    BY RunningAfter DEF Ending, Inv, RecoverInv
  <2>2. guard.at = "recover" /\ guard.step >= 3 => Containers' = {} /\ ~memory'.retained
    BY <1>1 DEF Inv, RecoverInv
  <2>3. QED
    BY <2>1, <2>2 DEF Inv, RecoverInv
<1>5. CalmInv'
  <2> SUFFICES ASSUME Calm'
               PROVE  /\ \A k \in DOMAIN launches' : Running(k)' => Working(k)'
                      /\ guard.at = "kill" => Own'.at # "starting"
                      /\ guard.at = "wait" => Own'.at = "ended"
                      /\ guard.at # "recover" => driver = Whole
                      /\ memory'.retained =>
                            /\ guard.at # "off" /\ Own'.at = "ended"
                            /\ guard.at = "recover" => guard.step <= 2
    BY DEF CalmInv
  <2>1. Calm
    BY DEF Calm, Recovers
  <2>2. \A k \in DOMAIN launches' : Running(k)' => Working(k)'
    BY <2>1, RunningAfter DEF Inv, CalmInv, Working, Ending
  <2>3. guard.at # "off" => guard.launch \in DOMAIN launches
    BY OwnLaunch DEF Inv
  <2>4. /\ guard.at = "kill" => Own'.at # "starting"
        /\ guard.at = "wait" => Own'.at = "ended"
    BY <2>1, <2>3, RunningAfter DEF Inv, CalmInv, Own
  <2>5. ASSUME K # {}, config.retains
        PROVE  guard.at \in {"poll", "kill"} /\ Own'.at = "ended"
    <3>1. PICK k \in K : TRUE
        BY <2>5
    <3>2. k \in DOMAIN launches /\ Running(k)
        BY DEF Containers
    <3>3. k = guard.launch /\ guard.at \in {"poll", "kill"}
        BY <2>1, <2>5, <3>2 DEF Inv, CalmInv, Working, CampaignInv
    <3>4. QED
        BY <3>2, <3>3 DEF Ending, Own
  <2>6. ASSUME memory.retained
        PROVE  /\ guard.at # "off" /\ Own'.at = "ended"
               /\ guard.at = "recover" => guard.step <= 2
    BY <2>1, <2>3, <2>6, RunningAfter DEF Inv, CalmInv, Own
  <2>7. QED
    BY <2>1, <2>2, <2>4, <2>5, <2>6 DEF Inv, CalmInv
<1>6. QED
    BY <1>2, <1>3, <1>4, <1>5 DEF Inv

LEMMA NothingEnds ==
    ASSUME GuardInv, UNCHANGED launches
    PROVE  Ending({})
    BY DEF GuardInv, Ending

LEMMA GrowInv ==
    ASSUME Inv, NEW k \in DOMAIN launches, Grow(k), UNCHANGED campaignVars
    PROVE  Inv'
<1>1. /\ k \in Containers /\ memory' = [memory EXCEPT !.large = @ \cup {k}]
      /\ UNCHANGED <<config, launches, guard, driver, faults, campaign, rest>>
    BY DEF Grow, Containers, campaignVars
<1>2. /\ memory \in [large : SUBSET Nat, retained : BOOLEAN] /\ memory.large \subseteq Containers
      /\ Ending({}) /\ k \in Nat
  <2>1. launches \in Seq(LaunchTypes) /\ GuardInv
    BY DEF Inv, GuardInv
  <2>2. k \in Nat
    BY <2>1, LenProperties
  <2>3. QED
    BY <1>1, <2>1, <2>2, NothingEnds DEF GuardInv
<1>3. /\ memory' \in [large : SUBSET Nat, retained : BOOLEAN]
      /\ memory'.large \subseteq Containers \ {} /\ memory'.retained = memory.retained
    BY <1>1, <1>2
<1>4. QED
    BY <1>1, <1>2, <1>3, ContainerSteps

LEMMA OutOfMemoryInv ==
    ASSUME Inv, NEW k \in DOMAIN launches, OutOfMemory(k), UNCHANGED campaignVars
    PROVE  Inv'
<1>1. /\ k \in memory.large /\ UNCHANGED <<config, guard, driver, faults, campaign, rest>>
      /\ launches' = [j \in DOMAIN launches |-> IF j \in {k} THEN Ended(j, 137)[j] ELSE launches[j]]
      /\ memory' = [large |-> memory.large \ {k},
                    retained |-> memory.retained \/ ({k} # {} /\ config.retains)]
    BY DEF OutOfMemory, Killed, campaignVars
<1>2. /\ memory \in [large : SUBSET Nat, retained : BOOLEAN] /\ memory.large \subseteq Containers
      /\ GuardInv /\ config \in Configs
    BY DEF Inv, GuardInv
<1>3. Ending({k})
    BY <1>1, <1>2, KilledEnds
<1>4. config.retains \in BOOLEAN
    BY <1>2, ConfigAssumption
<1>5. /\ memory' \in [large : SUBSET Nat, retained : BOOLEAN]
      /\ memory'.large \subseteq Containers \ {k}
      /\ memory'.retained => memory.retained \/ ({k} # {} /\ config.retains)
    BY <1>1, <1>2, <1>4
<1>6. QED
    BY <1>1, <1>2, <1>3, <1>5, ContainerSteps

LEMMA ProbeEndsInv ==
    ASSUME Inv, NEW k \in DOMAIN launches, NEW rc \in Nat, ProbeEnds(k, rc)
    PROVE  Inv'
<1>1. /\ k \in Containers /\ UNCHANGED <<config, guard, driver, faults, campaign, rest>>
      /\ launches' = Ended(k, rc) /\ memory' = [memory EXCEPT !.large = @ \ {k}]
    BY DEF ProbeEnds, End, Containers
<1>2. /\ memory \in [large : SUBSET Nat, retained : BOOLEAN] /\ memory.large \subseteq Containers
      /\ GuardInv
    BY DEF Inv, GuardInv
<1>3. Ending({k})
    BY <1>1, <1>2, OneEnds
<1>4. /\ memory' \in [large : SUBSET Nat, retained : BOOLEAN]
      /\ memory'.large \subseteq Containers \ {k} /\ memory'.retained = memory.retained
    BY <1>1, <1>2
<1>5. QED
    BY <1>1, <1>3, <1>4, ContainerSteps

LEMMA ProbeInv ==
    ASSUME Inv, NEW k \in DOMAIN launches, Probe(k)
    PROVE  Inv'
<1>1. /\ launches[k].done < Len(ProbeSteps)
      /\ launches' = [launches EXCEPT ![k].done = @ + 1]
      /\ UNCHANGED <<config, guard, driver, memory, faults, campaign, rest>>
    BY DEF Probe
<1>2. /\ launches \in Seq(LaunchTypes) /\ \A j \in DOMAIN launches : Shown(launches[j])
      /\ memory \in [large : SUBSET Nat, retained : BOOLEAN] /\ memory.large \subseteq Containers
    BY DEF Inv, GuardInv
<1> DEFINE v == [launches[k] EXCEPT !.done = @ + 1]
<1>3. launches[k] \in LaunchTypes /\ Len(ProbeSteps) = 4
    BY <1>2, LenProperties DEF ProbeSteps
<1>4. v \in LaunchTypes /\ v.at = launches[k].at /\ v.rc = launches[k].rc /\ v.name = launches[k].name
    BY <1>1, <1>3 DEF LaunchTypes
<1>5. launches' = [launches EXCEPT ![k] = v] /\ Shown(v)
    BY <1>1, <1>2, <1>4 DEF Shown
<1> HIDE DEF v
<1>6. Ending({})
    BY <1>2, <1>4, <1>5, OneLaunch DEF Ending
<1>7. QED
    BY <1>1, <1>2, <1>6, ContainerSteps

\* The container is made, or docker fails.
LEMMA CreateDoes ==
    ASSUME GuardInv, NEW k \in DOMAIN launches, Create(k)
    PROVE  /\ launches[k].at = "starting" /\ UNCHANGED <<config, guard, driver, memory, faults>>
           /\ launches' \in Seq(LaunchTypes) /\ Len(launches') = Len(launches)
           /\ DOMAIN launches' = DOMAIN launches
           /\ \A j \in DOMAIN launches : Shown(launches'[j]) /\ (j # k => launches'[j] = launches[j])
           /\ launches'[k].at \in {"running", "ended"}
           /\ Named(launches[k].name) = {} /\ driver.modules = Whole.modules
                 => launches'[k].at = "running"
<1>1. launches \in Seq(LaunchTypes) /\ \A j \in DOMAIN launches : Shown(launches[j])
    BY DEF GuardInv
<1>2. launches[k].at = "starting" /\ UNCHANGED <<config, guard, driver, memory, faults>>
    BY DEF Create
<1>3. CASE Named(launches[k].name) = {} /\ driver.modules = Whole.modules
  <2> DEFINE v == [launches[k] EXCEPT !.at = "running"]
  <2>1. launches[k] \in LaunchTypes
    BY <1>1, LenProperties
  <2>2. v \in LaunchTypes /\ v.at = "running" /\ v.rc = launches[k].rc
    BY <2>1 DEF LaunchTypes
  <2>3. launches' = [launches EXCEPT ![k] = v] /\ Shown(v)
    BY <1>1, <1>2, <1>3, <2>2 DEF Create, Shown
  <2> HIDE DEF v
  <2>4. QED
    BY <1>1, <1>2, <2>2, <2>3, OneLaunch
<1>4. CASE ~(Named(launches[k].name) = {} /\ driver.modules = Whole.modules)
  <2>1. launches' = Ended(k, 125)
    BY <1>4 DEF Create
  <2>2. QED
    BY <1>1, <1>2, <1>4, <2>1, LaunchEnds
<1>5. QED
    BY <1>3, <1>4

LEMMA CreateInv ==
    ASSUME Inv, NEW k \in DOMAIN launches, Create(k), UNCHANGED campaignVars
    PROVE  Inv'
<1>1. /\ launches[k].at = "starting" /\ UNCHANGED <<config, guard, driver, memory, faults>>
      /\ launches' \in Seq(LaunchTypes) /\ Len(launches') = Len(launches)
      /\ DOMAIN launches' = DOMAIN launches
      /\ \A j \in DOMAIN launches : Shown(launches'[j]) /\ (j # k => launches'[j] = launches[j])
      /\ launches'[k].at \in {"running", "ended"}
    BY CreateDoes DEF Inv
<1>2. k = guard.launch /\ guard.at \in {"poll", "kill", "wait"}
    BY <1>1 DEF Inv, RecoverInv
<1>3. Containers \subseteq Containers'
    BY <1>1 DEF Containers, Running
<1>4. GuardInv'
    BY <1>1, <1>3 DEF Inv, GuardInv
<1>5. CampaignInv'
    BY <1>1 DEF Inv, CampaignInv, CampaignValues, campaignVars
<1>6. RecoverInv'
    BY <1>1, <1>2 DEF Inv, RecoverInv
<1>7. CalmInv'
  <2>1. Calm' => Calm
    BY <1>1 DEF Calm, Recovers
  <2>2. Calm => guard.at = "poll" /\ ~memory.retained
    BY <1>1, <1>2 DEF Inv, CalmInv, Own
  <2>3. \A j \in DOMAIN launches : j # k => Running(j)' = Running(j) /\ Working(j)' = Working(j)
    BY <1>1 DEF Running, Working, campaignVars
  <2>4. QED
    BY <1>1, <1>2, <2>1, <2>2, <2>3 DEF Inv, CalmInv, Working
<1>8. QED
    BY <1>4, <1>5, <1>6, <1>7 DEF Inv
-----------------------------------------------------------------------------
(* The guard *)

\* While a guard is at work and nothing has failed, only its own container runs.
LEMMA OnlyOwn ==
    ASSUME Inv, Calm, guard.at # "off"
    PROVE  /\ \A k \in Containers : k = guard.launch /\ guard.at \in {"poll", "kill"}
           /\ guard.at \notin {"poll", "kill"} => Containers = {}
<1>1. campaign.kind # "ab"
    BY DEF Inv, CampaignInv
<1>2. QED
    BY <1>1 DEF Inv, CalmInv, Working, Containers

\* The guard goes on and touches nothing else.
LEMMA GuardMoves ==
    ASSUME Inv, guard.at # "off", UNCHANGED <<config, launches, driver, memory, faults, campaign, rest>>,
           guard' \in GuardValues, guard'.launch = guard.launch, guard'.at # "off",
           guard'.at = "recover" => guard'.step = 1
    PROVE  GuardInv' /\ CampaignInv'
<1>1. guard.launch # 0
    BY DEF Inv, GuardInv, NoGuard
<1>2. Containers' = Containers
    BY DEF Containers, Running
<1>3. GuardInv'
    BY <1>1, <1>2 DEF Inv, GuardInv
<1>4. CampaignInv'
    BY DEF Inv, CampaignInv, CampaignValues
<1>5. QED
    BY <1>3, <1>4

LEMMA PollEndedInv ==
    ASSUME Inv, PollEnded, UNCHANGED campaignVars
    PROVE  Inv'
<1>1. /\ guard.at = "poll" /\ Own.at = "ended" /\ guard' = [guard EXCEPT !.at = "wait"]
      /\ UNCHANGED <<config, launches, driver, memory, faults, campaign, rest>>
    BY DEF PollEnded, campaignVars
<1>2. guard' \in GuardValues /\ guard'.at = "wait" /\ guard'.launch = guard.launch
    BY <1>1 DEF Inv, GuardInv, GuardValues, Stages
<1>3. GuardInv' /\ CampaignInv'
    BY <1>1, <1>2, GuardMoves
<1>4. RecoverInv'
    BY <1>1, <1>2 DEF Inv, RecoverInv
<1>5. CalmInv'
  <2>1. Calm' => Calm
    BY <1>1 DEF Calm, Recovers
  <2>2. Own' = Own
    BY <1>1, <1>2 DEF Own
  <2>3. Calm => \A k \in DOMAIN launches : ~Running(k)
    BY <1>1, OnlyOwn DEF Containers, Running, Own
  <2>4. QED
    BY <1>1, <1>2, <2>1, <2>2, <2>3 DEF Inv, CalmInv, Running
<1>6. QED
    BY <1>3, <1>4, <1>5 DEF Inv

LEMMA DecidesInv ==
    ASSUME Inv, guard.at = "poll", Calm => Own.at # "starting",
           NEW r \in {"memory", "timeout"}, guard' = [guard EXCEPT !.at = "kill", !.reason = r],
           UNCHANGED <<config, launches, driver, memory, faults>>, UNCHANGED campaignVars
    PROVE  Inv'
<1>1. UNCHANGED <<config, launches, driver, memory, faults, campaign, rest>>
    BY DEF campaignVars
<1>2. guard' \in GuardValues /\ guard'.at = "kill" /\ guard'.launch = guard.launch
    BY DEF Inv, GuardInv, GuardValues, Stages
<1>3. GuardInv' /\ CampaignInv'
    BY <1>1, <1>2, GuardMoves
<1>4. RecoverInv'
    BY <1>1, <1>2 DEF Inv, RecoverInv
<1>5. CalmInv'
  <2>1. Calm' => Calm
    BY <1>1 DEF Calm, Recovers
  <2>2. Own' = Own
    BY <1>1, <1>2 DEF Own
  <2>3. \A k \in DOMAIN launches : Running(k)' = Running(k) /\ (Working(k) => Working(k)')
    BY <1>1, <1>2 DEF Running, Working
  <2>4. QED
    BY <1>1, <1>2, <2>1, <2>2, <2>3 DEF Inv, CalmInv
<1>6. QED
    BY <1>3, <1>4, <1>5 DEF Inv

\* What takes much memory is a container that runs, and what is retained is of one
\* that has ended: a client that is still starting meets neither.
LEMMA PollLowInv ==
    ASSUME Inv, PollLow, UNCHANGED campaignVars
    PROVE  Inv'
<1>1. /\ guard.at = "poll" /\ Own.at # "ended" /\ SeesLow
      /\ guard' = [guard EXCEPT !.at = "kill", !.reason = "memory"]
      /\ UNCHANGED <<config, launches, driver, memory, faults>>
    BY DEF PollLow
<1>2. ASSUME Calm PROVE Own.at # "starting"
  <2>1. ~memory.retained
    BY <1>1, <1>2 DEF Inv, CalmInv
  <2>2. PICK k \in memory.large : TRUE
    BY <1>1, <2>1 DEF SeesLow, Low
  <2>3. k \in Containers
    BY <2>2 DEF Inv, GuardInv
  <2>4. k = guard.launch
    BY <1>1, <1>2, <2>3, OnlyOwn
  <2>5. QED
    BY <2>3, <2>4 DEF Containers, Running, Own
<1>3. QED
    BY <1>1, <1>2, DecidesInv

LEMMA PollTimeoutInv ==
    ASSUME Inv, PollTimeout, UNCHANGED campaignVars
    PROVE  Inv'
<1>1. /\ guard.at = "poll" /\ Own.at # "starting"
      /\ guard' = [guard EXCEPT !.at = "kill", !.reason = "timeout"]
      /\ UNCHANGED <<config, launches, driver, memory, faults>>
    BY DEF PollTimeout
<1>2. QED
    BY <1>1, DecidesInv

\* Until something fails, the container that the guard kills is the one of its name.
LEMMA KillInv ==
    ASSUME Inv, Kill, UNCHANGED campaignVars
    PROVE  Inv'
<1> DEFINE K == Named(Own.name)
<1>1. /\ guard.at = "kill" /\ guard' = [guard EXCEPT !.at = "wait"]
      /\ launches' = [k \in DOMAIN launches |-> IF k \in K THEN Ended(k, 137)[k] ELSE launches[k]]
      /\ memory' = [large |-> memory.large \ K,
                    retained |-> memory.retained \/ (K # {} /\ config.retains)]
      /\ UNCHANGED <<config, driver, faults, campaign, rest>>
    BY DEF Kill, Killed, campaignVars
<1>2. K \subseteq Containers /\ \A k \in Containers : launches[k].name = Own.name => k \in K
    BY DEF Named
<1> HIDE DEF K
<1>3. /\ memory \in [large : SUBSET Nat, retained : BOOLEAN] /\ memory.large \subseteq Containers
      /\ GuardInv /\ config \in Configs /\ guard.launch # 0
    BY <1>1 DEF Inv, GuardInv, NoGuard
<1>4. Ending(K)
    BY <1>1, <1>2, <1>3, KilledEnds
<1>5. config.retains \in BOOLEAN
    BY <1>3, ConfigAssumption
<1>6. /\ memory' \in [large : SUBSET Nat, retained : BOOLEAN]
      /\ memory'.large \subseteq Containers \ K
      /\ memory'.retained => memory.retained \/ config.retains
    BY <1>1, <1>3, <1>5
<1>7. guard' \in GuardValues /\ guard'.at = "wait" /\ guard'.launch = guard.launch
    BY <1>1 DEF Inv, GuardInv, GuardValues, Stages
<1>8. Containers' = Containers \ K
    BY <1>2, <1>4, RunningAfter
<1>9. GuardInv'
  <2>1. /\ launches' \in Seq(LaunchTypes) /\ \A k \in DOMAIN launches' : Shown(launches'[k])
        /\ guard'.launch <= Len(launches')
    BY <1>4, <1>7 DEF Ending, Inv, GuardInv
  <2>2. QED
    BY <1>1, <1>3, <1>6, <1>7, <1>8, <2>1 DEF Inv, GuardInv
<1>10. CampaignInv'
    BY <1>1, <1>7 DEF Inv, CampaignInv, CampaignValues
<1>11. RecoverInv'
  <2>1. \A k \in DOMAIN launches' : launches'[k].at = "starting" => k = guard'.launch
    BY <1>1, <1>2, <1>4, <1>7, RunningAfter DEF Ending, Inv, RecoverInv
  <2>2. QED
    BY <1>1, <1>6, <1>7, <2>1 DEF Inv, RecoverInv
<1>12. CalmInv'
  <2> SUFFICES ASSUME Calm'
               PROVE  /\ \A k \in DOMAIN launches' : ~Running(k)'
                      /\ Own'.at = "ended" /\ driver' = Whole
    BY <1>7 DEF CalmInv
  <2>1. Calm
    BY <1>1 DEF Calm, Recovers
  <2>2. guard.launch \in DOMAIN launches /\ Own' = launches'[guard.launch]
    BY <1>1, <1>3, <1>7, OwnLaunch DEF Own
  <2>3. Own.at # "starting" /\ driver = Whole
    BY <1>1, <2>1 DEF Inv, CalmInv
  <2>4. Containers \subseteq K
    BY <1>1, <1>2, <2>1, OnlyOwn DEF Own
  <2>5. \A k \in DOMAIN launches' : ~Running(k)'
    BY <1>2, <1>8, <2>4 DEF Containers
  <2>6. Own'.at = "ended"
    <3>1. guard.launch \notin K => Own.at = "ended"
      <4>1. Own.at \in {"starting", "running", "ended"}
        BY <1>1, <1>3, OwnLaunch DEF LaunchTypes
      <4>2. guard.launch \notin K => Own.at # "running"
        BY <2>2, <2>4 DEF Containers, Running, Own
      <4>3. QED
        BY <2>3, <4>1, <4>2
    <3>2. QED
        BY <1>4, <2>2, <3>1 DEF Ending, Own
  <2>7. QED
    BY <1>1, <2>3, <2>5, <2>6
<1>13. QED
    BY <1>9, <1>10, <1>11, <1>12 DEF Inv
LEMMA WaitInv ==
    ASSUME Inv, Wait, UNCHANGED campaignVars
    PROVE  Inv'
<1>1. /\ guard.at = "wait" /\ Own.at = "ended"
      /\ guard' = [guard EXCEPT !.at = IF config.recover THEN "recover" ELSE "off",
                                !.step = 1, !.rc = ReturnCode]
      /\ UNCHANGED <<config, launches, driver, memory, faults, campaign, rest>>
    BY DEF Wait, campaignVars
<1>2. guard.launch \in DOMAIN launches /\ Own \in LaunchTypes /\ Shown(Own)
    BY <1>1, OwnLaunch DEF Inv, GuardInv, Own
<1>3. ReturnCode \in Nat
    BY <1>1, <1>2 DEF ReturnCode, Shown, LaunchTypes
<1>4. /\ guard' \in GuardValues /\ guard'.launch = guard.launch /\ guard'.step = 1
      /\ guard'.at = IF config.recover THEN "recover" ELSE "off"
    BY <1>1, <1>3 DEF Inv, GuardInv, GuardValues, Stages
<1>5. guard.launch # 0 /\ Containers' = Containers
    BY <1>1 DEF Inv, GuardInv, NoGuard, Containers, Running
<1>6. GuardInv'
    BY <1>1, <1>4, <1>5 DEF Inv, GuardInv
<1>7. CampaignInv'
    BY <1>1, <1>4 DEF Inv, CampaignInv, CampaignValues
<1>8. RecoverInv'
    BY <1>1, <1>4 DEF Inv, RecoverInv, Own
<1>9. CalmInv'
  <2>1. Calm' => Calm
    BY <1>1 DEF Calm, Recovers
  <2>2. Calm => \A k \in DOMAIN launches : ~Running(k)
    BY <1>1, OnlyOwn DEF Containers
  <2>3. Calm /\ memory.retained => guard'.at = "recover"
    BY <1>4 DEF Inv, RecoverInv, Calm, Recovers
  <2>4. Own' = Own
    BY <1>1, <1>4 DEF Own
  <2>5. QED
    BY <1>1, <1>4, <2>1, <2>2, <2>3, <2>4 DEF Inv, CalmInv, Running
<1>10. QED
    BY <1>6, <1>7, <1>8, <1>9 DEF Inv

\* What a command leaves behind, by its place among the commands.
LEMMA CommandDoes ==
    ASSUME GuardInv, guard.at = "recover", RecoverStep
    PROVE  /\ UNCHANGED <<config, launches, faults>>
           /\ guard' \in GuardValues /\ guard'.launch = guard.launch /\ guard'.step = guard.step + 1
           /\ guard'.at = IF guard.step = 5 THEN "off" ELSE "recover"
           /\ driver' \in [modules : SUBSET Whole.modules, daemon : BOOLEAN]
           /\ memory' = [memory EXCEPT !.retained = @ /\ guard.step # 2]
           /\ guard.step = 1 => ~driver'.daemon
           /\ guard.step = 5 => driver'.daemon
           /\ guard.step \in 2..4 => driver'.daemon = driver.daemon
           /\ guard.step = 2 => Containers = {}
           /\ guard.step = 4 => driver'.modules = Whole.modules
           /\ guard.step \in {1, 5} => driver'.modules = driver.modules
<1>1. guard.step \in 1..5 /\ guard \in GuardValues
      /\ driver \in [modules : SUBSET Whole.modules, daemon : BOOLEAN]
    BY DEF GuardInv
<1>2. /\ Possible /\ driver' = DriverAfter /\ guard' = Recovered
      /\ memory' = [memory EXCEPT !.retained = @ /\ Command # "unload"]
      /\ UNCHANGED <<config, launches, faults>>
    BY DEF RecoverStep
<1>3. /\ Len(Commands) = 5
      /\ Commands[1] = "stop" /\ Commands[2] = "unload" /\ Commands[3] = "nvidia"
      /\ Commands[4] = "nvidia_uvm" /\ Commands[5] = "start"
    BY DEF Commands
<1>4. /\ guard' \in GuardValues /\ guard'.launch = guard.launch /\ guard'.step = guard.step + 1
      /\ guard'.at = IF guard.step = 5 THEN "off" ELSE "recover"
  <2>1. guard' = [guard EXCEPT !.at = IF guard.step = 5 THEN "off" ELSE "recover", !.step = @ + 1]
    BY <1>2, <1>3 DEF Recovered
  <2>2. guard.step + 1 \in Nat
    BY <1>1
  <2>3. QED
    BY <1>1, <2>1, <2>2 DEF GuardValues, Stages
<1>5. Command = "unload" <=> guard.step = 2
    BY <1>1, <1>3 DEF Command
<1>6. memory' = [memory EXCEPT !.retained = @ /\ guard.step # 2]
    BY <1>2, <1>5
<1>7. guard.step = 2 => Containers = {}
    BY <1>2, <1>5 DEF Possible
<1>8. /\ driver' \in [modules : SUBSET Whole.modules, daemon : BOOLEAN]
      /\ guard.step = 1 => ~driver'.daemon
      /\ guard.step = 5 => driver'.daemon
      /\ guard.step \in 2..4 => driver'.daemon = driver.daemon
      /\ guard.step = 4 => driver'.modules = Whole.modules
      /\ guard.step \in {1, 5} => driver'.modules = driver.modules
  <2>1. CASE guard.step = 1
    <3>1. driver' = [driver EXCEPT !.daemon = FALSE]
        BY <1>2, <1>3, <2>1 DEF DriverAfter, Command
    <3>2. /\ driver' \in [modules : SUBSET Whole.modules, daemon : BOOLEAN]
          /\ driver'.modules = driver.modules
        BY <1>1, <3>1
    <3>3. ~driver'.daemon
        BY <1>1, <3>1
    <3>4. QED
        BY <2>1, <3>2, <3>3
  <2>2. CASE guard.step = 2
    <3>1. driver' = [driver EXCEPT !.modules = {}]
        BY <1>2, <1>3, <2>2 DEF DriverAfter, Command
    <3>2. QED
        BY <1>1, <2>2, <3>1
  <2>3. CASE guard.step = 3
    <3>1. driver' = [driver EXCEPT !.modules = @ \cup {"nvidia"}]
        BY <1>2, <1>3, <2>3 DEF DriverAfter, Command
    <3>2. QED
        BY <1>1, <2>3, <3>1 DEF Whole
  <2>4. CASE guard.step = 4
    <3>1. driver' = [driver EXCEPT !.modules = Whole.modules]
        BY <1>2, <1>3, <2>4 DEF DriverAfter, Command
    <3>2. QED
        BY <1>1, <2>4, <3>1
  <2>5. CASE guard.step = 5
    <3>1. driver' = [driver EXCEPT !.daemon = TRUE]
        BY <1>2, <1>3, <2>5 DEF DriverAfter, Command
    <3>2. /\ driver' \in [modules : SUBSET Whole.modules, daemon : BOOLEAN]
          /\ driver'.modules = driver.modules
        BY <1>1, <3>1
    <3>3. driver'.daemon
        BY <1>1, <3>1
    <3>4. QED
        BY <2>5, <3>2, <3>3
  <2>6. QED
    BY <1>1, <2>1, <2>2, <2>3, <2>4, <2>5
<1>9. QED
    BY <1>2, <1>4, <1>6, <1>7, <1>8

\* The last command leaves the driver whole.
LEMMA LastCommand ==
    ASSUME Inv, guard.at = "recover", RecoverStep, guard.step = 5
    PROVE  driver' = Whole /\ ~memory'.retained
<1>1. driver.modules = Whole.modules /\ ~memory.retained
    BY DEF Inv, RecoverInv
<1>2. memory \in [large : SUBSET Nat, retained : BOOLEAN]
    BY DEF Inv, GuardInv
<1>3. /\ driver' \in [modules : SUBSET Whole.modules, daemon : BOOLEAN]
      /\ driver'.modules = Whole.modules /\ driver'.daemon
      /\ memory' = [memory EXCEPT !.retained = @ /\ guard.step # 2]
    BY <1>1, CommandDoes DEF Inv
<1>4. driver' = Whole
    BY <1>3 DEF Whole
<1>5. QED
    BY <1>1, <1>2, <1>3, <1>4

LEMMA RecoverStepInv ==
    ASSUME Inv, RecoverStep, UNCHANGED campaignVars
    PROVE  Inv'
<1>1. guard.at = "recover" /\ UNCHANGED <<campaign, rest>>
    BY DEF RecoverStep, campaignVars
<1>2. /\ guard.step \in 1..5 /\ guard.launch # 0
      /\ memory \in [large : SUBSET Nat, retained : BOOLEAN] /\ memory.large \subseteq Containers
    BY <1>1 DEF Inv, GuardInv, NoGuard
<1>3. /\ UNCHANGED <<config, launches, faults>>
      /\ guard' \in GuardValues /\ guard'.launch = guard.launch /\ guard'.step = guard.step + 1
      /\ guard'.at = IF guard.step = 5 THEN "off" ELSE "recover"
      /\ driver' \in [modules : SUBSET Whole.modules, daemon : BOOLEAN]
      /\ memory' = [memory EXCEPT !.retained = @ /\ guard.step # 2]
      /\ guard.step = 1 => ~driver'.daemon
      /\ guard.step = 5 => driver'.daemon
      /\ guard.step \in 2..4 => driver'.daemon = driver.daemon
      /\ guard.step = 2 => Containers = {}
      /\ guard.step = 4 => driver'.modules = Whole.modules
    BY <1>1, CommandDoes DEF Inv
<1>4. /\ memory' \in [large : SUBSET Nat, retained : BOOLEAN] /\ memory'.large = memory.large
      /\ memory'.retained <=> memory.retained /\ guard.step # 2
    BY <1>2, <1>3
<1>5. Containers' = Containers
    BY <1>3 DEF Containers, Running
<1>6. GuardInv'
  <2>1. guard'.launch <= Len(launches') /\ guard'.launch # 0
    BY <1>2, <1>3 DEF Inv, GuardInv
  <2>2. guard'.at = "recover" => guard'.step \in 1..5
    BY <1>2, <1>3
  <2>3. memory'.large \subseteq Containers'
    BY <1>2, <1>4, <1>5
  <2>4. QED
    BY <1>3, <1>4, <2>1, <2>2, <2>3 DEF Inv, GuardInv
<1>7. CampaignInv'
    BY <1>1, <1>3 DEF Inv, CampaignInv, CampaignValues
<1>8. RecoverInv'
  <2>1. \A k \in DOMAIN launches' : launches'[k].at # "starting"
    BY <1>1, <1>3 DEF Inv, RecoverInv
  <2>2. guard'.at = "recover" /\ guard'.step >= 2 => ~driver'.daemon
    BY <1>1, <1>2, <1>3 DEF Inv, RecoverInv
  <2>3. guard'.at = "recover" /\ guard'.step >= 3 => Containers' = {} /\ ~memory'.retained
    BY <1>1, <1>2, <1>3, <1>4, <1>5 DEF Inv, RecoverInv
  <2>4. guard'.at = "recover" /\ guard'.step >= 5 => driver'.modules = Whole.modules
    BY <1>2, <1>3
  <2>5. QED
    BY <1>3, <1>4, <2>1, <2>2, <2>3, <2>4 DEF Inv, RecoverInv
<1>9. CalmInv'
  <2>1. Calm' => Calm
    BY <1>3 DEF Calm, Recovers
  <2>2. Calm => \A k \in DOMAIN launches : ~Running(k)
    BY <1>1, OnlyOwn DEF Containers
  <2>3. guard.step = 5 => driver' = Whole /\ ~memory'.retained
    BY <1>1, LastCommand
  <2>4. Own' = Own
    BY <1>3 DEF Own
  <2>5. memory'.retained => guard.step = 1
    BY <1>1, <1>2, <1>4 DEF Inv, RecoverInv
  <2>6. QED
    BY <1>1, <1>3, <1>4, <2>1, <2>2, <2>3, <2>4, <2>5 DEF Inv, CalmInv, Running
<1>10. QED
    BY <1>6, <1>7, <1>8, <1>9 DEF Inv

\* The guard ends before it is done.
LEMMA GuardGone ==
    ASSUME Inv, guard.at # "off", guard' \in GuardValues, guard'.at = "off",
           guard'.launch = guard.launch, Ending({}),
           \A k \in DOMAIN launches : launches'[k].at # "starting",
           UNCHANGED <<config, driver, memory>>, faults' \in 1..config.faults, UNCHANGED rest,
           campaign' \in CampaignValues', campaign'.kind = campaign.kind,
           campaign'.at = "run" => campaign'.todo # <<>>
    PROVE  Inv'
<1>1. guard.launch # 0 /\ Containers' = Containers
  <2>1. Containers' = Containers \ {}
    BY RunningAfter
  <2>2. QED
    BY <2>1 DEF Inv, GuardInv, NoGuard
<1>2. /\ launches' \in Seq(LaunchTypes) /\ \A k \in DOMAIN launches' : Shown(launches'[k])
      /\ guard'.launch <= Len(launches') /\ DOMAIN launches' = DOMAIN launches
    BY DEF Ending, Inv, GuardInv
<1>3. GuardInv'
    BY <1>1, <1>2 DEF Inv, GuardInv
<1>4. CampaignInv'
    BY DEF Inv, CampaignInv
<1>5. RecoverInv'
    BY <1>2 DEF Inv, RecoverInv
<1>6. CalmInv'
    BY DEF CalmInv, Calm
<1>7. QED
    BY <1>3, <1>4, <1>5, <1>6 DEF Inv
LEMMA RecoverFailsInv ==
    ASSUME Inv, RecoverFails, UNCHANGED campaignVars
    PROVE  Inv'
<1>1. /\ guard.at = "recover" /\ guard' = [guard EXCEPT !.at = "off"]
      /\ UNCHANGED <<config, launches, driver, memory, campaign, rest>>
      /\ \/ ~Possible /\ UNCHANGED faults
         \/ faults < config.faults /\ faults' = faults + 1
    BY DEF RecoverFails, campaignVars
<1>2. guard' \in GuardValues /\ guard'.at = "off" /\ guard'.launch = guard.launch
    BY <1>1 DEF Inv, GuardInv, GuardValues, Stages
<1>3. CASE ~Possible /\ UNCHANGED faults
  <2>1. ~Calm
    <3> SUFFICES ASSUME Calm PROVE Possible
        BY <1>3
    <3>1. Containers = {}
        BY <1>1, OnlyOwn
    <3>2. guard.step \in 1..5
        BY <1>1 DEF Inv, GuardInv
    <3>3. Command = "unload" => guard.step = 2
        BY <3>2 DEF Command, Commands
    <3>4. guard.step = 2 => ~driver.daemon
        BY <1>1 DEF Inv, RecoverInv
    <3>5. QED
        BY <3>1, <3>3, <3>4 DEF Possible
  <2>2. GuardInv'
    <3>1. guard.launch # 0 /\ Containers' = Containers
        BY <1>1 DEF Inv, GuardInv, NoGuard, Containers, Running
    <3>2. QED
        BY <1>1, <1>2, <1>3, <3>1 DEF Inv, GuardInv
  <2>3. CampaignInv'
    BY <1>1, <1>2 DEF Inv, CampaignInv, CampaignValues
  <2>4. RecoverInv'
    BY <1>1, <1>2 DEF Inv, RecoverInv
  <2>5. CalmInv'
    BY <1>1, <1>3, <2>1 DEF CalmInv, Calm, Recovers
  <2>6. QED
    BY <2>2, <2>3, <2>4, <2>5 DEF Inv
<1>4. CASE faults < config.faults /\ faults' = faults + 1
  <2>1. faults' \in 1..config.faults
    BY <1>4, ConfigAssumption DEF Inv, GuardInv
  <2>2. Ending({})
    BY <1>1, NothingEnds DEF Inv
  <2>3. \A k \in DOMAIN launches : launches'[k].at # "starting"
    BY <1>1 DEF Inv, RecoverInv
  <2>4. /\ campaign' \in CampaignValues' /\ campaign'.kind = campaign.kind
        /\ campaign'.at = "run" => campaign'.todo # <<>>
    BY <1>1 DEF Inv, CampaignInv, CampaignValues
  <2>5. QED
    BY <1>1, <1>2, <2>1, <2>2, <2>3, <2>4, GuardGone
<1>5. QED
    BY <1>1, <1>3, <1>4

\* An interrupted client that has yet to make its container makes none.
LEMMA InterruptedDoes ==
    ASSUME Inv, guard.at # "off", launches' = Interrupted
    PROVE  /\ launches' \in Seq(LaunchTypes) /\ Len(launches') = Len(launches)
           /\ DOMAIN launches' = DOMAIN launches
           /\ \A k \in DOMAIN launches :
                 /\ Shown(launches'[k]) /\ launches'[k].name = launches[k].name
                 /\ Running(k)' = Running(k) /\ launches'[k].at # "starting"
                 /\ launches[k].at = "ended" => launches'[k].at = "ended"
           /\ Containers' = Containers
<1>1. guard.launch \in DOMAIN launches /\ launches \in Seq(LaunchTypes)
      /\ \A k \in DOMAIN launches : Shown(launches[k])
    BY OwnLaunch DEF Inv, GuardInv
<1>2. \A k \in DOMAIN launches : launches[k].at = "starting" => k = guard.launch
    BY DEF Inv, RecoverInv
<1>3. CASE Own.at = "starting"
  <2>1. launches' = Ended(guard.launch, 130)
    BY <1>3 DEF Interrupted
  <2>2. /\ Ended(guard.launch, 130) \in Seq(LaunchTypes)
        /\ Len(Ended(guard.launch, 130)) = Len(launches)
        /\ DOMAIN Ended(guard.launch, 130) = DOMAIN launches
        /\ Ended(guard.launch, 130)[guard.launch].at = "ended"
        /\ Ended(guard.launch, 130)[guard.launch].name = launches[guard.launch].name
        /\ Shown(Ended(guard.launch, 130)[guard.launch])
        /\ \A j \in DOMAIN launches : j # guard.launch => Ended(guard.launch, 130)[j] = launches[j]
    BY <1>1, LaunchEnds
  <2>3. QED
    BY <1>1, <1>2, <1>3, <2>1, <2>2 DEF Running, Containers, Own
<1>4. CASE Own.at # "starting"
  <2>1. launches' = launches
    BY <1>4 DEF Interrupted
  <2>2. QED
    BY <1>1, <1>2, <1>4, <2>1 DEF Running, Containers, Own
<1>5. QED
    BY <1>3, <1>4

\* A guard that dies, whatever the campaign makes of it.
LEMMA GuardDiesInv ==
    ASSUME Inv, GuardDies, UNCHANGED rest,
           campaign' \in CampaignValues', campaign'.kind = campaign.kind,
           campaign'.at = "run" => campaign'.todo # <<>>
    PROVE  Inv'
<1>1. /\ guard.at # "off" /\ faults < config.faults /\ faults' = faults + 1
      /\ guard' = [guard EXCEPT !.at = "off", !.reason = "interrupt", !.rc = 130]
      /\ launches' = Interrupted /\ UNCHANGED <<config, driver, memory>>
    BY DEF GuardDies
<1>2. guard' \in GuardValues /\ guard'.at = "off" /\ guard'.launch = guard.launch
    BY <1>1 DEF Inv, GuardInv, GuardValues, Stages
<1>3. faults' \in 1..config.faults
    BY <1>1, ConfigAssumption DEF Inv, GuardInv
<1>4. guard.launch # 0
    BY <1>1 DEF Inv, GuardInv, NoGuard
<1>5. GuardInv'
    BY <1>1, <1>2, <1>3, <1>4, InterruptedDoes DEF Inv, GuardInv
<1>6. CampaignInv'
    BY <1>1, <1>2 DEF Inv, CampaignInv
<1>7. RecoverInv'
    BY <1>1, <1>2, InterruptedDoes DEF Inv, RecoverInv
<1>8. CalmInv'
    BY <1>3 DEF CalmInv, Calm
<1>9. QED
    BY <1>5, <1>6, <1>7, <1>8 DEF Inv

LEMMA InterruptInv ==
    ASSUME Inv, Interrupt, UNCHANGED rest, campaign.at = "run",
           campaign' = [campaign EXCEPT !.at = "stopping"]
    PROVE  Inv'
<1>1. /\ guard.at = "poll" /\ guard' = [guard EXCEPT !.at = "kill", !.reason = "interrupt"]
      /\ launches' = Interrupted /\ UNCHANGED <<config, driver, memory, faults>>
    BY DEF Interrupt
<1>2. guard' \in GuardValues /\ guard'.at = "kill" /\ guard'.launch = guard.launch
    BY <1>1 DEF Inv, GuardInv, GuardValues, Stages
<1>3. campaign' \in CampaignValues' /\ campaign'.kind = campaign.kind /\ campaign'.at = "stopping"
    BY DEF Inv, CampaignInv, CampaignValues
<1>4. guard.launch # 0 /\ guard.launch \in DOMAIN launches
    BY <1>1, OwnLaunch DEF Inv, GuardInv, NoGuard
<1>5. GuardInv'
    BY <1>1, <1>2, <1>4, InterruptedDoes DEF Inv, GuardInv
<1>6. CampaignInv'
    BY <1>1, <1>3 DEF Inv, CampaignInv
<1>7. RecoverInv'
    BY <1>1, <1>2, InterruptedDoes DEF Inv, RecoverInv
<1>8. CalmInv'
  <2>1. Calm' => Calm
    BY <1>1 DEF Calm, Recovers
  <2>2. Calm => \A k \in DOMAIN launches : Running(k)' => k = guard.launch
    BY <1>1, OnlyOwn, InterruptedDoes DEF Containers
  <2>3. Own'.at # "starting" /\ (Own.at = "ended" => Own'.at = "ended")
    BY <1>1, <1>2, <1>4, InterruptedDoes DEF Own
  <2>4. DOMAIN launches' = DOMAIN launches
    BY <1>1, InterruptedDoes
  <2>5. QED
    BY <1>1, <1>2, <2>1, <2>2, <2>3, <2>4 DEF Inv, CalmInv, Working
<1>9. QED
    BY <1>5, <1>6, <1>7, <1>8 DEF Inv
-----------------------------------------------------------------------------
(* Campaigns *)

\* The campaign goes on while nothing runs.
LEMMA CampaignMoves ==
    ASSUME Inv, UNCHANGED guardVars, guard.at = "off", Calm => Containers = {},
           campaign' \in CampaignValues', rest' \in Seq(Campaigns),
           campaign'.at = "run" => campaign'.todo # <<>>,
           config.retains =>
              /\ campaign'.at # "done" => campaign'.kind # "ab"
              /\ \A i \in DOMAIN rest' : rest'[i].kind # "ab"
    PROVE  Inv'
<1>1. UNCHANGED <<config, launches, guard, driver, memory, faults>>
    BY DEF guardVars
<1>2. Containers' = Containers
    BY <1>1 DEF Containers, Running
<1>3. GuardInv'
    BY <1>1, <1>2 DEF Inv, GuardInv
<1>4. CampaignInv'
    BY <1>1 DEF CampaignInv
<1>5. RecoverInv'
    BY <1>1, <1>2 DEF Inv, RecoverInv
<1>6. CalmInv'
  <2>1. Calm' => Calm
    BY <1>1 DEF Calm, Recovers
  <2>2. Calm => \A k \in DOMAIN launches : ~Running(k)
    BY DEF Containers
  <2>3. QED
    BY <1>1, <2>1, <2>2 DEF Inv, CalmInv, Running
<1>7. QED
    BY <1>3, <1>4, <1>5, <1>6 DEF Inv

\* A campaign whose guard is off runs nothing, but for the A/B run.
LEMMA NothingRuns ==
    ASSUME Inv, Calm, guard.at = "off", ~(campaign.kind = "ab" /\ campaign.at = "run")
    PROVE  Containers = {}
    BY DEF Inv, CalmInv, Working, Containers

\* Between two launches no guard is at work.
LEMMA NextIsIdle ==
    ASSUME Inv, campaign.at \in {"next", "done"} \/ campaign.kind = "ab"
    PROVE  guard.at = "off"
    BY DEF Inv, CampaignInv

\* A campaign that keeps its kind.
LEMMA SameCampaign ==
    ASSUME Inv, UNCHANGED <<guardVars, rest>>, guard.at = "off", Calm => Containers = {},
           campaign.at # "done",
           campaign' \in CampaignValues', campaign'.kind = campaign.kind,
           campaign'.at = "run" => campaign'.todo # <<>>
    PROVE  Inv'
<1>1. UNCHANGED <<guardVars, config, rest>>
    BY DEF guardVars
<1>2. rest' \in Seq(Campaigns)
    BY <1>1 DEF Inv, CampaignInv
<1>3. config.retains =>
         /\ campaign'.at # "done" => campaign'.kind # "ab"
         /\ \A i \in DOMAIN rest' : rest'[i].kind # "ab"
    BY <1>1 DEF Inv, CampaignInv
<1>4. QED
    BY <1>1, <1>2, <1>3, CampaignMoves

LEMMA DoneIsCampaign ==
    ASSUME CampaignInv, NEW rc
    PROVE  /\ Done(rc) \in [kind : {"matrix", "nsys", "ab", None}, names : Seq(Names),
                             skip : BOOLEAN, at : {"done"}, todo : Seq(Names), from : Nat,
                             rc : {rc}, rows : {campaign.rows}, stats : {campaign.stats}]
           /\ Done(rc).kind = campaign.kind
    BY DEF Done, CampaignInv, CampaignValues

LEMMA BeginInv ==
    ASSUME Inv, Begin
    PROVE  Inv'
<1>1. /\ campaign.at = "done" /\ guard.at = "off" /\ rest # <<>> /\ rest' = Tail(rest)
      /\ campaign' = [NoCampaign EXCEPT !.kind = Head(rest).kind, !.names = Head(rest).names,
                         !.skip = Head(rest).skip, !.todo = Head(rest).names,
                         !.at = "next", !.from = Len(launches)]
      /\ UNCHANGED guardVars
    BY DEF Begin
<1>2. rest \in Seq(Campaigns) /\ launches \in Seq(LaunchTypes)
    BY DEF Inv, CampaignInv, GuardInv
<1>3. Head(rest) \in Campaigns /\ rest' \in Seq(Campaigns)
    BY <1>1, <1>2
<1>4. Head(rest) = rest[1] /\ \A i \in DOMAIN rest' : i + 1 \in DOMAIN rest /\ rest'[i] = rest[i + 1]
  <2>1. Len(rest) \in Nat /\ DOMAIN rest = 1..Len(rest)
    BY <1>2, LenProperties
  <2>2. Len(rest') = Len(rest) - 1 /\ DOMAIN rest' = 1..Len(rest')
    BY <1>1, <1>2, <1>3, <2>1, LenProperties
  <2>3. QED
    BY <1>1, <1>2, <2>1, <2>2
<1>5. 1 \in DOMAIN rest
    BY <1>1, <1>2
<1>6. Len(launches) \in Nat
    BY <1>2, LenProperties
<1>7. campaign' \in CampaignValues' /\ campaign'.kind = Head(rest).kind
    BY <1>1, <1>3, <1>6 DEF NoCampaign, CampaignValues, Campaigns
<1>8. config' = config
    BY <1>1 DEF guardVars
<1>9. config.retains => campaign'.kind # "ab" /\ \A i \in DOMAIN rest' : rest'[i].kind # "ab"
    BY <1>4, <1>5, <1>7 DEF Inv, CampaignInv
<1>10. Calm => Containers = {}
    BY <1>1, NothingRuns
<1>11. QED
    BY <1>1, <1>3, <1>7, <1>9, <1>10, CampaignMoves

LEMMA SkipInv ==
    ASSUME Inv, Skip
    PROVE  Inv'
<1>1. /\ campaign.at = "next" /\ campaign.todo # <<>> /\ campaign' = [campaign EXCEPT !.todo = Tail(@)]
      /\ UNCHANGED <<guardVars, rest>>
    BY DEF Skip
<1>2. campaign.todo \in Seq(Names)
    BY DEF Inv, CampaignInv, CampaignValues
<1>3. Tail(campaign.todo) \in Seq(Names)
    BY <1>1, <1>2
<1>4. campaign' \in CampaignValues' /\ campaign'.kind = campaign.kind
    BY <1>1, <1>3 DEF Inv, CampaignInv, CampaignValues
<1>5. guard.at = "off" /\ (Calm => Containers = {})
    BY <1>1, NextIsIdle, NothingRuns
<1>6. QED
    BY <1>1, <1>4, <1>5, SameCampaign

LEMMA FinishInv ==
    ASSUME Inv, Finish
    PROVE  Inv'
<1>1. campaign.at = "next" /\ campaign' = Done(0) /\ UNCHANGED <<guardVars, rest>>
    BY DEF Finish
<1>2. campaign' \in CampaignValues' /\ campaign'.kind = campaign.kind /\ campaign'.at # "run"
    BY <1>1, DoneIsCampaign DEF Inv, CampaignValues
<1>3. guard.at = "off" /\ (Calm => Containers = {})
    BY <1>1, NextIsIdle, NothingRuns
<1>4. QED
    BY <1>1, <1>2, <1>3, SameCampaign

LEMMA CampaignStopsInv ==
    ASSUME Inv, CampaignStops
    PROVE  Inv'
<1>1. /\ campaign.at = "stopping" /\ guard.at = "off" /\ campaign' = Done(130)
      /\ UNCHANGED <<guardVars, rest>>
    BY DEF CampaignStops
<1>2. campaign' \in CampaignValues' /\ campaign'.kind = campaign.kind /\ campaign'.at # "run"
    BY <1>1, DoneIsCampaign DEF Inv, CampaignValues
<1>3. Calm => Containers = {}
    BY <1>1, NothingRuns
<1>4. QED
    BY <1>1, <1>2, <1>3, SameCampaign

LEMMA MatrixReturnInv ==
    ASSUME Inv, MatrixReturn
    PROVE  Inv'
<1>1. /\ campaign.at = "run" /\ campaign.kind = "matrix" /\ guard.at = "off"
      /\ campaign' = IF guard.rc # 0 THEN Done(guard.rc)
                     ELSE [campaign EXCEPT !.at = "next", !.todo = Tail(@)]
      /\ UNCHANGED <<guardVars, rest>>
    BY DEF MatrixReturn
<1>2. Calm => Containers = {}
    BY <1>1, NothingRuns
<1>3. campaign' \in CampaignValues' /\ campaign'.kind = campaign.kind /\ campaign'.at # "run"
  <2>1. CASE guard.rc # 0
    BY <1>1, <2>1, DoneIsCampaign DEF Inv, CampaignValues
  <2>2. CASE guard.rc = 0
    <3>1. campaign' = [campaign EXCEPT !.at = "next", !.todo = Tail(@)]
        BY <1>1, <2>2
    <3>2. campaign.todo \in Seq(Names) /\ campaign.todo # <<>>
        BY <1>1 DEF Inv, CampaignInv, CampaignValues
    <3>3. Tail(campaign.todo) \in Seq(Names)
        BY <3>2
    <3>4. QED
        BY <3>1, <3>3 DEF Inv, CampaignInv, CampaignValues
  <2>3. QED
    BY <2>1, <2>2
<1>4. QED
    BY <1>1, <1>2, <1>3, SameCampaign

LEMMA NsysReturnInv ==
    ASSUME Inv, NsysReturn
    PROVE  Inv'
<1>1. /\ campaign.at = "run" /\ campaign.kind = "nsys" /\ guard.at = "off"
      /\ campaign' = [Done(guard.rc) EXCEPT !.stats = reports[Head(campaign.todo)]]
      /\ UNCHANGED <<guardVars, rest>>
    BY DEF NsysReturn
<1>2. Calm => Containers = {}
    BY <1>1, NothingRuns
<1>3. campaign' \in CampaignValues' /\ campaign'.kind = campaign.kind /\ campaign'.at # "run"
    BY <1>1, DoneIsCampaign DEF Inv, CampaignValues
<1>4. QED
    BY <1>1, <1>2, <1>3, SameCampaign
\* A launch that has begun.
LEMMA Begun ==
    ASSUME GuardInv, NEW n \in Names, NEW at \in {"starting", "running"},
           launches' = Append(launches, [name |-> n, at |-> at, rc |-> None, done |-> 0])
    PROVE  /\ launches' \in Seq(LaunchTypes) /\ Len(launches) \in Nat
           /\ Len(launches') = Len(launches) + 1
           /\ DOMAIN launches = 1..Len(launches) /\ DOMAIN launches' = 1..(Len(launches) + 1)
           /\ \A k \in DOMAIN launches : launches'[k] = launches[k]
           /\ launches'[Len(launches) + 1].at = at
           /\ \A k \in DOMAIN launches' : Shown(launches'[k])
<1> DEFINE l == [name |-> n, at |-> at, rc |-> None, done |-> 0]
<1>1. launches \in Seq(LaunchTypes) /\ \A k \in DOMAIN launches : Shown(launches[k])
    BY DEF GuardInv
<1>2. l \in LaunchTypes /\ Shown(l) /\ l.at = at
    BY DEF LaunchTypes, Shown
<1>3. launches' = Append(launches, l)
    OBVIOUS
<1> HIDE DEF l
<1>4. Len(launches) \in Nat /\ DOMAIN launches = 1..Len(launches)
    BY <1>1, LenProperties
<1>5. /\ launches' \in Seq(LaunchTypes) /\ Len(launches') = Len(launches) + 1
      /\ \A k \in 1..Len(launches) : launches'[k] = launches[k]
      /\ launches'[Len(launches) + 1] = l
    BY <1>1, <1>2, <1>3, AppendProperties
<1>6. DOMAIN launches' = 1..(Len(launches) + 1)
    BY <1>5, LenProperties
<1>7. QED
    BY <1>1, <1>2, <1>4, <1>5, <1>6

LEMMA RunNextInv ==
    ASSUME Inv, RunNext
    PROVE  Inv'
<1> DEFINE n == Head(campaign.todo)
<1>1. /\ campaign.at = "next" /\ campaign.kind \in {"matrix", "nsys"} /\ campaign.todo # <<>>
      /\ campaign' = [campaign EXCEPT !.at = "run"] /\ rest' = rest
      /\ guard.at = "off"
      /\ launches' = Append(launches, [name |-> n, at |-> "starting", rc |-> None, done |-> 0])
      /\ guard' = [NoGuard EXCEPT !.at = "poll", !.launch = Len(launches) + 1]
      /\ UNCHANGED <<config, driver, memory, faults>>
    BY DEF RunNext, Launch
<1>2. n \in Names
    BY <1>1 DEF Inv, CampaignInv, CampaignValues
<1> HIDE DEF n
<1>3. /\ launches' \in Seq(LaunchTypes) /\ Len(launches) \in Nat
      /\ Len(launches') = Len(launches) + 1
      /\ DOMAIN launches = 1..Len(launches) /\ DOMAIN launches' = 1..(Len(launches) + 1)
      /\ \A k \in DOMAIN launches : launches'[k] = launches[k]
      /\ launches'[Len(launches) + 1].at = "starting"
      /\ \A k \in DOMAIN launches' : Shown(launches'[k])
    BY <1>1, <1>2, Begun DEF Inv
<1>4. /\ guard' \in GuardValues /\ guard'.at = "poll" /\ guard'.launch = Len(launches) + 1
  <2>1. Len(launches) + 1 \in Nat
    BY <1>3
  <2>2. guard' = [at |-> "poll", launch |-> Len(launches) + 1, reason |-> None, step |-> 0, rc |-> 0]
    BY <1>1 DEF NoGuard
  <2>3. QED
    BY <2>1, <2>2 DEF GuardValues, Stages
<1>5. \A k \in DOMAIN launches' : k # Len(launches) + 1 => k \in DOMAIN launches
    BY <1>3
<1>6. Containers' = Containers
    BY <1>3, <1>5 DEF Containers, Running
<1>7. GuardInv'
    BY <1>1, <1>3, <1>4, <1>6 DEF Inv, GuardInv
<1>8. CampaignInv'
  <2>1. campaign' \in CampaignValues' /\ campaign'.at = "run" /\ campaign'.kind = campaign.kind
        /\ campaign'.todo = campaign.todo
    BY <1>1 DEF Inv, CampaignInv, CampaignValues
  <2>2. QED
    BY <1>1, <2>1 DEF Inv, CampaignInv
<1>9. RecoverInv'
  <2>1. \A k \in DOMAIN launches : launches[k].at # "starting"
    BY <1>1 DEF Inv, RecoverInv
  <2>2. QED
    BY <1>1, <1>3, <1>4, <1>5, <2>1 DEF Inv, RecoverInv
<1>10. CalmInv'
  <2>1. Calm' => Calm
    BY <1>1 DEF Calm, Recovers
  <2>2. Calm => Containers' = {}
    BY <1>1, <1>6, NothingRuns
  <2>3. Calm => driver = Whole /\ ~memory.retained
    BY <1>1 DEF Inv, CalmInv
  <2>4. QED
    BY <1>1, <1>4, <2>1, <2>2, <2>3 DEF CalmInv, Containers
<1>11. QED
    BY <1>7, <1>8, <1>9, <1>10 DEF Inv

LEMMA RunVariantInv ==
    ASSUME Inv, RunVariant
    PROVE  Inv'
<1> DEFINE n == Head(campaign.todo)
<1>1. /\ campaign.at = "next" /\ campaign.kind = "ab" /\ campaign.todo # <<>>
      /\ campaign' = [campaign EXCEPT !.at = "run"]
      /\ launches' = Append(launches, [name |-> n, at |-> "running", rc |-> None, done |-> 0])
      /\ UNCHANGED <<config, guard, driver, memory, faults, rest>>
    BY DEF RunVariant
<1>2. n \in Names
    BY <1>1 DEF Inv, CampaignInv, CampaignValues
<1> HIDE DEF n
<1>3. /\ launches' \in Seq(LaunchTypes) /\ Len(launches) \in Nat
      /\ Len(launches') = Len(launches) + 1
      /\ DOMAIN launches = 1..Len(launches) /\ DOMAIN launches' = 1..(Len(launches) + 1)
      /\ \A k \in DOMAIN launches : launches'[k] = launches[k]
      /\ launches'[Len(launches) + 1].at = "running"
      /\ \A k \in DOMAIN launches' : Shown(launches'[k])
    BY <1>1, <1>2, Begun DEF Inv
<1>4. guard.at = "off"
    BY <1>1, NextIsIdle
<1>5. \A k \in DOMAIN launches' : k # Len(launches) + 1 => k \in DOMAIN launches
    BY <1>3
<1>6. Containers \subseteq Containers'
    BY <1>3 DEF Containers, Running
<1>7. GuardInv'
  <2>1. guard.launch \in Nat /\ guard.launch <= Len(launches')
    BY <1>3 DEF Inv, GuardInv, GuardValues
  <2>2. memory.large \subseteq Containers'
    BY <1>6 DEF Inv, GuardInv
  <2>3. QED
    BY <1>1, <1>3, <2>1, <2>2 DEF Inv, GuardInv
<1>8. campaign' \in CampaignValues' /\ campaign'.at = "run" /\ campaign'.kind = "ab"
      /\ campaign'.todo = campaign.todo
    BY <1>1 DEF Inv, CampaignInv, CampaignValues
<1>9. CampaignInv'
    BY <1>1, <1>4, <1>8 DEF Inv, CampaignInv
<1>10. RecoverInv'
    BY <1>1, <1>3, <1>4, <1>5 DEF Inv, RecoverInv
<1>11. CalmInv'
  <2>1. Calm' => Calm
    BY <1>1 DEF Calm, Recovers
  <2>2. Calm => \A k \in DOMAIN launches : ~Running(k)'
    <3>1. Calm => Containers = {}
        BY <1>1, <1>4, NothingRuns
    <3>2. QED
        BY <1>3, <3>1 DEF Containers, Running
  <2>3. \A k \in DOMAIN launches' : k = Len(launches) + 1 => Working(k)'
    BY <1>3, <1>8 DEF Working
  <2>4. Calm => \A k \in DOMAIN launches' : Running(k)' => Working(k)'
    BY <1>5, <2>2, <2>3
  <2>5. Calm => driver = Whole /\ ~memory.retained
    BY <1>4 DEF Inv, CalmInv
  <2>6. QED
    BY <1>1, <1>4, <2>1, <2>4, <2>5 DEF CalmInv
<1>12. QED
    BY <1>7, <1>9, <1>10, <1>11 DEF Inv
\* The row of a variant is made when its launch has ended.
LEMMA VariantReturnInv ==
    ASSUME Inv, VariantReturn
    PROVE  Inv'
<1> DEFINE n == Head(campaign.todo)
           shown == IF launches[Len(launches)].done >= 3 THEN Len(launches) ELSE None
           row == [name |-> n, event |-> logs[n][First(Generated(n))].launch,
                   shown |-> shown, rc |-> launches[Len(launches)].rc]
           rows == [campaign EXCEPT !.rows = Append(@, row)]
<1>1. /\ campaign.at = "run" /\ campaign.kind = "ab" /\ UNCHANGED <<guardVars, rest>>
      /\ launches[Len(launches)].at = "ended"
      /\ campaign' = IF Generated(n) = {} \/ shown = None THEN Done(1)
                     ELSE IF row.rc # 0
                     THEN [rows EXCEPT !.at = "done", !.rc = row.rc]
                     ELSE [rows EXCEPT !.at = "next", !.todo = Tail(@)]
    BY DEF VariantReturn
<1> HIDE DEF n, shown, row
<1>2. guard.at = "off"
    BY <1>1, NextIsIdle
<1>3. ASSUME Calm PROVE Containers = {}
    BY <1>1, <1>2, <1>3 DEF Inv, CalmInv, Working, Containers, Running
<1>4. /\ campaign' \in CampaignValues' /\ campaign'.kind = campaign.kind
      /\ campaign'.at # "run"
  <2>1. CASE campaign' = Done(1)
    BY <2>1, DoneIsCampaign DEF Inv, CampaignValues
  <2>2. CASE campaign' = [rows EXCEPT !.at = "done", !.rc = row.rc]
    BY <2>2 DEF Inv, CampaignInv, CampaignValues
  <2>3. CASE campaign' = [rows EXCEPT !.at = "next", !.todo = Tail(@)]
    <3>1. campaign.todo \in Seq(Names) /\ campaign.todo # <<>>
        BY <1>1 DEF Inv, CampaignInv, CampaignValues
    <3>2. Tail(campaign.todo) \in Seq(Names)
        BY <3>1
    <3>3. QED
        BY <2>3, <3>2 DEF Inv, CampaignInv, CampaignValues
  <2>4. QED
    BY <1>1, <2>1, <2>2, <2>3
<1>5. QED
    BY <1>1, <1>2, <1>3, <1>4, SameCampaign

LEMMA VariantKilledInv ==
    ASSUME Inv, VariantKilled
    PROVE  Inv'
<1>1. /\ campaign.at \in {"next", "run"} /\ campaign.kind = "ab" /\ campaign' = Done(137)
      /\ launches' = [k \in DOMAIN launches |->
                        IF Running(k) THEN Ended(k, 137)[k] ELSE launches[k]]
      /\ memory' = [memory EXCEPT !.large = {}]
      /\ UNCHANGED <<config, guard, driver, faults, rest>>
    BY DEF VariantKilled
<1>2. launches' = [k \in DOMAIN launches |->
                      IF k \in Containers THEN Ended(k, 137)[k] ELSE launches[k]]
    BY <1>1 DEF Containers
<1>3. guard.at = "off" /\ memory \in [large : SUBSET Nat, retained : BOOLEAN] /\ GuardInv
    BY <1>1, NextIsIdle DEF Inv, GuardInv
<1>4. Ending(Containers)
    BY <1>2, <1>3, KilledEnds
<1>5. Containers' = {}
  <2>1. Containers' = Containers \ Containers
    BY <1>4, RunningAfter
  <2>2. QED
    BY <2>1
<1>6. /\ memory' \in [large : SUBSET Nat, retained : BOOLEAN] /\ memory'.large = {}
      /\ memory'.retained = memory.retained
    BY <1>1, <1>3
<1>7. GuardInv'
  <2>1. /\ launches' \in Seq(LaunchTypes) /\ \A k \in DOMAIN launches' : Shown(launches'[k])
        /\ guard.launch <= Len(launches')
    BY <1>4 DEF Ending, Inv, GuardInv
  <2>2. QED
    BY <1>1, <1>6, <2>1 DEF Inv, GuardInv
<1>8. CampaignInv'
  <2>1. campaign' \in CampaignValues' /\ campaign'.at = "done"
    BY <1>1, DoneIsCampaign DEF Inv, CampaignValues
  <2>2. QED
    BY <1>1, <1>3, <2>1 DEF Inv, CampaignInv
<1>9. RecoverInv'
  <2>1. \A k \in DOMAIN launches' : launches'[k].at # "starting"
    BY <1>3, <1>4 DEF Ending, Inv, RecoverInv
  <2>2. QED
    BY <1>1, <1>3, <1>6, <2>1 DEF Inv, RecoverInv
<1>10. CalmInv'
  <2>1. Calm' => Calm
    BY <1>1 DEF Calm, Recovers
  <2>2. Calm => driver = Whole /\ ~memory.retained
    BY <1>3 DEF Inv, CalmInv
  <2>3. QED
    BY <1>1, <1>3, <1>5, <1>6, <2>1, <2>2 DEF CalmInv, Containers
<1>11. QED
    BY <1>7, <1>8, <1>9, <1>10 DEF Inv

LEMMA CampaignInterruptInv ==
    ASSUME Inv, CampaignInterrupt
    PROVE  Inv'
<1>1. /\ campaign.at = "run" /\ campaign' = [campaign EXCEPT !.at = "stopping"]
      /\ rest' = rest /\ (Interrupt \/ GuardDies)
    BY DEF CampaignInterrupt
<1>2. campaign' \in CampaignValues' /\ campaign'.kind = campaign.kind /\ campaign'.at = "stopping"
    BY <1>1 DEF Inv, CampaignInv, CampaignValues
<1>3. CASE Interrupt
    BY <1>1, <1>3, InterruptInv
<1>4. CASE GuardDies
    BY <1>1, <1>2, <1>4, GuardDiesInv
<1>5. QED
    BY <1>1, <1>3, <1>4

-----------------------------------------------------------------------------
(* Every step *)

LEMMA StutterInv ==
    ASSUME Inv, UNCHANGED vars
    PROVE  Inv'
<1>1. UNCHANGED <<config, launches, guard, driver, memory, faults, campaign, rest>>
    BY DEF vars, guardVars, campaignVars
<1>2. GuardInv'
    BY <1>1 DEF Inv, GuardInv, Containers, Running
<1>3. CampaignInv'
    BY <1>1 DEF Inv, CampaignInv, CampaignValues
<1>4. RecoverInv'
    BY <1>1 DEF Inv, RecoverInv, Containers, Running
<1>5. CalmInv'
    BY <1>1 DEF Inv, CalmInv, Calm, Recovers, Running, Working, Own
<1>6. QED
    BY <1>2, <1>3, <1>4, <1>5 DEF Inv

LEMMA GuardStepInv ==
    ASSUME Inv, Guards
    PROVE  Inv'
<1>1. GuardStep /\ UNCHANGED campaignVars
    BY DEF Guards
<1>2. QED
    BY <1>1, PollEndedInv, PollLowInv, PollTimeoutInv, KillInv, WaitInv, RecoverStepInv,
       RecoverFailsInv DEF GuardStep

LEMMA NextInv ==
    ASSUME Inv, [Next]_vars
    PROVE  Inv'
<1>1. CASE UNCHANGED vars
    BY <1>1, StutterInv
<1>2. CASE Creates
    BY <1>2, CreateInv DEF Creates
<1>3. CASE Guards
    BY <1>3, GuardStepInv
<1>4. ASSUME NEW k \in DOMAIN launches,
             \/ (Grow(k) \/ OutOfMemory(k)) /\ UNCHANGED campaignVars
             \/ Probe(k)
             \/ ProbeEnds(k, 0) \/ ProbeEnds(k, 1)
      PROVE  Inv'
  <2>1. 0 \in Nat /\ 1 \in Nat
    OBVIOUS
  <2>2. QED
    BY <1>4, <2>1, GrowInv, OutOfMemoryInv, ProbeInv, ProbeEndsInv
<1>5. CASE campaign.at = "stopping" /\ GuardDies /\ UNCHANGED campaignVars
  <2>1. UNCHANGED <<campaign, rest>>
    BY <1>5 DEF campaignVars
  <2>2. campaign' \in CampaignValues' /\ campaign'.kind = campaign.kind /\ campaign'.at # "run"
    BY <1>5, <2>1 DEF Inv, CampaignInv, CampaignValues
  <2>3. QED
    BY <1>5, <2>1, <2>2, GuardDiesInv
<1>6. CASE Begin \/ Skip \/ RunNext \/ RunVariant
    BY <1>6, BeginInv, SkipInv, RunNextInv, RunVariantInv
<1>7. CASE MatrixReturn \/ NsysReturn \/ VariantReturn \/ VariantKilled
    BY <1>7, MatrixReturnInv, NsysReturnInv, VariantReturnInv, VariantKilledInv
<1>8. CASE Finish \/ CampaignInterrupt \/ CampaignStops
    BY <1>8, FinishInv, CampaignInterruptInv, CampaignStopsInv
<1>9. QED
    BY <1>1, <1>2, <1>3, <1>4, <1>5, <1>6, <1>7, <1>8 DEF Next
-----------------------------------------------------------------------------
(* Theorems *)

\* Only docker, or a Ctrl-C, takes a client out of "starting".
LEMMA KilledKeepsStarting ==
    ASSUME Inv, NEW k \in DOMAIN launches, launches[k].at = "starting",
           NEW K \in SUBSET Containers,
           launches' = [j \in DOMAIN launches |-> IF j \in K THEN Ended(j, 137)[j] ELSE launches[j]]
    PROVE  launches'[k].at = "starting"
<1>1. Ending(K)
    BY KilledEnds DEF Inv
<1>2. QED
    BY <1>1 DEF Ending, Containers, Running

LEMMA InterruptedStarting ==
    ASSUME Inv, guard.at # "off", launches' = Interrupted,
           NEW k \in DOMAIN launches, launches[k].at = "starting"
    PROVE  launches'[k].rc = 130
<1>1. k = guard.launch /\ launches \in Seq(LaunchTypes)
    BY DEF Inv, GuardInv, RecoverInv
<1>2. launches' = Ended(k, 130) /\ Ended(k, 130)[k].rc = 130
    BY <1>1, LaunchEnds DEF Interrupted, Own
<1>3. QED
    BY <1>2

LEMMA GuardKeepsStarting ==
    ASSUME Inv, GuardStep, NEW k \in DOMAIN launches, launches[k].at = "starting"
    PROVE  launches'[k].at = "starting"
<1>1. CASE Kill
  <2> DEFINE K == Named(Own.name)
  <2>1. K \in SUBSET Containers
    BY DEF Named
  <2>2. launches' = [j \in DOMAIN launches |-> IF j \in K THEN Ended(j, 137)[j] ELSE launches[j]]
    BY <1>1 DEF Kill, Killed
  <2> HIDE DEF K
  <2>3. QED
    BY <2>1, <2>2, KilledKeepsStarting
<1>2. CASE ~Kill
  <2>1. UNCHANGED launches
    BY <1>2 DEF GuardStep, PollEnded, PollLow, PollTimeout, Wait, RecoverStep, RecoverFails
  <2>2. QED
    BY <2>1
<1>3. QED
    BY <1>1, <1>2

LEMMA ContainersKeepStarting ==
    ASSUME Inv, NEW j \in DOMAIN launches,
           Grow(j) \/ OutOfMemory(j) \/ Probe(j) \/ ProbeEnds(j, 0) \/ ProbeEnds(j, 1),
           NEW k \in DOMAIN launches, launches[k].at = "starting"
    PROVE  launches'[k].at = "starting"
<1>1. launches \in Seq(LaunchTypes) /\ memory.large \subseteq Containers
    BY DEF Inv, GuardInv
<1>2. CASE Grow(j)
    BY <1>2 DEF Grow
<1>3. CASE OutOfMemory(j)
  <2>1. {j} \in SUBSET Containers
    BY <1>1, <1>3 DEF OutOfMemory
  <2>2. launches' = [i \in DOMAIN launches |->
                        IF i \in {j} THEN Ended(i, 137)[i] ELSE launches[i]]
    BY <1>3 DEF OutOfMemory, Killed
  <2>3. QED
    BY <2>1, <2>2, KilledKeepsStarting
<1>4. CASE Probe(j)
  <2>1. launches' = [launches EXCEPT ![j].done = @ + 1] /\ k # j
    BY <1>4 DEF Probe, Running
  <2>2. QED
    BY <1>1, <2>1
<1>5. ASSUME NEW rc \in Nat, ProbeEnds(j, rc) PROVE launches'[k].at = "starting"
  <2>1. launches' = Ended(j, rc) /\ k # j
    BY <1>5 DEF ProbeEnds, End, Running
  <2>2. QED
    BY <1>1, <2>1, LaunchEnds
<1>6. QED
    BY <1>2, <1>3, <1>4, <1>5

LEMMA StartingKept ==
    ASSUME Inv, [Next]_vars, NEW k \in DOMAIN launches, launches[k].at = "starting"
    PROVE  launches'[k].at = "starting" \/ launches'[k].rc = 130 \/ Create(k)
<1>1. CASE UNCHANGED vars
    BY <1>1 DEF vars, guardVars
<1>2. CASE Creates
  <2>1. PICK j \in DOMAIN launches : Create(j)
    BY <1>2 DEF Creates
  <2>2. j # k => launches'[k] = launches[k]
    BY <2>1, CreateDoes DEF Inv
  <2>3. QED
    BY <2>1, <2>2
<1>3. CASE Guards
    BY <1>3, GuardKeepsStarting DEF Guards
<1>4. CASE \E j \in DOMAIN launches :
              \/ (Grow(j) \/ OutOfMemory(j)) /\ UNCHANGED campaignVars
              \/ Probe(j)
              \/ ProbeEnds(j, 0) \/ ProbeEnds(j, 1)
    BY <1>4, ContainersKeepStarting
<1>5. CASE GuardDies
    BY <1>5, InterruptedStarting DEF GuardDies
<1>6. CASE Begin \/ Skip \/ MatrixReturn \/ NsysReturn \/ VariantReturn \/ Finish \/ CampaignStops
  <2>1. UNCHANGED guardVars
    BY <1>6 DEF Begin, Skip, MatrixReturn, NsysReturn, VariantReturn, Finish, CampaignStops
  <2>2. QED
    BY <2>1 DEF guardVars
<1>7. CASE RunNext \/ RunVariant
  <2>1. PICK l : launches' = Append(launches, l)
    BY <1>7 DEF RunNext, Launch, RunVariant
  <2>2. launches \in Seq(LaunchTypes) /\ Len(launches) \in Nat /\ DOMAIN launches = 1..Len(launches)
    BY LenProperties DEF Inv, GuardInv
  <2>3. launches'[k] = launches[k]
    BY <2>1, <2>2
  <2>4. QED
    BY <2>3
<1>8. CASE VariantKilled
  <2>1. Containers \in SUBSET Containers
    OBVIOUS
  <2>2. launches' = [j \in DOMAIN launches |->
                        IF j \in Containers THEN Ended(j, 137)[j] ELSE launches[j]]
    BY <1>8 DEF VariantKilled, Containers
  <2>3. QED
    BY <2>1, <2>2, KilledKeepsStarting
<1>9. CASE Interrupt
    BY <1>9, InterruptedStarting DEF Interrupt
<1>10. QED
    BY <1>1, <1>2, <1>3, <1>4, <1>5, <1>6, <1>7, <1>8, <1>9 DEF Next, CampaignInterrupt

\* Until something fails, a client that makes its container finds the driver whole,
\* its name free and no memory retained.
LEMMA StartsClean ==
    ASSUME Inv, [Next]_vars
    PROVE  CleanStart
<1> SUFFICES ASSUME NEW k \in DOMAIN launches, launches[k].at = "starting",
                    launches'[k].at # "starting", launches'[k].rc # 130,
                    faults = 0, Recovers
             PROVE  launches'[k].at = "running" /\ ~memory.retained
    BY DEF CleanStart
<1>1. Create(k)
    BY StartingKept
<1>2. Calm /\ k = guard.launch /\ guard.at \in {"poll", "kill", "wait"}
    BY DEF Calm, Inv, RecoverInv
<1>3. ~memory.retained /\ driver = Whole
    BY <1>2 DEF Inv, CalmInv, Own
<1>4. Containers = {}
    BY <1>2, OnlyOwn DEF Containers, Running
<1>5. Named(launches[k].name) = {}
    BY <1>4 DEF Named
<1>6. QED
    BY <1>1, <1>3, <1>5, CreateDoes DEF Inv

\* Nothing but the last command makes a recovery complete.
LEMMA LastIsRecoverStep ==
    ASSUME Inv, [Next]_vars, guard.at = "recover", guard'.step > Len(Commands)
    PROVE  RecoverStep /\ guard.step = 5
<1>1. guard.step \in 1..5 /\ guard \in GuardValues /\ Len(Commands) = 5
    BY DEF Inv, GuardInv, Commands
<1>2. guard'.step # guard.step
    BY <1>1
<1>3. RecoverStep
  <2>1. ~UNCHANGED guard
    BY <1>2
  <2>2. CASE Guards
    BY <1>1, <1>2, <2>1, <2>2
       DEF Guards, GuardStep, PollEnded, PollLow, PollTimeout, Kill, Wait, RecoverFails, GuardValues
  <2>3. CASE GuardDies
    BY <1>1, <1>2, <2>3 DEF GuardDies, GuardValues
  <2>4. CASE RunNext \/ Interrupt
    BY <2>4 DEF RunNext, Launch, Interrupt
  <2>5. CASE UNCHANGED guardVars \/ UNCHANGED vars
    BY <2>1, <2>5 DEF guardVars, vars
  <2>6. CASE Creates \/ RunVariant \/ VariantKilled
    BY <2>1, <2>6 DEF Creates, Create, RunVariant, VariantKilled
  <2>7. CASE \E j \in DOMAIN launches :
                \/ (Grow(j) \/ OutOfMemory(j)) /\ UNCHANGED campaignVars
                \/ Probe(j)
                \/ ProbeEnds(j, 0) \/ ProbeEnds(j, 1)
    BY <2>1, <2>7 DEF Grow, OutOfMemory, Probe, ProbeEnds, End
  <2>8. CASE Begin \/ Skip \/ MatrixReturn \/ NsysReturn \/ VariantReturn \/ Finish \/ CampaignStops
    BY <2>5, <2>8 DEF Begin, Skip, MatrixReturn, NsysReturn, VariantReturn, Finish, CampaignStops
  <2>9. QED
    BY <2>2, <2>3, <2>4, <2>5, <2>6, <2>7, <2>8 DEF Next, CampaignInterrupt
<1>4. guard'.step = guard.step + 1
    BY <1>3, CommandDoes DEF Inv
<1>5. QED
    BY <1>1, <1>3, <1>4

LEMMA Heals ==
    ASSUME Inv, [Next]_vars
    PROVE  RecoveryHeals
<1> SUFFICES ASSUME guard.at = "recover", guard'.step > Len(Commands)
             PROVE  driver' = Whole /\ ~memory'.retained
    BY DEF RecoveryHeals
<1>1. QED
    BY LastIsRecoverStep, LastCommand

\* The values of every launch, of the guard, of the driver and of the campaigns; only
\* the guard's client starts; and, until something fails, what runs is what is waited
\* for and what a kill leaves behind is still to be recovered.
THEOREM ExperimentTypes == Spec => []Inv
<1>1. Init => Inv
    BY InitInv
<1>2. Inv /\ [Next]_vars => Inv'
    BY NextInv
<1>3. QED
    BY <1>1, <1>2, PTL DEF Spec

\* Where nothing fails and memory is recovered after each launch: once the guard has
\* decided, for whatever reason, and killed by name, its container does not run
\* (watch_process, docker_kill).
THEOREM KilledContainersEnd == Spec => []RecoveredKillEndsContainer
<1>1. Inv => RecoveredKillEndsContainer
  <2> SUFFICES ASSUME Inv, config.faults = 0, Recovers, Decided
               PROVE  Own.at # "running"
    BY DEF RecoveredKillEndsContainer, KillEndsContainer
  <2>1. Calm
    BY DEF Inv, GuardInv, Calm
  <2>2. QED
    BY <2>1 DEF Inv, CalmInv, Decided
<1>2. QED
    BY <1>1, ExperimentTypes, PTL

\* Every launch until a first fault finds the driver whole, its name free and no memory
\* retained; and whatever came before, a recovery whose last command succeeds leaves the
\* driver whole (recover_nvidia_driver).
THEOREM RecoveryIsSound == Spec => RecoveryWorks
<1>1. Inv /\ [Next]_vars => [CleanStart /\ RecoveryHeals]_guardVars
    BY StartsClean, Heals
<1>2. QED
    BY <1>1, ExperimentTypes, PTL DEF Spec, RecoveryWorks
=============================================================================
