------------------------------ MODULE GuardedRun ------------------------------
(***************************************************************************)
(* scripts/guarded_docker_run.py: a container under a guard that watches   *)
(* the host's memory and a time limit, kills the container and afterwards  *)
(* recovers the NVIDIA driver.                                             *)
(*                                                                         *)
(* A launch is one run of the guard: its docker client creates the         *)
(* container, which runs until it ends or is removed.  Docker, the driver  *)
(* and the host's memory are modelled as the guard uses them.              *)
(***************************************************************************)
EXTENDS Integers, Sequences, FiniteSets

CONSTANTS
    Names,      \* names of containers
    Configs,    \* configurations, one of which a behaviour has
    None

VARIABLES
    config,
    launches,   \* every launch so far
    guard,      \* the guard that runs, or the last one
    driver,     \* the NVIDIA modules that are loaded, and nvidia-persistenced
    memory,     \* launches that take much of it, and whether the driver retains some
    faults      \* guards that died and recovery commands that failed

guardVars == <<config, launches, guard, driver, memory, faults>>

ASSUME NoneAssumption == None \notin Nat \cup Names

\* recover: --recover-nvidia-driver-on-exit; timeout: --timeout-seconds is not 0;
\* meminfo: /proc/meminfo can be read; retains: a killed container leaves memory
\* with the driver; launches, faults: bounds.
ASSUME ConfigAssumption ==
    \A c \in Configs :
        /\ {c.recover, c.timeout, c.meminfo, c.retains} \subseteq BOOLEAN
        /\ {c.launches, c.faults} \subseteq Nat

Whole == [modules |-> {"nvidia", "nvidia_uvm"}, daemon |-> TRUE]
NoGuard == [at |-> "off", launch |-> 0, reason |-> None, step |-> 0, rc |-> 0]

GuardInit ==
    /\ config \in Configs
    /\ launches = <<>>
    /\ guard = NoGuard
    /\ driver = Whole
    /\ memory = [large |-> {}, retained |-> FALSE]
    /\ faults = 0

-----------------------------------------------------------------------------
(* The container *)

Running(k) == launches[k].at = "running"
Containers == {k \in DOMAIN launches : Running(k)}
Named(n) == {k \in Containers : launches[k].name = n}

\* MemAvailable is below the threshold.
Low == memory.retained \/ memory.large # {}

Ended(k, rc) == [launches EXCEPT ![k].at = "ended", ![k].rc = rc]

\* docker run: the container is made and starts, unless its name is taken or the
\* driver is not there.
Create(k) ==
    /\ launches[k].at = "starting"
    /\ launches' = IF Named(launches[k].name) = {} /\ driver.modules = Whole.modules
                   THEN [launches EXCEPT ![k].at = "running"]
                   ELSE Ended(k, 125)
    /\ UNCHANGED <<config, guard, driver, memory, faults>>

\* The container's process allocates.
Grow(k) ==
    /\ Running(k) /\ memory' = [memory EXCEPT !.large = @ \cup {k}]
    /\ UNCHANGED <<config, launches, guard, driver, faults>>

\* Mutant of End: the memory of the process is not given back.
EndKeeps(k, rc) ==
    /\ Running(k)
    /\ launches' = Ended(k, rc)
    /\ UNCHANGED <<config, guard, driver, memory, faults>>

\* The process ends by itself.
End(k, rc) ==
    /\ Running(k)
    /\ launches' = Ended(k, rc)
    /\ memory' = [memory EXCEPT !.large = @ \ {k}]
    /\ UNCHANGED <<config, guard, driver, faults>>

\* Containers K are killed.
Killed(K) ==
    /\ launches' = [k \in DOMAIN launches |-> IF k \in K THEN Ended(k, 137)[k] ELSE launches[k]]
    /\ memory' = [large |-> memory.large \ K,
                  retained |-> memory.retained \/ (K # {} /\ config.retains)]

\* The kernel kills it at its cgroup's limit (--memory).
OutOfMemory(k) ==
    /\ k \in memory.large /\ Killed({k})
    /\ UNCHANGED <<config, guard, driver, faults>>

-----------------------------------------------------------------------------
(* The guard *)

Own == launches[guard.launch]

\* The guard starts a docker client.
Launch(n) ==
    /\ guard.at = "off" /\ Len(launches) < config.launches
    /\ launches' = Append(launches, [name |-> n, at |-> "starting", rc |-> None, done |-> 0])
    /\ guard' = [NoGuard EXCEPT !.at = "poll", !.launch = Len(launches) + 1]
    /\ UNCHANGED <<config, driver, memory, faults>>

\* proc.poll has a return code.
PollEnded ==
    /\ guard.at = "poll" /\ Own.at = "ended"
    /\ guard' = [guard EXCEPT !.at = "wait"]
    /\ UNCHANGED <<config, launches, driver, memory, faults>>

SeesLow == config.meminfo /\ Low

PollLow ==
    /\ guard.at = "poll" /\ Own.at # "ended" /\ SeesLow
    /\ guard' = [guard EXCEPT !.at = "kill", !.reason = "memory"]
    /\ UNCHANGED <<config, launches, driver, memory, faults>>

\* Mutant of PollTimeout: a meminfo that cannot be read skips the rest of the loop.
PollTimeoutAfterRead ==
    /\ guard.at = "poll" /\ Own.at = "running" /\ config.meminfo /\ ~Low /\ config.timeout
    /\ guard' = [guard EXCEPT !.at = "kill", !.reason = "timeout"]
    /\ UNCHANGED <<config, launches, driver, memory, faults>>

\* The time limit has passed, whether or not meminfo could be read.  The limit is
\* taken to be longer than docker needs to create the container.
PollTimeout ==
    /\ guard.at = "poll" /\ Own.at = "running" /\ ~SeesLow /\ config.timeout
    /\ guard' = [guard EXCEPT !.at = "kill", !.reason = "timeout"]
    /\ UNCHANGED <<config, launches, driver, memory, faults>>

\* Ctrl-C goes to the docker client too: one that has yet to create its container
\* stops.
Interrupted == IF Own.at = "starting" THEN Ended(guard.launch, 130) ELSE launches

\* Ctrl-C in the loop.
Interrupt ==
    /\ guard.at = "poll" /\ Own.at # "ended"
    /\ guard' = [guard EXCEPT !.at = "kill", !.reason = "interrupt"]
    /\ launches' = Interrupted
    /\ UNCHANGED <<config, driver, memory, faults>>

\* docker_kill: docker rm -f, by name.  Where there is no such container it fails,
\* and nothing looks at that.
Kill ==
    /\ guard.at = "kill" /\ Killed(Named(Own.name))
    /\ guard' = [guard EXCEPT !.at = "wait"]
    /\ UNCHANGED <<config, driver, faults>>

ReturnCode == IF guard.reason = None THEN Own.rc
              ELSE IF guard.reason = "timeout" THEN 124 ELSE 137

\* proc.wait, with no limit.
Wait ==
    /\ guard.at = "wait" /\ Own.at = "ended"
    /\ guard' = [guard EXCEPT !.at = IF config.recover THEN "recover" ELSE "off",
                              !.step = 1, !.rc = ReturnCode]
    /\ UNCHANGED <<config, launches, driver, memory, faults>>

-----------------------------------------------------------------------------
(* recover_nvidia_driver *)

\* Mutant of Commands: the daemon is stopped too late.
CommandsLate == <<"unload", "stop", "nvidia", "nvidia_uvm", "start">>

\* Stop the daemon, unload the modules, load nvidia, load nvidia_uvm, start the
\* daemon.
Commands == <<"stop", "unload", "nvidia", "nvidia_uvm", "start">>
Command == Commands[guard.step]

\* Modules that somebody uses cannot be unloaded.
Possible == Command = "unload" => Containers = {} /\ ~driver.daemon

DriverAfter ==
    CASE Command = "stop"       -> [driver EXCEPT !.daemon = FALSE]
      [] Command = "unload"     -> [driver EXCEPT !.modules = {}]
      [] Command = "nvidia"     -> [driver EXCEPT !.modules = @ \cup {"nvidia"}]
      [] Command = "nvidia_uvm" -> [driver EXCEPT !.modules = Whole.modules]
      [] Command = "start"      -> [driver EXCEPT !.daemon = TRUE]

Recovered == [guard EXCEPT !.at = IF guard.step = Len(Commands) THEN "off" ELSE "recover",
                           !.step = @ + 1]

RecoverStep ==
    /\ guard.at = "recover" /\ Possible
    /\ driver' = DriverAfter
    /\ memory' = [memory EXCEPT !.retained = @ /\ Command # "unload"]
    /\ guard' = Recovered
    /\ UNCHANGED <<config, launches, faults>>

\* Mutant of RecoverFails: the commands go on after one that failed.
RecoverFailsOn ==
    /\ guard.at = "recover"
    /\ \/ ~Possible /\ UNCHANGED faults
       \/ Possible /\ faults < config.faults /\ faults' = faults + 1
    /\ guard' = Recovered
    /\ UNCHANGED <<config, launches, driver, memory>>

\* A command fails: the rest is left out.
RecoverFails ==
    /\ guard.at = "recover"
    /\ \/ ~Possible /\ UNCHANGED faults
       \/ Possible /\ faults < config.faults /\ faults' = faults + 1
    /\ guard' = [guard EXCEPT !.at = "off"]
    /\ UNCHANGED <<config, launches, driver, memory>>

\* The guard dies: of a Ctrl-C outside the loop, or killed after one by the program
\* that started it.  What it has not done is left out.
GuardDies ==
    /\ guard.reason = "interrupt" \/ guard.at \in {"wait", "recover"}
    /\ guard.at # "off" /\ faults < config.faults
    /\ guard' = [guard EXCEPT !.at = "off", !.reason = "interrupt", !.rc = 130]
    /\ launches' = Interrupted
    /\ faults' = faults + 1
    /\ UNCHANGED <<config, driver, memory>>

GuardStep == PollEnded \/ PollLow \/ PollTimeout \/ Kill \/ Wait \/ RecoverStep \/ RecoverFails

-----------------------------------------------------------------------------
GuardTypes ==
    /\ \A k \in DOMAIN launches :
          /\ launches[k].name \in Names /\ launches[k].done \in 0..4
          /\ launches[k].at \in {"starting", "running", "ended"}
          /\ launches[k].rc = None <=> launches[k].at # "ended"
    /\ guard.at \in {"off", "poll", "kill", "wait", "recover"}
    /\ guard.launch \in 0..Len(launches) /\ (guard.launch = 0 => guard = NoGuard)
    /\ guard.reason \in {None, "memory", "timeout", "interrupt"} /\ guard.rc \in Nat
    /\ guard.at = "recover" => guard.step \in 1..5
    /\ driver.modules \subseteq Whole.modules /\ driver.daemon \in BOOLEAN
    /\ memory.large \subseteq Containers /\ memory.retained \in BOOLEAN
    /\ faults \in 0..config.faults

\* No memory stays retained for the next launch.
Recovers == config.retains => config.recover

\* The guard has decided that its container must go, and has seen to it.
Decided == guard.at = "wait" /\ guard.reason # None

\* Once the guard has killed, its container does not run: it "kills the container
\* if host MemAvailable falls below a configured threshold" (guarded_docker_run.py:4).
KillEndsContainer == Decided => Own.at # "running"

\* The same where memory is recovered after each launch and nothing fails.
RecoveredKillEndsContainer == config.faults = 0 /\ Recovers => KillEndsContainer

\* Until something fails, every launch finds the driver whole and no memory
\* retained: a recovery is over before the next container is made.
CleanStart ==
    \A k \in DOMAIN launches :
        /\ launches[k].at = "starting" /\ launches'[k].at # "starting" /\ launches'[k].rc # 130
        /\ faults = 0 /\ Recovers
        => launches'[k].at = "running" /\ ~memory.retained

\* Whatever state the driver was left in, a recovery whose last command succeeds
\* leaves it whole and its memory free.
RecoveryHeals ==
    guard.at = "recover" /\ guard'.step > Len(Commands) => driver' = Whole /\ ~memory'.retained

\* Recovery does what the next launch relies on.
RecoveryWorks == [][CleanStart /\ RecoveryHeals]_guardVars

\* A launch with a time limit comes to an end, however its container hangs.
RunEnds ==
    config.timeout /\ config.faults = 0 /\ Recovers
    => (guard.at = "poll" ~> guard.at = "off")
=============================================================================
