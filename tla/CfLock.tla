------------------------------- MODULE CfLock -------------------------------
(***************************************************************************)
(* The lock directory and the job file that keep two deployments of the    *)
(* Cloudflare Tunnel plugin apart: the RPC "deploy" that forks a worker,   *)
(* the command line's foreground deploy, "stop", and the worker itself.    *)
(* One file operation is one step.  What a worker does to Cloudflare is    *)
(* CfDeploy; here it is a slow state.                                      *)
(*                                                                         *)
(* The lock directory is "young" for the ten seconds after its mkdir, then *)
(* "old".  Local file operations take less than ten seconds, requests and  *)
(* service restarts may take longer, so the lock ages only while nobody is *)
(* in the middle of a few of the former.  A job names the process that     *)
(* wrote it, or Nobody once that process is gone.                          *)
(***************************************************************************)
EXTENDS Integers, FiniteSets

CONSTANTS Procs,       \* bound: processes alive at the same time
          MaxCrashes,  \* bound: processes killed
          Nobody

ASSUME CfLockAssumption == MaxCrashes \in Nat /\ Nobody \notin Procs

VARIABLES lock, job, proc, crashes,
          saw,     \* the job that each caller of lock() has read
          since,   \* history: deployments under way since it read it
          shared   \* history: two processes have held the lock at one time
lockVars == <<lock, job, proc, crashes, saw, since, shared>>

Kinds  == {"rpc", "cli", "stop", "worker"}
Phases == {"deploying", "over"}   \* over: no job yet, ready, connecting, error, stopped
Slow   == {"origin", "deploy", "stopping"}
Steps  == Slow \cup {"idle", "try", "look", "stat", "alive", "steal", "again", "hold",
                     "fork", "queued", "rmdir", "rmdir_error", "outer"}
Jobs   == [phase : Phases, pid : Procs \cup {Nobody}]

LockTypeOK ==
  /\ lock \in {"none", "young", "old"}
  /\ job \in Jobs /\ saw \in [Procs -> Jobs] /\ since \in [Procs -> SUBSET Procs]
  /\ proc \in [Procs -> [pc : Steps, kind : Kinds \cup {Nobody}]]
  /\ crashes \in 0 .. MaxCrashes /\ shared \in BOOLEAN

Gone  == [pc |-> "idle", kind |-> Nobody]
NoJob == [phase |-> "over", pid |-> Nobody]

LockInit ==
  /\ lock = "none" /\ job = NoJob /\ saw = [p \in Procs |-> NoJob] /\ since = [p \in Procs |-> {}]
  /\ proc = [p \in Procs |-> Gone] /\ crashes = 0 /\ shared = FALSE

Holding(p) == proc[p].pc \notin {"idle", "try", "look", "stat", "alive", "steal", "again"}

At(p, step)   == proc[p].pc = step
Goto(p, step) == proc' = [proc EXCEPT ![p].pc = step]

\* A process that ends is no longer active, whatever job names it.
Orphaned(j, p) == IF j.pid = p THEN [j EXCEPT !.pid = Nobody] ELSE j
Ended(p) ==
  /\ job' = Orphaned(job, p)
  /\ saw' = [q \in Procs |-> IF q = p THEN NoJob ELSE Orphaned(saw[q], p)]
Exit(p) == proc' = [proc EXCEPT ![p] = Gone] /\ Ended(p)

\* History: who deploys when p reads the job, as long as it goes on.
Watch ==
  LET under(p) == IF At(p, "look") THEN {q \in Procs : At(q, "deploy")}
                  ELSE {q \in since[p] : proc'[q].pc = "deploy"}
  IN since' = [p \in Procs |-> IF proc'[p].pc \in {"stat", "alive"} /\ ~shared THEN under(p) ELSE {}]

-----------------------------------------------------------------------------
(* lock() *)

Call(p, kind) ==
  /\ At(p, "idle")
  /\ proc' = [proc EXCEPT ![p] = [pc |-> "try", kind |-> kind]]
  /\ UNCHANGED <<lock, job, saw, crashes, shared>>

Mkdir(p) ==
  /\ lock = "none" /\ lock' = "young" /\ Goto(p, "hold") /\ UNCHANGED <<job, saw>>
  /\ shared' = (shared \/ \E q \in Procs : Holding(q))

TryLock(p) ==
  /\ At(p, "try")
  /\ \/ Mkdir(p)
     \/ lock # "none" /\ Goto(p, "look") /\ UNCHANGED <<lock, job, saw, shared>>
  /\ UNCHANGED crashes

\* read_json(JOB), fs.stat(LOCK) and the look for the process are three steps.
ReadJob(p) ==
  /\ At(p, "look") /\ Goto(p, "stat") /\ saw' = [saw EXCEPT ![p] = job]
  /\ UNCHANGED <<lock, job, crashes, shared>>

StatLock(p) ==
  /\ At(p, "stat")
  /\ IF lock = "young" THEN Exit(p) ELSE Goto(p, "alive") /\ UNCHANGED <<job, saw>>
  /\ UNCHANGED <<lock, crashes, shared>>

active_job(j) == j.pid # Nobody

\* Mutant of Deploying: only the age of the directory counts.
NotLooked(j) == FALSE

\* Mutant of Deploying: the process that wrote the job is not looked for.
DeployingByPhase(j) == j.phase = "deploying"

Deploying(j) == j.phase = "deploying" /\ active_job(j)

LookAtJob(p) ==
  /\ At(p, "alive")
  /\ IF Deploying(saw[p])
       THEN Exit(p)
       ELSE Goto(p, "steal") /\ saw' = [saw EXCEPT ![p] = NoJob] /\ UNCHANGED job
  /\ UNCHANGED <<lock, crashes, shared>>

RemoveStale(p) ==
  /\ At(p, "steal")
  /\ lock' = "none" /\ Goto(p, "again")
  /\ UNCHANGED <<job, saw, crashes, shared>>

TryAgain(p) ==
  /\ At(p, "again")
  /\ \/ Mkdir(p)
     \/ lock # "none" /\ Exit(p) /\ UNCHANGED <<lock, shared>>
  /\ UNCHANGED crashes

-----------------------------------------------------------------------------
(* deploy(), stop() and the worker *)

\* stop() writes no job before the service is down.
Begin(p) ==
  /\ At(p, "hold")
  /\ IF proc[p].kind = "stop"
       THEN Goto(p, "stopping") /\ UNCHANGED job
       ELSE /\ job' = [phase |-> "deploying", pid |-> p]
            /\ Goto(p, IF proc[p].kind = "cli" THEN "origin" ELSE "fork")
  /\ UNCHANGED <<lock, saw, crashes, shared>>

BadSettings(p) ==
  /\ At(p, "hold") /\ proc[p].kind \in {"rpc", "cli"}
  /\ Goto(p, "outer")
  /\ UNCHANGED <<lock, job, saw, crashes, shared>>

\* The parent answers "accepted" and exits; the worker is a new interpreter.
Fork(p) ==
  /\ At(p, "fork")
  /\ \E c \in Procs :
       /\ At(c, "idle")
       /\ proc' = [proc EXCEPT ![p] = Gone, ![c] = [pc |-> "queued", kind |-> "worker"]]
  /\ Ended(p)
  /\ UNCHANGED <<lock, crashes, shared>>

ForkFails(p) ==
  /\ At(p, "fork")
  /\ Goto(p, "outer")
  /\ UNCHANGED <<lock, job, saw, crashes, shared>>

queued(p) ==
  /\ At(p, "queued")
  /\ IF lock # "none" /\ job.phase = "deploying"
       THEN Goto(p, "origin") /\ UNCHANGED <<job, saw>>
       ELSE Exit(p)
  /\ UNCHANGED <<lock, crashes, shared>>

\* core.deploy first asks for the origin; only then does it write a job.
Progress(p) ==
  /\ proc[p].pc \in {"origin", "deploy"}
  /\ job' = [phase |-> "deploying", pid |-> p]
  /\ Goto(p, "deploy")
  /\ UNCHANGED <<lock, saw, crashes, shared>> /\ Watch

Deployed(p) ==
  /\ At(p, "deploy")
  /\ job' = NoJob
  /\ Goto(p, "rmdir")
  /\ UNCHANGED <<lock, saw, crashes, shared>>

DeployFails(p) ==
  /\ proc[p].pc \in {"origin", "deploy"}
  /\ job' = NoJob
  /\ Goto(p, "rmdir_error")
  /\ UNCHANGED <<lock, saw, crashes, shared>>

Stopped(p) ==
  /\ At(p, "stopping")
  /\ job' = NoJob
  /\ Goto(p, "rmdir")
  /\ UNCHANGED <<lock, saw, crashes, shared>>

StopFails(p) ==
  /\ At(p, "stopping")
  /\ Goto(p, "rmdir")
  /\ UNCHANGED <<lock, job, saw, crashes, shared>>

\* worker() and stop() remove the directory; the error of a foreground worker
\* passes through deploy(), which removes it once more.
Rmdir(p) ==
  /\ proc[p].pc \in {"rmdir", "rmdir_error"}
  /\ lock' = "none"
  /\ IF At(p, "rmdir_error") /\ proc[p].kind = "cli"
       THEN Goto(p, "outer") /\ UNCHANGED <<job, saw>>
       ELSE Exit(p)
  /\ UNCHANGED <<crashes, shared>>

OuterRmdir(p) ==
  /\ At(p, "outer")
  /\ lock' = "none" /\ Exit(p)
  /\ UNCHANGED <<crashes, shared>>

Crash(p) ==
  /\ ~At(p, "idle") /\ crashes < MaxCrashes
  /\ crashes' = crashes + 1 /\ Exit(p)
  /\ UNCHANGED <<lock, shared>> /\ Watch

Age ==
  /\ lock = "young" /\ \A p \in Procs : proc[p].pc \in Slow \cup {"idle", "try", "look", "stat", "alive"}
  /\ lock' = "old"
  /\ UNCHANGED <<job, proc, saw, since, crashes, shared>>

-----------------------------------------------------------------------------
Step(p) ==
  /\ \/ TryLock(p) \/ ReadJob(p) \/ StatLock(p) \/ LookAtJob(p) \/ RemoveStale(p) \/ TryAgain(p)
     \/ Begin(p) \/ BadSettings(p) \/ Fork(p) \/ ForkFails(p) \/ queued(p)
     \/ Deployed(p) \/ DeployFails(p) \/ Stopped(p) \/ StopFails(p)
     \/ Rmdir(p) \/ OuterRmdir(p)
  /\ Watch

Caller == \E p \in Procs, k \in {"rpc", "cli", "stop"} : Call(p, k) /\ Watch

LockNext == Caller \/ Age \/ \E p \in Procs : Step(p) \/ Progress(p) \/ Crash(p)

LockSpec == LockInit /\ [][LockNext]_lockVars

\* Every process runs on and its requests time out; a user who was told
\* "busy" or saw a deployment interrupted tries again; and time passes.
LockFairSpec ==
  /\ LockSpec
  /\ \A p \in Procs : WF_lockVars(Step(p))
  /\ WF_lockVars(Caller) /\ WF_lockVars(Age)

-----------------------------------------------------------------------------
\* A deployment that has asked for its origin, and that nobody got in beside
\* before, is never taken for a stale lock by a caller who reads the job file
\* while it goes on, however long that is and whatever happens between the read,
\* the age test and the test for the process.  (Before that, for stop(), and for
\* a caller who read the job of the process before it, only the ten seconds do:
\* such a caller takes the lock from a deployment that has just begun.)
DeploymentKeepsLock ==
  [][~shared => \A p \in Procs : At(p, "alive") /\ proc'[p].pc = "steal" => since[p] = {}]_lockVars

\* A lock directory that outlived its owner (a crash, a power cut short of a
\* reboot) does not block the plugin for ever: some later call takes it over.
StaleLockIsTakenOver ==
  LET Stale == lock # "none" /\ \A p \in Procs : ~Holding(p)
  IN  Stale ~> ~Stale

\* Lock and job file keep their form, and a deployment under way its lock.
LockIsKept == []LockTypeOK /\ DeploymentKeepsLock
=============================================================================
