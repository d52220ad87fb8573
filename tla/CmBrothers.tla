----------------------------- MODULE CmBrothers -----------------------------
(***************************************************************************)
(* Several quectel-CM processes for one modem.  A process looks through    *)
(* /proc for older ones (a smaller pid) that have the control channel      *)
(* open, and sends each SIGTERM once a second until it is gone, and in the *)
(* end SIGKILL, before it opens the channel itself (kill_brothers).        *)
(* "quectel-CM -k pdn" looks for the process of a data call by its command *)
(* line and sends it SIGINT (kill_data_call_pdp).                          *)
(*                                                                         *)
(* What a process does between opening the channel and the end of its      *)
(* round is CmMain's; here the round may also never end.  Pids start in    *)
(* any order: the kernel's counter wraps.                                  *)
(***************************************************************************)
EXTENDS Naturals, FiniteSets, FiniteSetsExt

CONSTANTS
  Pids,         \* the managers
  Bystander,    \* a process that is no manager
  KillTimeout,  \* kill_timeout: signals sent before SIGKILL (15)
  Plans         \* bound: what happens in one behaviour: the managers that
                \* start, searches, and breaks (resets, unplugs, rounds that
                \* never end)

ASSUME BrothersAssumption ==
  /\ Pids \subseteq Nat \ {0} /\ Pids # {} /\ Bystander \in Nat \ Pids
  /\ KillTimeout \in Nat \ {0}
  /\ Plans \subseteq [starts : SUBSET Pids, seeks : BOOLEAN, breaks : Nat]

VARIABLES
  at,        \* the step of each manager
  stay,      \* g_donot_exit_when_modem_hangup
  stopq,     \* SIG_EVENT_STOP waits in signal_control_fd
  channel,   \* the managers with the control channel open
  looked,    \* the pid whose /proc entry was looked at last
  victim,    \* who is being killed; 0: nobody
  signals,   \* signals sent to it in this loop
  seen,      \* managers this one found with the channel open
  plugged,   \* the modem is there
  passing,   \* Bystander is there
  seek,      \* the process started with -k
  plan       \* what may still happen

brotherVars == <<at, stay, stopq, channel, looked, victim, signals, seen, plugged, passing, seek, plan>>

Alive(p) == at[p] \notin {"absent", "dead"}
Procs == {p \in Pids : Alive(p)} \cup {p \in {Bystander} : passing}

BrotherTypeOK ==
  /\ at \in [Pids -> {"absent", "fresh", "detect", "scan", "kill", "open", "run", "stuck", "rest", "dead"}]
  /\ stay \subseteq Pids /\ stopq \subseteq Pids /\ channel \subseteq Pids
  /\ \A p \in Pids : /\ looked[p] < p /\ victim[p] < p /\ signals[p] \in 0 .. KillTimeout
                     /\ (at[p] = "kill" => victim[p] # 0)
  /\ \A p \in Pids : seen[p] \subseteq {q \in Pids : q < p}
  /\ channel = {p \in Pids : at[p] \in {"run", "stuck"}}
  /\ plugged \in BOOLEAN /\ passing \in BOOLEAN
  /\ seek.at \in {"idle", "look", "found", "failed", "done"}
  /\ seek.list \subseteq seek.found /\ seek.found \subseteq Pids \cup {Bystander}

BrotherInit ==
  /\ at = [p \in Pids |-> "absent"] /\ stay = {} /\ stopq = {} /\ channel = {}
  /\ looked = [p \in Pids |-> 0] /\ victim = [p \in Pids |-> 0] /\ signals = [p \in Pids |-> 0]
  /\ seen = [p \in Pids |-> {}] /\ plugged = TRUE /\ plan \in Plans /\ passing = plan.seeks
  /\ seek = [at |-> "idle", found |-> {}, list |-> {}, target |-> 0]

Moves(p, from, to) == at[p] = from /\ at' = [at EXCEPT ![p] = to]
AllElse == <<stay, stopq, channel, looked, victim, signals, seen, plugged, passing, seek, plan>>

-----------------------------------------------------------------------------
(* A manager *)

StartManager(p) == p \in plan.starts /\ Moves(p, "absent", "fresh") /\ UNCHANGED AllElse

\* signal(); from here on SIGTERM and SIGINT go to ql_sigaction.
Handlers(p) == Moves(p, "fresh", "detect") /\ UNCHANGED AllElse

\* quectel_CM(): without a device the round is over.  qmi_main() then makes
\* the sockets its signals are written to.
quectel_CM(p) ==
  /\ Moves(p, "detect", IF plugged THEN "scan" ELSE "rest")
  /\ looked' = [looked EXCEPT ![p] = 0] /\ seen' = [seen EXCEPT ![p] = {}]
  /\ UNCHANGED <<stay, stopq, channel, victim, signals, plugged, passing, seek, plan>>

Unseen(p) == {q \in Pids : Alive(q) /\ looked[p] < q /\ q < p}

\* is_same_linkfile() for its descriptors.
Brothers(q) == q \in channel

\* The next entry of /proc; larger pids are passed over.
is_brother_process(p) ==
  /\ at[p] = "scan" /\ Unseen(p) # {}
  /\ LET q == Min(Unseen(p)) IN
     /\ looked' = [looked EXCEPT ![p] = q]
     /\ IF Brothers(q)
          THEN /\ at' = [at EXCEPT ![p] = "kill"] /\ victim' = [victim EXCEPT ![p] = q]
               /\ signals' = [signals EXCEPT ![p] = 0] /\ seen' = [seen EXCEPT ![p] = @ \cup {q}]
          ELSE UNCHANGED <<at, victim, signals, seen>>
  /\ UNCHANGED <<stay, stopq, channel, plugged, passing, seek, plan>>

kill_brothers(p) == /\ Unseen(p) = {} /\ Moves(p, "scan", "open") /\ UNCHANGED AllElse

\* ql_sigaction(), or death before the handler is there.  Before the sockets
\* of a round are there, and between two rounds, the event is lost.
Listens(q) == at[q] \in {"scan", "kill", "open", "run", "stuck"}
Signalled(q) ==
  /\ at' = IF at[q] = "fresh" THEN [at EXCEPT ![q] = "dead"] ELSE at
  /\ stay' = stay \ {q}
  /\ stopq' = IF Listens(q) THEN stopq \cup {q} ELSE stopq

\* Mutant of MoreSignals: as long as the process is there.
MoreSignalsForEver(p) == TRUE

MoreSignals(p) == signals[p] < KillTimeout

Terminate(p) ==
  /\ at[p] = "kill" /\ Alive(victim[p]) /\ MoreSignals(p)
  /\ Signalled(victim[p])
  /\ signals' = [signals EXCEPT ![p] = IF @ < KillTimeout THEN @ + 1 ELSE @]
  /\ UNCHANGED <<channel, looked, victim, seen, plugged, passing, seek, plan>>

\* Mutant of Spared: SIGKILL is left out.
SparedAlways(q) == TRUE

\* kill(pid, 0) tells whether SIGKILL is needed.
Spared(q) == ~Alive(q)

\* The loop ends because the process is gone or was signalled often enough.
KillOver(p) ==
  /\ at[p] = "kill" /\ (~Alive(victim[p]) \/ ~MoreSignals(p))
  /\ LET q == victim[p] IN
     IF Spared(q)
       THEN at' = [at EXCEPT ![p] = "scan"] /\ UNCHANGED <<channel, stopq>>
       ELSE /\ at' = [at EXCEPT ![p] = "scan", ![q] = "dead"]
            /\ channel' = channel \ {q} /\ stopq' = stopq \ {q}
  /\ victim' = [victim EXCEPT ![p] = 0]
  /\ UNCHANGED <<stay, looked, signals, seen, plugged, passing, seek, plan>>

\* The reader opens the channel; if it cannot the round is over.
OpenChannel(p) ==
  /\ Moves(p, "open", IF plugged THEN "run" ELSE "rest")
  /\ channel' = IF plugged THEN channel \cup {p} ELSE channel
  /\ stopq' = IF plugged THEN stopq ELSE stopq \ {p}
  /\ UNCHANGED <<stay, looked, victim, signals, seen, plugged, passing, seek, plan>>

\* SIG_EVENT_STOP, or the modem is gone: the round ends, the sockets close.
EndRound(p) ==
  /\ p \in stopq \/ ~plugged
  /\ Moves(p, "run", "rest")
  /\ channel' = channel \ {p} /\ stopq' = stopq \ {p}
  /\ UNCHANGED <<stay, looked, victim, signals, seen, plugged, passing, seek, plan>>

\* main(): once more after a reset, unless a signal came since.
NextRound(p) ==
  /\ Moves(p, "rest", IF p \in stay THEN "detect" ELSE "dead")
  /\ UNCHANGED AllElse

-----------------------------------------------------------------------------
(* The modem, and rounds that never end *)

Break == plan.breaks > 0 /\ plan' = [plan EXCEPT !.breaks = @ - 1]

\* MODEM_REPORT_RESET_EVENT
ModemResets(p) ==
  /\ Break /\ Moves(p, "run", "rest")
  /\ stay' = stay \cup {p} /\ channel' = channel \ {p} /\ stopq' = stopq \ {p}
  /\ UNCHANGED <<looked, victim, signals, seen, plugged, passing, seek>>

\* A request or pthread_join() that does not return.
Hangs(p) ==
  /\ Break /\ Moves(p, "run", "stuck")
  /\ UNCHANGED <<stay, stopq, channel, looked, victim, signals, seen, plugged, passing, seek>>

ModemLeaves ==
  /\ Break /\ plugged /\ plugged' = FALSE
  /\ UNCHANGED <<at, stay, stopq, channel, looked, victim, signals, seen, passing, seek>>

ModemReturns ==
  /\ ~plugged /\ plugged' = TRUE
  /\ UNCHANGED <<at, stay, stopq, channel, looked, victim, signals, seen, passing, seek, plan>>

BystanderEnds ==
  /\ passing /\ passing' = FALSE
  /\ UNCHANGED <<at, stay, stopq, channel, looked, victim, signals, seen, plugged, seek, plan>>

-----------------------------------------------------------------------------
(* quectel-CM -k *)

\* glob("/proc/*/cmdline")
Glob ==
  /\ plan.seeks /\ seek.at = "idle"
  /\ seek' = [seek EXCEPT !.at = "look", !.found = Procs, !.list = Procs]
  /\ UNCHANGED <<at, stay, stopq, channel, looked, victim, signals, seen, plugged, passing, plan>>

\* An entry that cannot be opened any more ends the search, a manager is found,
\* another process is passed over.
Looked(p) ==
  IF p \notin Procs THEN [seek EXCEPT !.at = "failed"]
  ELSE IF p # Bystander THEN [seek EXCEPT !.at = "found", !.target = p]
  ELSE [seek EXCEPT !.list = @ \ {p}]

\* The entries come in no order.
getpid_by_pdp ==
  /\ seek.at = "look"
  /\ \/ \E p \in seek.list : seek' = Looked(p)
     \/ seek.list = {} /\ seek' = [seek EXCEPT !.at = "failed"]
  /\ UNCHANGED <<at, stay, stopq, channel, looked, victim, signals, seen, plugged, passing, plan>>

\* kill(pid, SIGINT), which may find the process gone.
kill_data_call_pdp ==
  /\ seek.at = "found" /\ seek' = [seek EXCEPT !.at = "done"]
  /\ IF Alive(seek.target) THEN Signalled(seek.target) ELSE UNCHANGED <<at, stay, stopq>>
  /\ UNCHANGED <<channel, looked, victim, signals, seen, plugged, passing, plan>>

ManagerSteps(p) ==
  \/ Handlers(p) \/ quectel_CM(p) \/ is_brother_process(p) \/ kill_brothers(p) \/ Terminate(p)
  \/ KillOver(p) \/ OpenChannel(p) \/ EndRound(p) \/ NextRound(p)

BrotherNext ==
  \/ \E p \in Pids : StartManager(p) \/ ManagerSteps(p) \/ ModemResets(p) \/ Hangs(p)
  \/ getpid_by_pdp \/ ModemLeaves \/ ModemReturns \/ BystanderEnds \/ Glob \/ kill_data_call_pdp

BrotherSpec == BrotherInit /\ [][BrotherNext]_brotherVars

-----------------------------------------------------------------------------
(* Properties *)

\* A manager that was seen with the channel open is gone for good before the
\* one that saw it opens the channel, whatever it is doing: resetting, between
\* two rounds, or not coming to an end.
BrothersGone ==
  \A p \in Pids : at[p] \in {"open", "run", "stuck"} => \A q \in seen[p] : ~Alive(q)

\* The search of -k misses a manager that was there only because a process
\* ended while it went on, which the search takes for its own failure.
SearchFindsManager ==
  seek.at = "failed" /\ seek.found \cap Pids # {} => \E p \in seek.found : p \notin Procs

\* A manager comes to open the channel, or ends: one that hangs cannot keep it.
TakesOver == \A p \in Pids : at[p] = "detect" ~> (p \in channel \/ at[p] \in {"rest", "dead"})

\* A manager found in /proc is dealt with, and one that is there is found
\* (is_brother_process, getpid_by_pdp).
ManagersFound == BrotherTypeOK /\ BrothersGone /\ SearchFindsManager
=============================================================================
