---------------------------- MODULE PrintServer ----------------------------
(***************************************************************************)
(* The processes around copy_stream: the standalone p910nd server that     *)
(* procd starts for every connected printer, the one-shot process of       *)
(* inetd, the lock they take, and the hotplug script that reconfigures and *)
(* restarts the service when a printer is plugged in.                      *)
(*                                                                         *)
(* A job is the state "copy"; what happens inside it is CopyStream, which  *)
(* promises that the state is left (JobEnds).  A device is written by a    *)
(* process in "copy", and by a killed process that the kernel has not torn *)
(* down yet.                                                               *)
(***************************************************************************)
EXTENDS Integers

CONSTANTS Devices,      \* printer devices, /dev/usb/lp0 ...
          Ports,        \* port offsets; 0 is what the hotplug script assigns
          Pids,         \* bound: process ids
          MaxRespawns,  \* how often procd restarts an instance that exited
          None          \* no pid, device or port

ASSUME PrintServerAssumption ==
  /\ Ports \subseteq Nat /\ 0 \in Ports
  /\ MaxRespawns \in Nat
  /\ None \notin Devices \cup Ports \cup Pids

VARIABLES
  standalone, \* servers of procd, or one-shot processes of inetd
  plugged,    \* devices that exist
  added,      \* "add" events that the hotplug script has not been run for
  script,     \* the device the hotplug script is working on, or None
  section,    \* device -> port of its enabled config section, or None
  proc,       \* pid -> its state, device, port and open_printer_fail
  owner,      \* port -> pid that holds the lock of that port, or None
  respawns    \* device -> restarts procd has left

vars == <<standalone, plugged, added, script, section, proc, owner, respawns>>

States == {"free",      \* no process
           "lock",      \* in get_lock: F_SETLKW waits
           "bind",      \* server: creating the listening socket
           "accept",    \* server: waiting for a client
           "open",      \* about to try open_printer
           "sleep",     \* sleep(10) before the next try
           "copy",      \* in copy_stream, the printer is open
           "unlocked",  \* server: free_lock done, exit(1) to come
           "dying"}     \* killed while the printer was open

TypeOK ==
  /\ standalone \in BOOLEAN
  /\ plugged \subseteq Devices /\ added \subseteq Devices /\ script \in Devices \cup {None}
  /\ section \in [Devices -> Ports \cup {None}]
  /\ proc \in [Pids -> [st : States, dev : Devices \cup {None},
                      port : Ports \cup {None}, fails : 0 .. 3]]
  /\ owner \in [Ports -> Pids \cup {None}]
  /\ respawns \in [Devices -> 0 .. MaxRespawns]

Free == [st |-> "free", dev |-> None, port |-> None, fails |-> 0]
Started(d, q) == [st |-> "lock", dev |-> d, port |-> q, fails |-> 0]

\* The user may have configured sections beforehand, on ports of their own.
Init ==
  /\ standalone \in BOOLEAN
  /\ plugged = {} /\ added = {} /\ script = None
  /\ section \in [Devices -> Ports \cup {None}]
  /\ proc = [p \in Pids |-> Free]
  /\ owner = [q \in Ports |-> None]
  /\ respawns = [d \in Devices |-> MaxRespawns]

\* open_printer_fail is local to one turn of the accept loop.
Go(p, st) == proc' = [proc EXCEPT ![p].st = st, ![p].fails = 0]

\* The end of a process: the kernel closes its descriptors and drops its lock.
Gone(p) ==
  /\ proc' = [proc EXCEPT ![p] = Free]
  /\ owner' = [q \in Ports |-> IF owner[q] = p THEN None ELSE owner[q]]

-----------------------------------------------------------------------------
(* get_lock, and the listening socket of server() *)

GetLock(p) ==
  /\ proc[p].st = "lock" /\ owner[proc[p].port] = None
  /\ owner' = [owner EXCEPT ![proc[p].port] = p]
  /\ Go(p, IF standalone THEN "bind" ELSE "open")
  /\ UNCHANGED <<standalone, plugged, added, script, section, respawns>>

\* The lock file cannot be opened, or a signal interrupts the wait.
GetLockFails(p) ==
  /\ proc[p].st = "lock"
  /\ Gone(p)
  /\ UNCHANGED <<standalone, plugged, added, script, section, respawns>>

\* A process that released its lock may still own the listening socket.
Listening(q) == {p \in Pids : /\ proc[p].port = q
                              /\ proc[p].st \in {"accept", "open", "sleep", "copy",
                                                 "unlocked", "dying"}}

Bind(p) ==
  /\ proc[p].st = "bind" /\ Listening(proc[p].port) = {}
  /\ Go(p, "accept")
  /\ UNCHANGED <<standalone, plugged, added, script, section, owner, respawns>>

\* No address could be bound: netfd is -1 and accept fails at once.
BindFails(p) ==
  /\ proc[p].st = "bind"
  /\ Gone(p)
  /\ UNCHANGED <<standalone, plugged, added, script, section, respawns>>

-----------------------------------------------------------------------------
(* The accept loop of server(), and one_job() *)

Accept(p) ==
  /\ proc[p].st = "accept"
  /\ Go(p, "open")
  /\ UNCHANGED <<standalone, plugged, added, script, section, owner, respawns>>

AcceptFails(p) ==
  /\ proc[p].st = "accept"
  /\ Go(p, "unlocked")
  /\ owner' = [owner EXCEPT ![proc[p].port] = None]
  /\ UNCHANGED <<standalone, plugged, added, script, section, respawns>>

Exit(p) ==
  /\ proc[p].st = "unlocked"
  /\ Gone(p)
  /\ UNCHANGED <<standalone, plugged, added, script, section, respawns>>

OpenPrinter(p) ==
  /\ proc[p].st = "open" /\ proc[p].dev \in plugged
  /\ Go(p, "copy")
  /\ UNCHANGED <<standalone, plugged, added, script, section, owner, respawns>>

\* The next try is the n-th after a failure.
Sleep(p, n) == proc' = [proc EXCEPT ![p].st = "sleep", ![p].fails = n]

\* Mutant of OpenFails: no limit.
OpenFailsForEver(p) ==
  /\ proc[p].st = "open" /\ Sleep(p, 0)
  /\ UNCHANGED <<standalone, plugged, added, script, section, owner, respawns>>

\* The server tries four times and then drops the client; one_job never
\* gives up.
OpenFails(p) ==
  /\ proc[p].st = "open"
  /\ IF standalone /\ proc[p].fails = 3
     THEN Go(p, "accept")
     ELSE Sleep(p, IF standalone THEN proc[p].fails + 1 ELSE 0)
  /\ UNCHANGED <<standalone, plugged, added, script, section, owner, respawns>>

Wake(p) ==
  /\ proc[p].st = "sleep"
  /\ proc' = [proc EXCEPT ![p].st = "open"]
  /\ UNCHANGED <<standalone, plugged, added, script, section, owner, respawns>>

\* copy_stream returns; both descriptors are closed.
CopyEnds(p) ==
  /\ proc[p].st = "copy"
  /\ IF standalone THEN Go(p, "accept") /\ UNCHANGED owner ELSE Gone(p)
  /\ UNCHANGED <<standalone, plugged, added, script, section, respawns>>

-----------------------------------------------------------------------------
(* procd, inetd, hotplug, clients *)

\* A process in the middle of a write to the device takes a while to die;
\* it keeps the device and the lock until then.
Killed(r) == IF r.st = "free" THEN r
             ELSE IF r.st \in {"copy", "dying"} THEN [r EXCEPT !.st = "dying", !.fails = 0]
             ELSE Free

Crash(p) ==
  /\ proc[p].st \notin {"free", "dying", "copy"}
  /\ Gone(p)
  /\ UNCHANGED <<standalone, plugged, added, script, section, respawns>>

CrashInCopy(p) ==
  /\ proc[p].st = "copy"
  /\ Go(p, "dying")
  /\ UNCHANGED <<standalone, plugged, added, script, section, owner, respawns>>

Reap(p) ==
  /\ proc[p].st = "dying"
  /\ Gone(p)
  /\ UNCHANGED <<standalone, plugged, added, script, section, respawns>>

\* The instances procd has for a device.
Running(d) == {p \in Pids : proc[p].dev = d /\ proc[p].st # "dying"}

\* procd respawns an instance that exited, as long as its budget lasts.
Respawn(p, d) ==
  /\ standalone /\ d \in plugged /\ section[d] # None /\ respawns[d] > 0
  /\ Running(d) = {} /\ proc[p] = Free
  /\ respawns' = [respawns EXCEPT ![d] = @ - 1]
  /\ proc' = [proc EXCEPT ![p] = Started(d, section[d])]
  /\ UNCHANGED <<standalone, plugged, added, script, section, owner>>

\* "/etc/init.d/p910nd restart": every instance is killed, and one is started
\* for each section whose device exists, on a new pid.  The old process may
\* still be around when the new one starts.
RestartAll(sec) ==
  LET killed == [p \in Pids |-> Killed(proc[p])]
      wanted == {d \in plugged : sec[d] # None}
  IN \E pid \in [wanted -> {p \in Pids : killed[p] = Free}] :
       /\ \A d, e \in wanted : d # e => pid[d] # pid[e]
       /\ proc' = [p \in Pids |->
                     IF \E d \in wanted : pid[d] = p
                     THEN LET d == CHOOSE d \in wanted : pid[d] = p
                          IN Started(d, sec[d])
                     ELSE killed[p]]
       /\ owner' = [q \in Ports |->
                      IF owner[q] # None /\ killed[owner[q]] = Free
                      THEN None ELSE owner[q]]

\* The device appears.  procd runs one hotplug script at a time.
Plug(d) ==
  /\ d \notin plugged
  /\ plugged' = plugged \cup {d} /\ added' = added \cup {d}
  /\ UNCHANGED <<standalone, script, section, proc, owner, respawns>>

\* The script reads the printer's identity and, when there is a driver file,
\* copies it to the device; daemons go on meanwhile.
HotplugAdd(d) ==
  /\ d \in added /\ script = None
  /\ added' = added \ {d} /\ script' = d
  /\ UNCHANGED <<standalone, plugged, section, proc, owner, respawns>>

\* Mutant of HotplugCommit: the default port replaces the configured one.
HotplugResetsPort ==
  /\ script # None /\ script' = None
  /\ section' = [section EXCEPT ![script] = 0]
  /\ IF standalone
     THEN RestartAll(section') /\ respawns' = [e \in Devices |-> MaxRespawns]
     ELSE UNCHANGED <<proc, owner, respawns>>
  /\ UNCHANGED <<standalone, plugged, added>>

\* Its section is found or added, the port of a new one is 0; the whole
\* service is restarted.
HotplugCommit ==
  /\ script # None /\ script' = None
  /\ section' = IF section[script] = None THEN [section EXCEPT ![script] = 0] ELSE section
  /\ IF standalone
     THEN RestartAll(section') /\ respawns' = [e \in Devices |-> MaxRespawns]
     ELSE UNCHANGED <<proc, owner, respawns>>
  /\ UNCHANGED <<standalone, plugged, added>>

\* uci cannot add the section or commit: the service is left as it is.
HotplugFails ==
  /\ script # None /\ script' = None
  /\ UNCHANGED <<standalone, plugged, added, section, proc, owner, respawns>>

\* The script ignores removal.
Unplug(d) ==
  /\ d \in plugged
  /\ plugged' = plugged \ {d}
  /\ UNCHANGED <<standalone, added, script, section, proc, owner, respawns>>

\* inetd accepts and starts a process for the connection.
InetdConnect(p, d) ==
  /\ ~standalone /\ proc[p] = Free /\ section[d] # None
  /\ proc' = [proc EXCEPT ![p] = Started(d, section[d])]
  /\ UNCHANGED <<standalone, plugged, added, script, section, owner, respawns>>

-----------------------------------------------------------------------------

Daemon(p) == \/ GetLock(p) \/ Bind(p) \/ Accept(p) \/ Exit(p)
             \/ OpenPrinter(p) \/ OpenFails(p) \/ Wake(p) \/ CopyEnds(p)

Trouble(p) == \/ GetLockFails(p) \/ BindFails(p) \/ AcceptFails(p)
              \/ Crash(p) \/ CrashInCopy(p)

Next == \/ \E p \in Pids : Daemon(p) \/ Trouble(p) \/ Reap(p)
        \/ \E p \in Pids, d \in Devices : Respawn(p, d) \/ InetdConnect(p, d)
        \/ \E d \in Devices : Plug(d) \/ HotplugAdd(d) \/ Unplug(d)
        \/ HotplugCommit \/ HotplugFails

Spec == Init /\ [][Next]_vars

(***************************************************************************)
(* Fairness: processes run, the kernel tears killed ones down, and a job   *)
(* in copy_stream ends (CopyStream!JobEnds).  Opening the printer may fail *)
(* for ever.  A waiter of F_SETLKW gets a lock that is released again and  *)
(* again: the kernel wakes waiters in order.                               *)
(***************************************************************************)
Fairness == \A p \in Pids : /\ WF_vars(Daemon(p)) /\ WF_vars(Reap(p))
                            /\ SF_vars(GetLock(p))

FairSpec == Spec /\ Fairness

-----------------------------------------------------------------------------
(* Properties *)

\* The device is open in p.
Uses(p, d) == proc[p].dev = d /\ proc[p].st \in {"copy", "dying"}

\* Two processes never write one printer at the same time: not when a restart
\* or a crash leaves the old process behind, and not between jobs of inetd.
OneWriterPerPrinter ==
  \A d \in Devices, p, q \in Pids : Uses(p, d) /\ Uses(q, d) => p = q

\* The lock names a living process, and every process past get_lock and
\* before free_lock holds the lock of its port.
LockHeldWhileServing ==
  /\ \A q \in Ports : owner[q] # None => proc[owner[q]].port = q
  /\ \A p \in Pids :
       proc[p].st \in {"bind", "accept", "open", "sleep", "copy", "dying"}
         => owner[proc[p].port] = p

\* A client that a server accepted is not kept for ever, even if the printer
\* never comes back: after four tries the server closes the connection.  (The
\* one-shot process waits for the printer without limit.)
AcceptedClientIsFreed ==
  \A p \in Pids : (standalone /\ proc[p].st = "open")
                    ~> (proc[p].st \notin {"open", "sleep", "copy"})
=============================================================================
