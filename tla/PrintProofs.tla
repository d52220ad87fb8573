---------------------------- MODULE PrintProofs ----------------------------
(***************************************************************************)
(* Printing: the processes of the print server, for every set of printers, *)
(* ports and processes and every respawn budget; the discovery of printers *)
(* by the BJNP backend, for any network; and its print job, for any data,  *)
(* number of copies, size of the buffer and number of faults.              *)
(*                                                                         *)
(* One writer per printer does not follow from the lock alone: the lock is *)
(* one per port.  What makes it hold is that a section never changes its   *)
(* port, so that every process ever started for a printer, a dying one     *)
(* included, is on the port its section has now (OnPortOfSection).         *)
(*                                                                         *)
(* A job is printed in order because the buffer is always the print data   *)
(* behind what was acknowledged (Buffered), one packet at most is          *)
(* unanswered and it is the head of that buffer (OneUnanswered), and what  *)
(* the printer took beyond the acknowledged items is what that packet's    *)
(* answer says (Accounted).                                                *)
(***************************************************************************)
EXTENDS PrintServer, BjnpDiscover, BjnpJob, FiniteSetTheorems, SequenceTheorems,
        WellFoundedInduction, TLAPS

\* Every process is on the port of its printer's section.
OnPortOfSection ==
  \A p \in Pids : proc[p].st # "free" =>
    /\ proc[p].dev \in Devices /\ proc[p].port \in Ports
    /\ section[proc[p].dev] = proc[p].port

\* A pid without a process has no device, no port and no failures.
FreeIsFree == \A p \in Pids : proc[p].st = "free" => proc[p] = Free

IInv == TypeOK /\ LockHeldWhileServing /\ OnPortOfSection /\ FreeIsFree

Proc == [st : States, dev : Devices \cup {None}, port : Ports \cup {None}, fails : 0 .. 3]

Serving == {"bind", "accept", "open", "sleep", "copy", "dying"}

LEMMA FreeIsProc == Free \in Proc /\ Free.st = "free" /\ Free.port = None
  BY DEF Free, Proc, States

\* A process that was started waits for the lock of its section's port.
LEMMA StartedIsProc ==
  ASSUME NEW d \in Devices, NEW q \in Ports
  PROVE  /\ Started(d, q) \in Proc /\ Started(d, q).st = "lock"
         /\ Started(d, q).dev = d /\ Started(d, q).port = q
  BY DEF Started, Proc, States

\* Moving a process changes neither its device nor its port, and no other
\* process.
LEMMA MovedIsProc ==
  ASSUME proc \in [Pids -> Proc], NEW p \in Pids, NEW st \in States, NEW n \in 0 .. 3,
         proc' = [proc EXCEPT ![p].st = st, ![p].fails = n]
  PROVE  /\ proc' \in [Pids -> Proc]
         /\ proc'[p].st = st /\ proc'[p].dev = proc[p].dev /\ proc'[p].port = proc[p].port
         /\ \A q \in Pids \ {p} : proc'[q] = proc[q]
  BY DEF Proc

\* A killed process is gone, or dying where it was.
LEMMA KilledIsProc ==
  ASSUME NEW r \in Proc, r.st = "free" => r = Free
  PROVE  /\ Killed(r) \in Proc
         /\ \/ Killed(r) = Free
            \/ /\ r.st \in {"copy", "dying"} /\ Killed(r).st = "dying"
               /\ Killed(r).dev = r.dev /\ Killed(r).port = r.port
<1>1. CASE r.st \in {"copy", "dying"}
  <2>1. Killed(r) = [r EXCEPT !.st = "dying", !.fails = 0]
    BY <1>1 DEF Killed
  <2>2. PICK st \in States, n \in 0 .. 3 : st = "dying" /\ n = 0
    BY DEF States
  <2>3. Killed(r) = [r EXCEPT !.st = st, !.fails = n]
    BY <2>1, <2>2
  <2>4. /\ Killed(r) \in Proc /\ Killed(r).st = st
        /\ Killed(r).dev = r.dev /\ Killed(r).port = r.port
    BY <2>3 DEF Proc
  <2>. QED
    BY <1>1, <2>2, <2>4
<1>2. CASE r.st \notin {"copy", "dying"}
  BY <1>2, FreeIsProc DEF Killed
<1>. QED
  BY <1>1, <1>2

LEMMA InitIInv == Init => IInv
  BY PrintServerAssumption, FreeIsProc
  DEF Init, IInv, TypeOK, LockHeldWhileServing, OnPortOfSection, FreeIsFree, Free, Proc, States

-----------------------------------------------------------------------------
\* A process that moves between two places on the same side of the lock
\* keeps the invariant.
LEMMA GoKeeps ==
  ASSUME IInv, NEW p \in Pids, NEW st \in States \ {"free"}, NEW n \in 0 .. 3,
         proc[p].st # "free",
         st \in Serving => proc[p].st \in Serving,
         proc' = [proc EXCEPT ![p].st = st, ![p].fails = n],
         UNCHANGED <<standalone, plugged, added, script, section, owner, respawns>>
  PROVE  IInv'
<1> USE DEF IInv
<1>1. proc \in [Pids -> Proc]
  BY DEF TypeOK, Proc
<1>2. /\ proc' \in [Pids -> Proc]
      /\ proc'[p].st = st /\ proc'[p].dev = proc[p].dev /\ proc'[p].port = proc[p].port
      /\ \A q \in Pids \ {p} : proc'[q] = proc[q]
  BY <1>1, MovedIsProc
<1>3. TypeOK'
  BY <1>2 DEF TypeOK, Proc
<1>4. LockHeldWhileServing'
  BY <1>1, <1>2, PrintServerAssumption DEF LockHeldWhileServing, TypeOK, Serving
<1>5. OnPortOfSection'
  BY <1>2 DEF OnPortOfSection
<1>6. FreeIsFree'
  BY <1>2 DEF FreeIsFree
<1>. QED
  BY <1>3, <1>4, <1>5, <1>6

\* The end of a process keeps the invariant, wherever it was.
LEMMA GoneKeeps ==
  ASSUME IInv, NEW p \in Pids, Gone(p),
         UNCHANGED <<standalone, plugged, added, script, section, respawns>>
  PROVE  IInv'
<1> USE DEF IInv
<1>1. proc \in [Pids -> Proc]
  BY DEF TypeOK, Proc
<1>2. /\ proc' \in [Pids -> Proc] /\ proc'[p] = Free
      /\ \A q \in Pids \ {p} : proc'[q] = proc[q]
  BY <1>1, FreeIsProc DEF Gone
<1>3. TypeOK'
  BY <1>2 DEF TypeOK, Proc, Gone
<1>4. LockHeldWhileServing'
  <2>1. \A q \in Ports : owner'[q] # None =>
          owner'[q] = owner[q] /\ owner[q] \in Pids \ {p}
    BY DEF TypeOK, Gone
  <2>2. \A q \in Ports : owner'[q] # None => proc'[owner'[q]].port = q
    BY <2>1, <1>2 DEF LockHeldWhileServing
  <2>3. ASSUME NEW q \in Pids, proc'[q].st \in Serving
        PROVE  owner'[proc'[q].port] = q
    <3>1. q # p /\ proc'[q] = proc[q]
      BY <1>2, <2>3, FreeIsProc DEF Serving
    <3>2. owner[proc[q].port] = q /\ proc[q].port \in Ports
      BY <3>1, <2>3 DEF LockHeldWhileServing, OnPortOfSection, Serving
    <3>. QED
      BY <3>1, <3>2 DEF Gone
  <2>. QED
    BY <2>2, <2>3 DEF LockHeldWhileServing, Serving
<1>5. OnPortOfSection'
  BY <1>2, FreeIsProc DEF OnPortOfSection
<1>6. FreeIsFree'
  BY <1>2 DEF FreeIsFree
<1>. QED
  BY <1>3, <1>4, <1>5, <1>6

\* A process that is started waits for the lock and disturbs nobody.
LEMMA StartKeeps ==
  ASSUME IInv, NEW p \in Pids, NEW d \in Devices, section[d] # None, proc[p] = Free,
         proc' = [proc EXCEPT ![p] = Started(d, section[d])],
         respawns' \in [Devices -> 0 .. MaxRespawns],
         UNCHANGED <<standalone, plugged, added, script, section, owner>>
  PROVE  IInv'
<1> USE DEF IInv
<1>1. proc \in [Pids -> Proc] /\ section[d] \in Ports
  BY DEF TypeOK, Proc
<1>2. /\ proc' \in [Pids -> Proc] /\ proc'[p] = Started(d, section[d])
      /\ \A q \in Pids \ {p} : proc'[q] = proc[q]
  BY <1>1, StartedIsProc
<1>3. TypeOK'
  BY <1>2 DEF TypeOK, Proc
<1>4. LockHeldWhileServing'
  <2>1. \A q \in Ports : owner[q] # p
    BY FreeIsProc, PrintServerAssumption DEF LockHeldWhileServing
  <2>2. \A q \in Ports : owner'[q] # None => proc'[owner'[q]].port = q
    BY <1>2, <2>1 DEF LockHeldWhileServing, TypeOK
  <2>3. proc'[p].st \notin Serving
    BY <1>1, <1>2, StartedIsProc DEF Serving
  <2>. QED
    BY <1>2, <2>2, <2>3 DEF LockHeldWhileServing, Serving
<1>5. OnPortOfSection'
  BY <1>1, <1>2, StartedIsProc DEF OnPortOfSection
<1>6. FreeIsFree'
  BY <1>1, <1>2, StartedIsProc DEF FreeIsFree
<1>. QED
  BY <1>3, <1>4, <1>5, <1>6

-----------------------------------------------------------------------------
\* A restart of the whole service: dying processes keep their lock, the new
\* ones wait for it.  sec is the configuration after the hotplug script's
\* change, which gives no section another port.
LEMMA RestartKeeps ==
  ASSUME IInv, section' \in [Devices -> Ports \cup {None}],
         \A d \in Devices : section[d] # None => section'[d] = section[d],
         RestartAll(section'), respawns' \in [Devices -> 0 .. MaxRespawns],
         script' = None, UNCHANGED <<standalone, plugged, added>>
  PROVE  IInv'
<1> USE DEF IInv
<1> DEFINE killed == [p \in Pids |-> Killed(proc[p])]
           wanted == {d \in plugged : section'[d] # None}
<1>1. /\ proc \in [Pids -> Proc]
      /\ \A p \in Pids : proc[p].st = "free" => proc[p] = Free
  BY DEF TypeOK, Proc, FreeIsFree
<1>2. \A p \in Pids : /\ killed[p] \in Proc
                      /\ \/ killed[p] = Free
                         \/ /\ proc[p].st \in {"copy", "dying"} /\ killed[p].st = "dying"
                            /\ killed[p].dev = proc[p].dev /\ killed[p].port = proc[p].port
  BY <1>1, KilledIsProc
<1>3. wanted \subseteq Devices /\ \A d \in wanted : section'[d] \in Ports
  BY DEF TypeOK
<1>4. PICK pid \in [wanted -> {p \in Pids : killed[p] = Free}] :
        /\ proc' = [p \in Pids |->
                      IF \E d \in wanted : pid[d] = p
                      THEN LET d == CHOOSE d \in wanted : pid[d] = p
                           IN Started(d, section'[d])
                      ELSE killed[p]]
        /\ owner' = [q \in Ports |->
                       IF owner[q] # None /\ killed[owner[q]] = Free
                       THEN None ELSE owner[q]]
  BY DEF RestartAll
<1> HIDE DEF killed, wanted
\* Every process is a new one, or what the kill left of an old one.
<1>5. ASSUME NEW p \in Pids
      PROVE  \/ /\ proc'[p] = killed[p]
             \/ /\ killed[p] = Free
                /\ \E d \in wanted : proc'[p] = Started(d, section'[d])
  <2>1. CASE \E d \in wanted : pid[d] = p
    <3>1. PICK d \in wanted : d = CHOOSE e \in wanted : pid[e] = p
      BY <2>1
    <3>2. pid[d] = p
      BY <2>1, <3>1
    <3>. QED
      BY <2>1, <3>1, <3>2, <1>4
  <2>2. CASE ~\E d \in wanted : pid[d] = p
    BY <2>2, <1>4
  <2>. QED
    BY <2>1, <2>2
<1>6. \A p \in Pids : proc'[p] \in Proc
  BY <1>5, <1>2, <1>3, StartedIsProc
<1>7. TypeOK'
  <2>1. proc' \in [Pids -> Proc]
    BY <1>4, <1>6
  <2>2. owner' \in [Ports -> Pids \cup {None}]
    BY <1>4 DEF TypeOK
  <2>. QED
    BY <2>1, <2>2 DEF TypeOK, Proc
<1>8. LockHeldWhileServing'
  <2>1. ASSUME NEW q \in Ports, owner'[q] # None
        PROVE  proc'[owner'[q]].port = q
    <3>1. owner'[q] = owner[q] /\ owner[q] \in Pids /\ killed[owner[q]] # Free
      BY <1>4, <2>1 DEF TypeOK
    <3>2. proc'[owner[q]] = killed[owner[q]] /\ killed[owner[q]].port = proc[owner[q]].port
      BY <3>1, <1>5, <1>2
    <3>. QED
      BY <2>1, <3>1, <3>2 DEF LockHeldWhileServing
  <2>2. ASSUME NEW p \in Pids, proc'[p].st \in Serving
        PROVE  owner'[proc'[p].port] = p
    <3>1. proc'[p] = killed[p] /\ killed[p] # Free
      BY <2>2, <1>5, <1>3, StartedIsProc, FreeIsProc DEF Serving
    <3>2. proc[p].st \in Serving /\ proc'[p].port = proc[p].port
      BY <3>1, <1>2 DEF Serving
    <3>3. owner[proc[p].port] = p /\ proc[p].port \in Ports
      BY <3>2 DEF LockHeldWhileServing, OnPortOfSection, Serving
    <3>. QED
      BY <3>1, <3>2, <3>3, <1>4
  <2>. QED
    BY <2>1, <2>2 DEF LockHeldWhileServing, Serving
<1>9. OnPortOfSection'
  <2> SUFFICES ASSUME NEW p \in Pids, proc'[p].st # "free"
               PROVE  /\ proc'[p].dev \in Devices /\ proc'[p].port \in Ports
                      /\ section'[proc'[p].dev] = proc'[p].port
    BY DEF OnPortOfSection
  <2>1. CASE proc'[p] = killed[p]
    <3>1. /\ proc[p].st # "free"
          /\ proc'[p].dev = proc[p].dev /\ proc'[p].port = proc[p].port
      BY <2>1, <1>2, FreeIsProc
    <3>2. /\ proc[p].dev \in Devices /\ proc[p].port \in Ports
          /\ section[proc[p].dev] = proc[p].port
      BY <3>1 DEF OnPortOfSection
    <3>. QED
      BY <3>1, <3>2, PrintServerAssumption
  <2>2. CASE \E d \in wanted : proc'[p] = Started(d, section'[d])
    BY <2>2, <1>3, StartedIsProc
  <2>. QED
    BY <1>5, <2>1, <2>2
<1>10. FreeIsFree'
  BY <1>5, <1>2, <1>3, StartedIsProc, FreeIsProc DEF FreeIsFree
<1>. QED
  BY <1>7, <1>8, <1>9, <1>10
-----------------------------------------------------------------------------
\* Every step of the processes, procd, inetd, hotplug and the user keeps the
\* invariant.
LEMMA NextKeepsIInv == IInv /\ [Next]_vars => IInv'
<1> SUFFICES ASSUME IInv, [Next]_vars
             PROVE  IInv'
  OBVIOUS
<1> USE DEF IInv
<1>1. proc \in [Pids -> Proc]
  BY DEF TypeOK, Proc
<1>2. CASE UNCHANGED vars
  BY <1>2 DEF vars, TypeOK, LockHeldWhileServing, OnPortOfSection, FreeIsFree
<1>3. ASSUME NEW p \in Pids, GetLock(p)
      PROVE  IInv'
  <2>1. /\ proc' = [proc EXCEPT ![p].st = IF standalone THEN "bind" ELSE "open",
                                ![p].fails = 0]
        /\ proc[p].st = "lock" /\ owner[proc[p].port] = None
        /\ owner' = [owner EXCEPT ![proc[p].port] = p]
    BY <1>3 DEF GetLock, Go
  <2>2. proc[p].port \in Ports /\ proc[p].dev \in Devices
    BY <2>1 DEF OnPortOfSection
  <2>3. /\ proc' \in [Pids -> Proc] /\ proc'[p].st \in {"bind", "open"}
        /\ proc'[p].dev = proc[p].dev /\ proc'[p].port = proc[p].port
        /\ \A q \in Pids \ {p} : proc'[q] = proc[q]
    <3>1. PICK st \in States, n \in 0 .. 3 :
            st = (IF standalone THEN "bind" ELSE "open") /\ n = 0
      BY DEF States
    <3>2. proc' = [proc EXCEPT ![p].st = st, ![p].fails = n]
      BY <2>1, <3>1
    <3>3. st \in {"bind", "open"}
      BY <3>1
    <3>. QED
      BY <1>1, <3>2, <3>3, MovedIsProc
  <2>4. TypeOK'
    BY <1>3, <2>1, <2>2, <2>3 DEF TypeOK, Proc, GetLock
  <2>5. LockHeldWhileServing'
    <3>1. ASSUME NEW q \in Ports, owner'[q] # None
          PROVE  proc'[owner'[q]].port = q
      <4>1. CASE q = proc[p].port
        BY <4>1, <2>1, <2>3 DEF TypeOK
      <4>2. CASE q # proc[p].port
        BY <4>2, <3>1, <2>1, <2>3 DEF TypeOK, LockHeldWhileServing
      <4>. QED
        BY <4>1, <4>2
    <3>2. ASSUME NEW q \in Pids, proc'[q].st \in Serving
          PROVE  owner'[proc'[q].port] = q
      <4>1. CASE q = p
        BY <4>1, <2>1, <2>2, <2>3 DEF TypeOK
      <4>2. CASE q # p
        <5>1. owner[proc[q].port] = q /\ proc[q].port \in Ports /\ proc'[q] = proc[q]
          BY <4>2, <3>2, <2>3 DEF LockHeldWhileServing, OnPortOfSection, Serving
        <5>2. proc[q].port # proc[p].port
          BY <5>1, <2>1, PrintServerAssumption
        <5>. QED
          BY <5>1, <5>2, <2>1, <2>2 DEF TypeOK
      <4>. QED
        BY <4>1, <4>2
    <3>. QED
      BY <3>1, <3>2 DEF LockHeldWhileServing, Serving
  <2>6. OnPortOfSection'
    BY <1>3, <2>1, <2>3 DEF OnPortOfSection, GetLock
  <2>7. FreeIsFree'
    BY <2>3 DEF FreeIsFree
  <2>. QED
    BY <2>4, <2>5, <2>6, <2>7
<1>4. ASSUME NEW p \in Pids, AcceptFails(p)
      PROVE  IInv'
  <2>1. /\ proc' = [proc EXCEPT ![p].st = "unlocked", ![p].fails = 0]
        /\ proc[p].st = "accept"
        /\ owner' = [owner EXCEPT ![proc[p].port] = None]
    BY <1>4 DEF AcceptFails, Go
  <2>2. proc[p].port \in Ports /\ owner[proc[p].port] = p
    BY <2>1 DEF OnPortOfSection, LockHeldWhileServing
  <2>3. /\ proc' \in [Pids -> Proc] /\ proc'[p].st = "unlocked"
        /\ proc'[p].dev = proc[p].dev /\ proc'[p].port = proc[p].port
        /\ \A q \in Pids \ {p} : proc'[q] = proc[q]
    <3>1. PICK st \in States, n \in 0 .. 3 : st = "unlocked" /\ n = 0
      BY DEF States
    <3>2. proc' = [proc EXCEPT ![p].st = st, ![p].fails = n]
      BY <2>1, <3>1
    <3>. QED
      BY <1>1, <3>1, <3>2, MovedIsProc
  <2>4. TypeOK'
    BY <1>4, <2>1, <2>2, <2>3 DEF TypeOK, Proc, AcceptFails
  <2>5. LockHeldWhileServing'
    <3>1. ASSUME NEW q \in Ports, owner'[q] # None
          PROVE  proc'[owner'[q]].port = q
      BY <3>1, <2>1, <2>2, <2>3 DEF TypeOK, LockHeldWhileServing
    <3>2. ASSUME NEW q \in Pids, proc'[q].st \in Serving
          PROVE  owner'[proc'[q].port] = q
      <4>1. q # p /\ proc'[q] = proc[q]
        BY <3>2, <2>3 DEF Serving
      <4>2. owner[proc[q].port] = q /\ proc[q].port \in Ports
        BY <4>1, <3>2 DEF LockHeldWhileServing, OnPortOfSection, Serving
      <4>. QED
        BY <4>1, <4>2, <2>1, <2>2 DEF TypeOK
    <3>. QED
      BY <3>1, <3>2 DEF LockHeldWhileServing, Serving
  <2>6. OnPortOfSection'
    BY <1>4, <2>1, <2>3 DEF OnPortOfSection, AcceptFails
  <2>7. FreeIsFree'
    BY <2>3 DEF FreeIsFree
  <2>. QED
    BY <2>4, <2>5, <2>6, <2>7
<1>5. ASSUME NEW p \in Pids,
             \/ GetLockFails(p) \/ BindFails(p) \/ Exit(p) \/ Crash(p) \/ Reap(p)
             \/ CopyEnds(p) /\ ~standalone
      PROVE  IInv'
  <2>1. Gone(p) /\ UNCHANGED <<standalone, plugged, added, script, section, respawns>>
    BY <1>5 DEF GetLockFails, BindFails, Exit, Crash, Reap, CopyEnds
  <2>. QED
    BY <2>1, GoneKeeps
<1>6. ASSUME NEW p \in Pids,
             \/ Bind(p) \/ Accept(p) \/ OpenPrinter(p) \/ OpenFails(p) \/ Wake(p)
             \/ CrashInCopy(p)
             \/ CopyEnds(p) /\ standalone
      PROVE  IInv'
  <2>1. proc[p] \in Proc /\ proc[p].fails \in 0 .. 3
    BY <1>1 DEF Proc
  <2>2. /\ proc[p].st \in Serving
        /\ UNCHANGED <<standalone, plugged, added, script, section, owner, respawns>>
    BY <1>6 DEF Bind, Accept, OpenPrinter, OpenFails, Wake, CrashInCopy, CopyEnds, Serving
  <2>3. \E st \in Serving, n \in 0 .. 3 :
          proc' = [proc EXCEPT ![p].st = st, ![p].fails = n]
    <3>1. CASE OpenFails(p)
      BY <3>1, <2>1 DEF OpenFails, Go, Sleep, Serving
    <3>2. CASE Wake(p)
      <4>1. proc' = [proc EXCEPT ![p].st = "open", ![p].fails = proc[p].fails]
        BY <3>2, <1>1 DEF Wake, Proc
      <4>. QED
        BY <4>1, <2>1 DEF Serving
    <3>3. CASE ~OpenFails(p) /\ ~Wake(p)
      BY <3>3, <1>6 DEF Bind, Accept, OpenPrinter, CrashInCopy, CopyEnds, Go, Serving
    <3>. QED
      BY <3>1, <3>2, <3>3
  <2>. QED
    BY <2>2, <2>3, GoKeeps DEF Serving, States
<1>7. ASSUME NEW p \in Pids, NEW d \in Devices, Respawn(p, d) \/ InetdConnect(p, d)
      PROVE  IInv'
  <2>1. respawns' \in [Devices -> 0 .. MaxRespawns]
    BY <1>7, PrintServerAssumption DEF Respawn, InetdConnect, TypeOK
  <2>. QED
    BY <1>7, <2>1, StartKeeps DEF Respawn, InetdConnect
<1>8. ASSUME NEW d \in Devices, Plug(d) \/ HotplugAdd(d) \/ Unplug(d)
      PROVE  IInv'
  BY <1>8 DEF Plug, HotplugAdd, Unplug, TypeOK, LockHeldWhileServing, OnPortOfSection,
              FreeIsFree
<1>9. CASE HotplugFails
  BY <1>9 DEF HotplugFails, TypeOK, LockHeldWhileServing, OnPortOfSection, FreeIsFree
<1>10. CASE HotplugCommit
  <2>1. /\ section' \in [Devices -> Ports \cup {None}] /\ script' = None
        /\ \A d \in Devices : section[d] # None => section'[d] = section[d]
        /\ UNCHANGED <<standalone, plugged, added>>
    BY <1>10, PrintServerAssumption DEF HotplugCommit, TypeOK
  <2>2. CASE standalone
    <3>1. RestartAll(section') /\ respawns' \in [Devices -> 0 .. MaxRespawns]
      BY <1>10, <2>2, PrintServerAssumption DEF HotplugCommit
    <3>. QED
      BY <2>1, <3>1, RestartKeeps
  <2>3. CASE ~standalone
    <3>1. UNCHANGED <<proc, owner, respawns>>
      BY <1>10, <2>3 DEF HotplugCommit
    <3>2. TypeOK' /\ LockHeldWhileServing' /\ FreeIsFree'
      BY <2>1, <3>1 DEF TypeOK, LockHeldWhileServing, FreeIsFree
    <3>3. OnPortOfSection'
      BY <2>1, <3>1, PrintServerAssumption DEF OnPortOfSection
    <3>. QED
      BY <3>2, <3>3
  <2>. QED
    BY <2>2, <2>3 DEF TypeOK
<1>11. ASSUME NEW p \in Pids, CopyEnds(p)
       PROVE  IInv'
  <2>1. CASE standalone
    BY <2>1, <1>11, <1>6
  <2>2. CASE ~standalone
    BY <2>2, <1>11, <1>5
  <2>. QED
    BY <2>1, <2>2
<1> HIDE DEF IInv
<1>12. ASSUME NEW p \in Pids, Daemon(p) \/ Trouble(p) \/ Reap(p)
       PROVE  IInv'
  <2>1. CASE Daemon(p)
    BY <2>1, <1>3, <1>5, <1>6, <1>11 DEF Daemon
  <2>2. CASE Trouble(p)
    BY <2>2, <1>4, <1>5, <1>6 DEF Trouble
  <2>3. CASE Reap(p)
    BY <2>3, <1>5
  <2>. QED
    BY <1>12, <2>1, <2>2, <2>3
<1>. QED
  BY <1>2, <1>7, <1>8, <1>9, <1>10, <1>12 DEF Next

\* Spec keeps the strengthened invariant.
LEMMA InvariantHolds == Spec => []IInv
  BY InitIInv, NextKeepsIInv, PTL DEF Spec

\* The processes, the lock and the configuration keep their types; a server
\* never counts more than three failed tries.
THEOREM TypeCorrect == Spec => []TypeOK
<1>1. IInv => TypeOK
  BY DEF IInv
<1>. QED
  BY <1>1, InvariantHolds, PTL

\* get_lock: every serving process holds the lock of its port, through
\* restarts, crashes and failed binds.
THEOREM LockCoversService == Spec => []LockHeldWhileServing
<1>1. IInv => LockHeldWhileServing
  BY DEF IInv
<1>. QED
  BY <1>1, InvariantHolds, PTL

\* No printer is ever written by two processes: both would hold the lock of
\* the one port that the printer's section has.
THEOREM OneWriter == Spec => []OneWriterPerPrinter
<1>1. IInv => OneWriterPerPrinter
  BY DEF IInv, OneWriterPerPrinter, Uses, LockHeldWhileServing, OnPortOfSection
<1>. QED
  BY <1>1, InvariantHolds, PTL

-----------------------------------------------------------------------------
(* Discovery *)

\* An answer that was read is in the list, at its best, unless it was dropped.
HeardIsListed ==
  ~noise.dropped /\ Len(list) < PRINTERS_MAX =>
    \A a \in heard : \E i \in DOMAIN list : list[i].model = a.owner /\ list[i].rank >= a.rank

\* An entry's key is a MAC string of the printer it shows and has the address of.
EntriesAreWhole ==
  \A i \in DOMAIN list : list[i].at = list[i].model /\ list[i].key[1] = Kept[list[i].model]

\* No printer answers more often than it was asked.
AskedFirst ==
  /\ stage = "send" => sent < ATTEMPTS
  /\ \A a \in Answers : coming[a] <= sent

\* A socket of the round has something to read, and at the end none has.
SocketsReady ==
  /\ stage = "round" => \A s \in active : inbox[s] # <<>>
  /\ stage = "finished" => \A s \in Sockets : inbox[s] = <<>>

ListIsGood == KeptApart => HeardIsListed /\ EntriesAreWhole

DiscoverInv == DiscoverTypeOK /\ AskedFirst /\ SocketsReady /\ ListIsGood

LEMMA ListStaysGood ==
  ASSUME ListIsGood, UNCHANGED <<list, heard>>, noise'.dropped = noise.dropped
  PROVE  ListIsGood'
  BY DEF ListIsGood, HeardIsListed, EntriesAreWhole, KeptApart

\* What an answer makes of the list: entries keep their printer and never get
\* worse, and the answer's own printer is in it if there was room.
LEMMA AddressAdded ==
  ASSUME list \in Seq(Entries), Len(list) <= PRINTERS_MAX,
         NEW a \in Answers, NEW key \in MacStrings(a.owner), NEW told \in BOOLEAN,
         NEW new, new = add_printer_address(a, key, told)
  PROVE  /\ new \in Seq(Entries) /\ Len(new) <= PRINTERS_MAX /\ Len(new) >= Len(list)
         /\ \A i \in DOMAIN list : new[i].model = list[i].model /\ new[i].rank >= list[i].rank
         /\ KeptApart /\ EntriesAreWhole =>
              /\ \A i \in DOMAIN new :
                   new[i].at = new[i].model /\ new[i].key[1] = Kept[new[i].model]
              /\ told /\ Len(new) < PRINTERS_MAX =>
                   \E i \in DOMAIN new : new[i].model = a.owner /\ new[i].rank >= a.rank
<1>0. /\ a.owner \in Printers /\ a.rank \in 0..2 /\ key[1] = Kept[a.owner]
      /\ key \in Keys
      /\ Len(list) \in Nat /\ DOMAIN list = 1..Len(list) /\ PRINTERS_MAX \in Nat
  BY DiscoverAssumption DEF MacStrings, Keys
<1>1. CASE \E i \in DOMAIN list : list[i].key = key
  <2>1. new = [i \in DOMAIN list |-> Better(list[i], a, key)]
    BY <1>1 DEF add_printer_address
  <2>2. ASSUME NEW i \in DOMAIN list
        PROVE  /\ new[i] \in Entries
               /\ new[i].model = list[i].model /\ new[i].key = list[i].key
               /\ new[i].rank >= list[i].rank
               /\ list[i].key = key => new[i].rank >= a.rank
               /\ new[i].at = list[i].at \/ (list[i].key = key /\ new[i].at = a.owner)
    <3>1. list[i] \in Entries /\ new[i] = Better(list[i], a, key)
      BY <2>1
    <3>2. CASE list[i].key = key /\ a.rank > list[i].rank
      <4>1. new[i] = [list[i] EXCEPT !.rank = a.rank, !.at = a.owner]
        BY <3>1, <3>2 DEF Better
      <4>2. list[i].rank \in 0..2
        BY <3>1 DEF Entries
      <4>3. /\ new[i] \in Entries /\ new[i].model = list[i].model /\ new[i].key = list[i].key
            /\ new[i].rank = a.rank /\ new[i].at = a.owner
        <5> DEFINE e == list[i]
                   f == new[i]
                   k == a.rank
                   q == a.owner
        <5>1. k \in 0..2 /\ q \in Printers /\ e \in Entries
          BY <1>0, <3>1
        <5>2. f = [e EXCEPT !.rank = k, !.at = q]
          BY <4>1
        <5> HIDE DEF e, f, k, q
        <5>3. f \in Entries /\ f.model = e.model /\ f.key = e.key /\ f.rank = k /\ f.at = q
          BY <5>1, <5>2 DEF Entries
        <5> QED BY <5>3 DEF e, f, k, q
      <4> QED BY <4>2, <4>3, <3>2, <1>0
    <3>3. CASE ~(list[i].key = key /\ a.rank > list[i].rank)
      <4>1. new[i] = list[i]
        BY <3>1, <3>3 DEF Better
      <4> QED BY <4>1, <3>1, <3>3, <1>0 DEF Entries
    <3> QED BY <3>2, <3>3
  <2>3. new \in Seq(Entries) /\ Len(new) = Len(list) /\ DOMAIN new = DOMAIN list
    BY <2>1, <2>2, <1>0
  <2>4. ASSUME KeptApart, EntriesAreWhole, NEW i \in DOMAIN list, list[i].key = key
        PROVE  list[i].model = a.owner
    <3>1. list[i] \in Entries
      BY <2>4
    <3>2. list[i].model \in Printers
      BY <3>1 DEF Entries
    <3> QED BY <2>4, <3>2, <1>0 DEF KeptApart, EntriesAreWhole
  <2>5. ASSUME KeptApart, EntriesAreWhole
        PROVE  \A i \in DOMAIN new : new[i].at = new[i].model /\ new[i].key[1] = Kept[new[i].model]
    BY <2>2, <2>3, <2>4, <2>5 DEF EntriesAreWhole
  <2>6. ASSUME KeptApart, EntriesAreWhole
        PROVE  \E i \in DOMAIN new : new[i].model = a.owner /\ new[i].rank >= a.rank
    BY <1>1, <2>2, <2>3, <2>4, <2>6
  <2> QED BY <2>2, <2>3, <2>5, <2>6, <1>0
<1>2. CASE ~(\E i \in DOMAIN list : list[i].key = key) /\ Len(list) < PRINTERS_MAX /\ told
  <2> DEFINE e == [key |-> key, rank |-> a.rank, at |-> a.owner, model |-> a.owner]
  <2>1. new = Append(list, e) /\ e \in Entries
    BY <1>0, <1>2 DEF add_printer_address, Entries
  <2>2. /\ new \in Seq(Entries) /\ Len(new) = Len(list) + 1 /\ DOMAIN new = 1..Len(list) + 1
        /\ \A i \in DOMAIN list : new[i] = list[i]
        /\ new[Len(list) + 1] = e
    BY <2>1, <1>0
  <2>3. \A i \in DOMAIN new : i \in DOMAIN list \/ i = Len(list) + 1
    BY <2>2, <1>0
  <2>4. \A i \in DOMAIN list : list[i] \in Entries
    OBVIOUS
  <2>5. \A i \in DOMAIN list : new[i].model = list[i].model /\ new[i].rank >= list[i].rank
    BY <2>2, <2>4 DEF Entries
  <2>6. ASSUME EntriesAreWhole
        PROVE  \A i \in DOMAIN new : new[i].at = new[i].model /\ new[i].key[1] = Kept[new[i].model]
    BY <2>2, <2>3, <2>6, <1>0 DEF EntriesAreWhole
  <2>7. new[Len(list) + 1].model = a.owner /\ new[Len(list) + 1].rank >= a.rank
    BY <2>2, <1>0
  <2>8. Len(new) <= PRINTERS_MAX /\ Len(new) >= Len(list) /\ Len(list) + 1 \in DOMAIN new
    BY <2>2, <1>0, <1>2
  <2> HIDE DEF e
  <2> QED BY <2>2, <2>5, <2>6, <2>7, <2>8
<1>3. CASE ~(\E i \in DOMAIN list : list[i].key = key) /\ ~(Len(list) < PRINTERS_MAX /\ told)
  <2>1. new = list
    BY <1>3 DEF add_printer_address
  <2>2. \A i \in DOMAIN list : list[i] \in Entries
    OBVIOUS
  <2>3. \A i \in DOMAIN list : list[i].rank >= list[i].rank
    BY <2>2 DEF Entries
  <2> QED BY <2>1, <2>3, <1>0, <1>3 DEF EntriesAreWhole
<1> QED BY <1>1, <1>2, <1>3

LEMMA InitDiscoverInv == DiscoverInit => DiscoverInv
<1> SUFFICES ASSUME DiscoverInit PROVE DiscoverInv
  OBVIOUS
<1>1. DiscoverTypeOK
  <2>1. noise \in [left: 0..MaxNoise, dropped: BOOLEAN]
    BY DiscoverAssumption DEF DiscoverInit
  <2>2. inbox \in [Sockets -> Seq(Answers \cup {Stray})] /\ coming \in [Answers -> 0..ATTEMPTS]
    BY DEF DiscoverInit, ATTEMPTS
  <2>3. list = <<>> /\ Len(list) <= PRINTERS_MAX
    BY DiscoverAssumption DEF DiscoverInit
  <2> QED BY <2>1, <2>2, <2>3 DEF DiscoverTypeOK, DiscoverInit, ATTEMPTS
<1>2. HeardIsListed /\ EntriesAreWhole
  BY DEF DiscoverInit, HeardIsListed, EntriesAreWhole
<1>3. AskedFirst /\ SocketsReady
  BY DEF DiscoverInit, AskedFirst, SocketsReady, ATTEMPTS
<1> QED BY <1>1, <1>2, <1>3 DEF DiscoverInv, ListIsGood

\* One answer, or a stray datagram, is taken from a socket.
LEMMA ReadKeeps == ASSUME DiscoverInv, Read PROVE DiscoverInv'
<1>0. PICK s \in active : ReadSocket(s)
  BY DEF Read
<1> DEFINE a == Head(inbox[s])
<1>1. /\ s \in Sockets /\ inbox[s] \in Seq(Answers \cup {Stray}) /\ inbox[s] # <<>>
      /\ stage = "round" /\ UNCHANGED <<sent, coming>>
      /\ inbox \in [Sockets -> Seq(Answers \cup {Stray})]
      /\ list \in Seq(Entries) /\ Len(list) <= PRINTERS_MAX /\ Len(list) \in Nat /\ PRINTERS_MAX \in Nat
      /\ noise \in [left: 0..MaxNoise, dropped: BOOLEAN] /\ MaxNoise \in Nat
      /\ noise.left \in Nat
      /\ stage \in {"send", "select", "round", "finished"} /\ sent \in 0..ATTEMPTS
      /\ coming \in [Answers -> 0..ATTEMPTS] /\ active \subseteq Sockets /\ heard \subseteq Answers
  BY <1>0, DiscoverAssumption DEF DiscoverInv, DiscoverTypeOK, SocketsReady, Read
<1>2. /\ a \in Answers \cup {Stray} /\ Tail(inbox[s]) \in Seq(Answers \cup {Stray})
      /\ inbox' = [inbox EXCEPT ![s] = Tail(@)]
      /\ inbox' \in [Sockets -> Seq(Answers \cup {Stray})]
      /\ \A t \in Sockets \ {s} : inbox'[t] = inbox[t]
  BY <1>0, <1>1 DEF ReadSocket
<1> HIDE DEF a
<1>3. CASE a.owner = "stray"
  <2>1. stage' = "select" /\ active' = {} /\ UNCHANGED <<list, heard, noise>>
    BY <1>0, <1>3 DEF ReadSocket, a
  <2>2. DiscoverTypeOK'
    BY <1>1, <1>2, <2>1 DEF DiscoverTypeOK
  <2>3. AskedFirst' /\ SocketsReady'
    BY <1>1, <2>1 DEF DiscoverInv, AskedFirst, SocketsReady
  <2>4. ListIsGood'
    BY <2>1, ListStaysGood DEF DiscoverInv
  <2> QED BY <2>2, <2>3, <2>4 DEF DiscoverInv
<1>4. CASE a.owner # "stray"
  <2>1. PICK key \in MacStrings(a.owner), told \in get_printer_id :
          /\ list' = add_printer_address(a, key, told)
          /\ noise' = [left |-> IF told THEN noise.left ELSE noise.left - 1,
                       dropped |-> noise.dropped \/ ~told]
    BY <1>0, <1>4 DEF ReadSocket, a
  <2>2. /\ heard' = heard \cup {a} /\ active' = active \ {s}
        /\ stage' = IF active' = {} THEN "select" ELSE "round"
    BY <1>0, <1>4 DEF ReadSocket, a
  <2>3. a \in Answers
    BY <1>2, <1>4 DEF Stray
  <2>4. told \in BOOLEAN /\ (told \/ noise.left > 0)
    BY DEF get_printer_id
  <2>5. /\ list' \in Seq(Entries) /\ Len(list') <= PRINTERS_MAX /\ Len(list') >= Len(list)
        /\ \A i \in DOMAIN list : list'[i].model = list[i].model /\ list'[i].rank >= list[i].rank
        /\ KeptApart /\ EntriesAreWhole =>
              /\ \A i \in DOMAIN list' :
                   list'[i].at = list'[i].model /\ list'[i].key[1] = Kept[list'[i].model]
              /\ told /\ Len(list') < PRINTERS_MAX =>
                   \E i \in DOMAIN list' : list'[i].model = a.owner /\ list'[i].rank >= a.rank
    <3> DEFINE new == list'
    <3>1. new = add_printer_address(a, key, told)
      BY <2>1
    <3> HIDE DEF new
    <3>2. list \in Seq(Entries) /\ Len(list) <= PRINTERS_MAX
      BY <1>1
    <3> QED BY <3>1, <3>2, <2>3, <2>4, AddressAdded DEF new
  <2>6. noise' \in [left: 0..MaxNoise, dropped: BOOLEAN]
    <3>1. noise.dropped \in BOOLEAN /\ noise.left \in 0..MaxNoise
      BY <1>1
    <3>2. noise'.dropped \in BOOLEAN
      BY <2>1, <3>1
    <3>3. (IF told THEN noise.left ELSE noise.left - 1) \in 0..MaxNoise
      BY <2>4, <3>1, <1>1
    <3> QED BY <2>1, <3>2, <3>3, Zenon
  <2>7. DiscoverTypeOK'
    BY <1>1, <1>2, <2>2, <2>3, <2>5, <2>6 DEF DiscoverTypeOK
  <2>8. ASSUME KeptApart PROVE HeardIsListed' /\ EntriesAreWhole'
    <3>1. HeardIsListed /\ EntriesAreWhole
      BY <2>8 DEF DiscoverInv, ListIsGood
    <3>2. EntriesAreWhole'
      BY <2>5, <2>8, <3>1 DEF EntriesAreWhole
    <3>3. ASSUME ~noise'.dropped, Len(list') < PRINTERS_MAX, NEW b \in heard'
          PROVE  \E i \in DOMAIN list' : list'[i].model = b.owner /\ list'[i].rank >= b.rank
      <4>1. told /\ ~noise.dropped /\ Len(list) < PRINTERS_MAX /\ Len(list') \in Nat
        <5>1. noise'.dropped = (noise.dropped \/ ~told)
          BY <2>1
        <5>2. told /\ ~noise.dropped
          BY <5>1, <3>3, <2>4, <1>1
        <5> QED BY <5>2, <3>3, <2>5, <1>1
      <4>2. CASE b = a
        BY <4>1, <4>2, <2>5, <2>8, <3>1, <3>3
      <4>3. CASE b \in heard
        <5>1. PICK i \in DOMAIN list : list[i].model = b.owner /\ list[i].rank >= b.rank
          BY <4>1, <4>3, <3>1 DEF HeardIsListed
        <5>2. /\ i \in DOMAIN list' /\ list'[i].model = b.owner /\ list'[i].rank >= list[i].rank
          BY <5>1, <2>5, <1>1
        <5>3. list[i].rank \in Int /\ list'[i].rank \in Int /\ b.rank \in Int
          <6>1. list[i] \in Entries /\ list'[i] \in Entries
            BY <5>1, <5>2, <2>5, <1>1
          <6>2. b \in Answers
            BY <4>3 DEF DiscoverInv, DiscoverTypeOK
          <6> QED BY <6>1, <6>2, DiscoverAssumption DEF Entries
        <5> QED BY <5>1, <5>2, <5>3
      <4> QED BY <4>2, <4>3, <2>2, <3>3
    <3> QED BY <3>2, <3>3 DEF HeardIsListed
  <2>9. KeptApart' <=> KeptApart
    BY DEF KeptApart
  <2>10. AskedFirst' /\ SocketsReady'
    BY <1>1, <1>2, <2>2 DEF DiscoverInv, DiscoverTypeOK, AskedFirst, SocketsReady
  <2> QED BY <2>7, <2>8, <2>9, <2>10 DEF DiscoverInv, ListIsGood
<1> QED BY <1>3, <1>4

\* A datagram comes in on a socket, or nowhere.
LEMMA InboxGrows ==
  ASSUME DiscoverTypeOK, NEW d \in Answers \cup {Stray}, NEW t,
         inbox' = [inbox EXCEPT ![t] = Append(@, d)]
  PROVE  /\ inbox' \in [Sockets -> Seq(Answers \cup {Stray})]
         /\ \A s \in Sockets : inbox[s] # <<>> => inbox'[s] # <<>>
<1>1. inbox \in [Sockets -> Seq(Answers \cup {Stray})]
  BY DEF DiscoverTypeOK
<1>2. CASE t \in Sockets
  <2>1. inbox[t] \in Seq(Answers \cup {Stray})
    BY <1>1, <1>2
  <2>2. Append(inbox[t], d) \in Seq(Answers \cup {Stray}) /\ Append(inbox[t], d) # <<>>
    BY <2>1
  <2> QED BY <1>1, <1>2, <2>2
<1>3. CASE t \notin Sockets
  <2>1. inbox' = inbox
    BY <1>1, <1>3
  <2> QED BY <1>1, <2>1
<1> QED BY <1>2, <1>3

LEMMA DiscoverInvKept == ASSUME DiscoverInv, [DiscoverNext]_discoverVars PROVE DiscoverInv'
<1>0. DiscoverTypeOK /\ AskedFirst /\ SocketsReady /\ ListIsGood
  BY DEF DiscoverInv
<1>1. CASE Broadcast
  <2>1. /\ sent' = sent + 1 /\ sent' \in 0..ATTEMPTS /\ coming' \in [Answers -> 0..ATTEMPTS]
        /\ \A a \in Answers : coming'[a] <= sent'
    <3>1. sent \in Nat /\ sent < 2 /\ \A a \in Answers : coming[a] \in Nat /\ coming[a] <= sent
      BY <1>0, <1>1 DEF Broadcast, AskedFirst, DiscoverTypeOK, ATTEMPTS
    <3>2. sent' = sent + 1 /\ coming' = [a \in Answers |-> coming[a] + 1]
      BY <1>1 DEF Broadcast
    <3> QED BY <3>1, <3>2 DEF ATTEMPTS
  <2>2. DiscoverTypeOK' /\ SocketsReady'
    BY <1>0, <1>1, <2>1 DEF Broadcast, DiscoverTypeOK, SocketsReady
  <2>3. AskedFirst'
    BY <1>1, <2>1 DEF Broadcast, AskedFirst, ATTEMPTS
  <2>4. ListIsGood'
    BY <1>0, <1>1, ListStaysGood DEF Broadcast
  <2> QED BY <2>2, <2>3, <2>4 DEF DiscoverInv
<1>2. CASE Select \/ Silence
  <2>1. DiscoverTypeOK' /\ AskedFirst' /\ SocketsReady'
    BY <1>0, <1>2 DEF Select, Silence, DiscoverTypeOK, AskedFirst, SocketsReady
  <2>2. ListIsGood'
    BY <1>0, <1>2, ListStaysGood DEF Select, Silence
  <2> QED BY <2>1, <2>2 DEF DiscoverInv
<1>3. ASSUME NEW a \in Answers, Arrive(a) PROVE DiscoverInv'
  <2>1. /\ inbox' \in [Sockets -> Seq(Answers \cup {Stray})]
        /\ \A s \in Sockets : inbox[s] # <<>> => inbox'[s] # <<>>
    BY <1>0, <1>3, InboxGrows DEF Arrive
  <2>2. coming' \in [Answers -> 0..ATTEMPTS] /\ \A b \in Answers : coming'[b] <= sent
    <3>1. /\ sent \in Nat /\ coming \in [Answers -> 0..2]
          /\ \A b \in Answers : coming[b] \in 0..2 /\ coming[b] <= sent
      BY <1>0 DEF AskedFirst, DiscoverTypeOK, ATTEMPTS
    <3>2. coming[a] > 0 /\ coming' = [coming EXCEPT ![a] = coming[a] - 1]
      BY <1>3 DEF Arrive
    <3> QED BY <3>1, <3>2 DEF ATTEMPTS
  <2>3. DiscoverTypeOK'
    BY <1>0, <1>3, <2>1, <2>2 DEF Arrive, DiscoverTypeOK
  <2>5. AskedFirst' /\ SocketsReady'
    BY <1>0, <1>3, <2>1, <2>2 DEF Arrive, DiscoverTypeOK, AskedFirst, SocketsReady
  <2>4. ListIsGood'
    BY <1>0, <1>3, ListStaysGood DEF Arrive
  <2> QED BY <2>3, <2>4, <2>5 DEF DiscoverInv
<1>4. ASSUME NEW t \in Sockets, StrayArrives(t) PROVE DiscoverInv'
  <2>1. /\ inbox' \in [Sockets -> Seq(Answers \cup {Stray})]
        /\ \A s \in Sockets : inbox[s] # <<>> => inbox'[s] # <<>>
    BY <1>0, <1>4, InboxGrows DEF StrayArrives
  <2>2. noise' \in [left: 0..MaxNoise, dropped: BOOLEAN] /\ noise'.dropped = noise.dropped
    <3>1. /\ noise \in [left: 0..MaxNoise, dropped: BOOLEAN] /\ MaxNoise \in Nat
          /\ noise.left > 0 /\ noise' = [noise EXCEPT !.left = noise.left - 1]
      BY <1>0, <1>4, DiscoverAssumption DEF StrayArrives, DiscoverTypeOK
    <3>2. noise.left - 1 \in 0..MaxNoise
      BY <3>1
    <3> QED BY <3>1, <3>2, Zenon
  <2>3. DiscoverTypeOK' /\ AskedFirst' /\ SocketsReady'
    BY <1>0, <1>4, <2>1, <2>2 DEF StrayArrives, DiscoverTypeOK, AskedFirst, SocketsReady
  <2>4. ListIsGood'
    BY <1>0, <1>4, <2>2, ListStaysGood DEF StrayArrives
  <2> QED BY <2>3, <2>4 DEF DiscoverInv
<1>5. CASE UNCHANGED discoverVars
  <2>1. DiscoverTypeOK' /\ AskedFirst' /\ SocketsReady'
    BY <1>0, <1>5 DEF discoverVars, DiscoverTypeOK, AskedFirst, SocketsReady
  <2>2. ListIsGood'
    BY <1>0, <1>5, ListStaysGood DEF discoverVars
  <2> QED BY <2>1, <2>2 DEF DiscoverInv
<1> QED BY <1>1, <1>2, <1>3, <1>4, <1>5, ReadKeeps DEF DiscoverNext

\* When the search ends, every printer one of whose answers had come in is
\* listed, with the best address it gave and no other printer's, for any
\* network, answers and stray datagrams (bjnp_discover_printers).
THEOREM PrintersAreListed == DiscoverSpec => []PrintersListed
<1>1. DiscoverInv => PrintersListed
  BY DEF DiscoverInv, PrintersListed, BestAddressListed, AddressOfModel, ListIsGood,
         SocketsReady, HeardIsListed, EntriesAreWhole
<1> QED BY <1>1, InitDiscoverInv, DiscoverInvKept, PTL DEF DiscoverSpec

-----------------------------------------------------------------------------
(* The print job of the BJNP backend *)

Chars == {"d", "C"}
Loops == [buf : Seq(Chars), total : Nat, ack : BOOLEAN, drain : BOOLEAN, keep : BOOLEAN,
          side : BOOLEAN]
Prns == [session : Nat, serial : 0 .. Numbers - 1, seq : 0 .. Numbers - 1, iofree : BOOLEAN,
         iocount : 0 .. BufMax]
Links == [up : BOOLEAN, out : Seq(Packet), in : Seq(Answer)]
Sides == [req : Requests \cup {"none"}, owed : BOOLEAN]
Budgets == [tries : 0 .. MaxTries, left : 0 .. MaxEvents, hurt : BOOLEAN, cut : BOOLEAN,
            opened : 0 .. (2 * (MaxTries + 1))]
Ends == {"go", "error", "eof", "crash"}

\* A state of an iteration, and the state of the loop between two of them.
LoopStates == [loop : Loops, prn : Prns, pos : 0 .. Len(Data), errno : {"other", "again"},
           link : Links, side : Sides, end : Ends]

\* The buffer holds the items of the print data behind those that were acknowledged.
Buffered(l, p) ==
  /\ Len(l.buf) <= BufMax /\ l.total + Len(l.buf) = p
  /\ \A i \in 1 .. Len(l.buf) : l.buf[i] = Data[l.total + i]

\* Answers to the packet sent, not the printer's noise.
IsReply(a) == a.kind \in {"ack", "empty"}

\* A command in a packet is its first item or ends the buffer (find_bin_string).
Leads(d) == \A j \in 2 .. Len(d) : d[j] = "C" => j = Len(d)

\* At most one packet is unanswered, and the number and the length of the last one
\* are known.
OneUnanswered(p, k) ==
  /\ p.iofree => k.out = <<>> /\ \A i \in 1 .. Len(k.in) : ~IsReply(k.in[i])
  /\ k.out # <<>> =>
       /\ k.up /\ Len(k.out) = 1
       /\ k.out[1].seq = p.seq /\ Len(k.out[1].data) = p.iocount /\ Leads(k.out[1].data)
       /\ \A i \in 1 .. Len(k.in) : ~IsReply(k.in[i])
  /\ \A i \in 1 .. Len(k.in) : k.in[i].kind = "ack" =>
       k.in[i].seq = p.seq /\ k.in[i].n \in {0, p.iocount}
  /\ \A i, j \in 1 .. Len(k.in) : IsReply(k.in[i]) /\ IsReply(k.in[j]) => i = j

\* The items of the copies before this one.
Before == (Copies - copies - 1) * Len(Data)

\* The packet is the head of the buffer, and what is printed and not yet
\* acknowledged is what its answer says.
Accounted(l, p, k) ==
  /\ k.out # <<>> =>
       /\ p.iocount <= Len(l.buf)
       /\ \A i \in 1 .. p.iocount : k.out[1].data[i] = l.buf[i]
  /\ \A i \in 1 .. Len(k.in) : k.in[i].kind = "ack" =>
       p.iocount <= Len(l.buf) /\ Len(printed) = Before + l.total + k.in[i].n
  /\ (\A i \in 1 .. Len(k.in) : k.in[i].kind # "ack") => Len(printed) = Before + l.total

\* Nothing went wrong on the connection.
Connected(k) == k.up /\ \A i \in 1 .. Len(k.in) : k.in[i].kind # "empty"

\* Only a keep-alive is unanswered at the end of a copy.
CopyOver(p, k) ==
  /\ k.out # <<>> => p.iocount = 0
  /\ \A i \in 1 .. Len(k.in) : k.in[i].kind = "ack" => p.iocount = 0

\* An iteration under way.
Underway(s, b) ==
  /\ s.end = "go" =>
       /\ Buffered(s.loop, s.pos)
       /\ ~b.cut => Accounted(s.loop, s.prn, s.link) /\ (s.side.owed => s.loop.drain)
  /\ ~b.hurt => Connected(s.link)
  /\ s.end = "error" => b.hurt /\ s.link.out = <<>>
  /\ s.end = "eof" /\ ~b.cut =>
       CopyOver(s.prn, s.link) /\ Len(printed) = Before + Len(Data) /\ ~s.side.owed
  /\ s.end = "crash" => b.cut
  /\ s.prn.session = prn.session /\ s.link.up = link.up

\* Where the program and its variables are.
JobTypes ==
  /\ pc \in {"start", "levels", "tcp", "wait", "run", "close", "done", "crashed"}
  /\ copies \in 0 .. Copies /\ result \in {"none", "ok", "failed"}
  /\ loop \in Loops /\ prn \in Prns /\ pos \in 0 .. Len(Data) /\ errno \in {"other", "again"}
  /\ link \in Links /\ side \in Sides
  /\ printed \in Seq(Chars) /\ sessions \subseteq Nat /\ budget \in Budgets

\* The loop between two iterations.
Rolling ==
  /\ Buffered(loop, pos)
  /\ ~budget.cut => Accounted(loop, prn, link) /\ (side.owed => loop.drain)
  /\ ~budget.hurt => Connected(link)

Connecting == {"start", "levels", "tcp", "wait"}

\* Before the connection nothing is printed; while it lasts the copies are
\* accounted for; and at the end they are all there, or there was a reason.
Stages ==
  /\ pc # "run" => loop = FreshLoop /\ pos = 0
  /\ pc \in Connecting =>
       copies = Copies /\ result = "none" /\ link = NoLink /\ printed = <<>> /\ ~side.owed
       /\ ~budget.cut
  /\ pc = "run" => copies < Copies /\ result = "none" /\ Rolling
  /\ pc = "close" =>
       /\ result # "none"
       /\ ~budget.cut /\ link.out # <<>> => prn.iocount = 0
  /\ pc = "done" => result # "none" /\ link = NoLink
  /\ pc = "crashed" => budget.cut
  /\ result = "ok" /\ ~budget.cut => Len(printed) = Copies * Len(Data) /\ ~side.owed
  /\ result = "failed" /\ ~budget.hurt => copies = Copies
  /\ budget.cut => budget.hurt

\* The sessions opened so far, at most two for an attempt.
Opened ==
  LET n == MaxTries - budget.tries + (IF pc = "start" THEN 0 ELSE 1)
  IN budget.opened <= 2 * n

\* What every step of an iteration keeps.
Going(s) == s \in LoopStates /\ OneUnanswered(s.prn, s.link) /\ Underway(s, budget)

\* The invariant of a job.
JobInv ==
  /\ JobTypes /\ OneUnanswered(prn, link) /\ Stages /\ Opened
  /\ PrintedInOrder /\ SessionsClosed

-----------------------------------------------------------------------------
(* The parts of a state of an iteration *)

\* What the assumption says of the constants, and that a next number is a number.
LEMMA Constants ==
  /\ Data \in Seq(Chars) /\ Len(Data) \in Nat /\ Copies \in Nat \ {0} /\ BufMax \in Nat \ {0}
  /\ Numbers \in Nat \ {0} /\ MaxTries \in Nat /\ MaxEvents \in Nat
  /\ \A n \in Nat : (n + 1) % Numbers \in 0 .. Numbers - 1
  BY ConstantsAssumption DEF Chars

\* The report uses up a number (ReportLevels).
LEMMA Reported ==
  ASSUME NEW s \in LoopStates, NEW e \in {"other", "again"}, NEW t, t = ReportLevels(s, e)
  PROVE  /\ t \in LoopStates /\ t.loop = s.loop /\ t.pos = s.pos /\ t.link = s.link /\ t.side = s.side
         /\ t.end = s.end
         /\ t.prn.session = s.prn.session /\ t.prn.seq = s.prn.seq /\ t.prn.iofree = s.prn.iofree
         /\ t.prn.iocount = s.prn.iocount
<1> DEFINE m == (s.prn.serial + 1) % Numbers
<1>1. m \in 0 .. Numbers - 1
  BY Constants DEF LoopStates, Prns
<1>2. t = [s EXCEPT !.prn.serial = m, !.errno = e]
  BY DEF ReportLevels
<1> HIDE DEF m
<1> DEFINE p == [s.prn EXCEPT !.serial = m]
<1>3. p \in Prns /\ p.session = s.prn.session /\ p.seq = s.prn.seq /\ p.iofree = s.prn.iofree
      /\ p.iocount = s.prn.iocount
  BY <1>1 DEF LoopStates, Prns
<1>4. t = [s EXCEPT !.prn = p, !.errno = e]
  BY <1>2
<1> HIDE DEF p
<1>5. t \in LoopStates /\ t.prn = p
  BY <1>3, <1>4 DEF LoopStates
<1>6. t.loop = s.loop /\ t.pos = s.pos /\ t.link = s.link /\ t.side = s.side /\ t.end = s.end
  BY <1>4 DEF LoopStates
<1>. QED
  BY <1>3, <1>5, <1>6

\* A request of the side channel (SideRequest).
LEMMA Requested ==
  ASSUME NEW s \in LoopStates, NEW t, t = SideRequest(s)
  PROVE  /\ t \in LoopStates /\ t.prn = s.prn /\ t.pos = s.pos /\ t.link = s.link /\ t.end = s.end
         /\ t.loop.buf = s.loop.buf /\ t.loop.total = s.loop.total
         /\ \/ t.side.owed = s.side.owed /\ t.loop.drain = s.loop.drain
            \/ t.loop.drain = TRUE
  BY DEF SideRequest, LoopStates, Loops, Sides, Requests

\* An answer is taken from the connection (Backchannel).
LEMMA Taken ==
  ASSUME NEW s \in LoopStates, s.link.in # <<>>, NEW t, t = [s EXCEPT !.link.in = Tail(@)]
  PROVE  /\ t \in LoopStates /\ t.loop = s.loop /\ t.prn = s.prn /\ t.pos = s.pos /\ t.side = s.side
         /\ t.end = s.end /\ t.link.up = s.link.up /\ t.link.out = s.link.out
         /\ t.link.in = Tail(s.link.in)
<1> DEFINE m == Tail(s.link.in)
<1>1. m \in Seq(Answer)
  BY DEF LoopStates, Links
<1>2. t = [s EXCEPT !.link.in = m]
  OBVIOUS
<1> HIDE DEF m
<1>3. t.link.in = m
  BY <1>1, <1>2 DEF LoopStates, Links
<1>4. /\ t \in LoopStates /\ t.loop = s.loop /\ t.prn = s.prn /\ t.pos = s.pos /\ t.side = s.side
      /\ t.end = s.end /\ t.link.up = s.link.up /\ t.link.out = s.link.out
  BY <1>1, <1>2 DEF LoopStates, Links
<1>. QED
  BY <1>3, <1>4 DEF m

\* The packet is answered (Acknowledged): it counts, it is sent again, or the loop
\* ends.
LEMMA Answered ==
  ASSUME NEW s \in LoopStates, s.end = "go", NEW a \in Answer, NEW t, t = Acknowledged(s, a)
  PROVE  /\ t \in LoopStates /\ t.pos = s.pos /\ t.link = s.link /\ t.side = s.side
         /\ t.prn.session = s.prn.session /\ t.prn.seq = s.prn.seq /\ t.prn.iocount = s.prn.iocount
         /\ \/ t.end = "error" /\ ~(a.seq = s.prn.seq /\ a.n \in {0, s.prn.iocount})
               /\ (t.prn.iofree = s.prn.iofree \/ a.seq = s.prn.seq)
            \/ t.end = "crash" /\ a.n = s.prn.iocount /\ a.n > Len(s.loop.buf) /\ t.prn.iofree = TRUE
            \/ /\ t.end = "go" /\ a.n = s.prn.iocount /\ a.n <= Len(s.loop.buf) /\ t.prn.iofree = TRUE
               /\ t.loop.buf = SubSeq(s.loop.buf, a.n + 1, Len(s.loop.buf))
               /\ t.loop.total = s.loop.total + a.n /\ t.loop.drain = s.loop.drain
            \/ /\ t.end = "go" /\ a.n = 0 /\ t.prn.iofree = TRUE
               /\ t.loop.buf = s.loop.buf /\ t.loop.total = s.loop.total
               /\ t.loop.drain = s.loop.drain
<1> DEFINE p == [s.prn EXCEPT !.iofree = TRUE]
           u == [s EXCEPT !.prn = p]
           rest == SubSeq(s.loop.buf, a.n + 1, Len(s.loop.buf))
           sum == s.loop.total + a.n
<1>0. s.prn \in Prns /\ s.loop \in Loops /\ a.n \in Nat
  BY DEF LoopStates, Answer
<1>1. p \in Prns /\ p.session = s.prn.session /\ p.seq = s.prn.seq /\ p.iocount = s.prn.iocount
      /\ p.iofree = TRUE /\ s.prn.iocount \in Nat /\ a.n \in Nat /\ s.loop \in Loops
  <2>1. s.prn.iocount \in Nat
    BY <1>0, Constants DEF Prns
  <2>2. p \in Prns /\ p.session = s.prn.session /\ p.seq = s.prn.seq /\ p.iocount = s.prn.iocount
        /\ p.iofree = TRUE
    BY <1>0 DEF Prns
  <2>. QED
    BY <1>0, <2>1, <2>2
<1>2. rest \in Seq(Chars) /\ sum \in Nat
  <2>1. s.loop.buf \in Seq(Chars) /\ s.loop.total \in Nat
    BY <1>1 DEF Loops
  <2>. QED
    BY <1>1, <2>1
<1>3. Acknowledged(s, a) =
        CASE a.seq # s.prn.seq -> Fail(s)
          [] a.seq = s.prn.seq /\ a.n = s.prn.iocount ->
               IF a.n > Len(s.loop.buf) THEN [u EXCEPT !.end = "crash"]
               ELSE [u EXCEPT !.loop = [s.loop EXCEPT !.buf = rest, !.total = sum, !.ack = FALSE]]
          [] a.seq = s.prn.seq /\ a.n # s.prn.iocount /\ a.n = 0 ->
               [u EXCEPT !.loop = [s.loop EXCEPT !.ack = FALSE]]
          [] OTHER -> Fail(u)
  BY DEF Acknowledged, LoopStates
<1> HIDE DEF p, rest, sum
<1>4. u \in LoopStates /\ u.prn = p /\ u.loop = s.loop /\ u.pos = s.pos /\ u.link = s.link
      /\ u.side = s.side /\ u.end = "go"
  BY <1>1 DEF LoopStates
<1> HIDE DEF u
<1>5. CASE a.seq # s.prn.seq
  <2>1. t = [s EXCEPT !.end = "error"]
    BY <1>3, <1>5 DEF Fail
  <2>. QED
    BY <1>5, <2>1 DEF LoopStates, Ends
<1>6. CASE a.seq = s.prn.seq /\ a.n = s.prn.iocount /\ a.n > Len(s.loop.buf)
  <2>1. t = [u EXCEPT !.end = "crash"]
    BY <1>3, <1>6
  <2>2. t \in LoopStates /\ t.prn = p /\ t.pos = s.pos /\ t.link = s.link /\ t.side = s.side /\ t.end = "crash"
    BY <1>4, <2>1 DEF LoopStates, Ends
  <2>. QED
    BY <1>1, <1>6, <2>2
<1>7. CASE a.seq = s.prn.seq /\ a.n = s.prn.iocount /\ ~(a.n > Len(s.loop.buf))
  <2> DEFINE l == [s.loop EXCEPT !.buf = rest, !.total = sum, !.ack = FALSE]
  <2>1. t = [u EXCEPT !.loop = l]
    BY <1>3, <1>7
  <2>2. l \in Loops /\ l.buf = rest /\ l.total = sum /\ l.drain = s.loop.drain
    BY <1>1, <1>2 DEF Loops
  <2> HIDE DEF l
  <2>3. t \in LoopStates /\ t.prn = p /\ t.pos = s.pos /\ t.link = s.link /\ t.side = s.side
        /\ t.end = "go" /\ t.loop = l
    BY <1>4, <2>1, <2>2 DEF LoopStates
  <2>4. a.n <= Len(s.loop.buf)
    BY <1>1, <1>7 DEF Loops
  <2>. QED
    BY <1>1, <1>7, <2>2, <2>3, <2>4 DEF rest, sum
<1>8. CASE a.seq = s.prn.seq /\ a.n # s.prn.iocount /\ a.n = 0
  <2> DEFINE l == [s.loop EXCEPT !.ack = FALSE]
  <2>1. t = [u EXCEPT !.loop = l]
    BY <1>3, <1>8
  <2>2. l \in Loops /\ l.buf = s.loop.buf /\ l.total = s.loop.total /\ l.drain = s.loop.drain
    BY <1>1 DEF Loops
  <2> HIDE DEF l
  <2>3. t \in LoopStates /\ t.prn = p /\ t.pos = s.pos /\ t.link = s.link /\ t.side = s.side
        /\ t.end = "go" /\ t.loop = l
    BY <1>4, <2>1, <2>2 DEF LoopStates
  <2>. QED
    BY <1>1, <1>8, <2>2, <2>3
<1>9. CASE a.seq = s.prn.seq /\ a.n # s.prn.iocount /\ a.n # 0
  <2>1. t = [u EXCEPT !.end = "error"]
    BY <1>3, <1>9 DEF Fail
  <2>2. t \in LoopStates /\ t.prn = p /\ t.pos = s.pos /\ t.link = s.link /\ t.side = s.side /\ t.end = "error"
    BY <1>4, <2>1 DEF LoopStates, Ends
  <2>. QED
    BY <1>1, <1>9, <2>2
<1>. QED
  BY <1>5, <1>6, <1>7, <1>8, <1>9

\* Print data is read, up to its end, or nothing is there (ReadInput).
LEMMA Filled ==
  ASSUME NEW s \in LoopStates, s.end = "go", NEW k \in Int, k > 0, s.pos + k <= Len(Data),
         NEW t, t = ReadInput(s, k)
  PROVE  /\ t \in LoopStates /\ t.prn = s.prn /\ t.link = s.link
         /\ t.loop.buf = SubSeq(Data, s.pos + 1, s.pos + k) /\ t.pos = s.pos + k
         /\ t.loop.total = s.loop.total /\ t.loop.drain = s.loop.drain
         /\ t.side = s.side /\ t.end = "go"
<1> DEFINE b == SubSeq(Data, s.pos + 1, s.pos + k)
           q == s.pos + k
           l == [s.loop EXCEPT !.buf = b]
<1>1. q \in 0 .. Len(Data) /\ b \in Seq(Chars) /\ s.loop \in Loops
  BY Constants DEF LoopStates
<1>2. t = [s EXCEPT !.loop = l, !.pos = q]
  BY DEF ReadInput, LoopStates
<1> HIDE DEF b, q
<1>3. l \in Loops /\ l.buf = b /\ l.total = s.loop.total /\ l.drain = s.loop.drain
  BY <1>1 DEF Loops
<1> HIDE DEF l
<1>4. t \in LoopStates /\ t.prn = s.prn /\ t.link = s.link /\ t.loop = l /\ t.pos = q
      /\ t.side = s.side /\ t.end = "go"
  BY <1>1, <1>2, <1>3 DEF LoopStates
<1>. QED
  BY <1>3, <1>4 DEF b, q

\* The end of the print data: a drain the loop took is answered.
LEMMA Exhausted ==
  ASSUME NEW s \in LoopStates, NEW t, t = ReadInput(s, 0)
  PROVE  /\ t \in LoopStates /\ t.prn = s.prn /\ t.link = s.link /\ t.end = "eof"
         /\ t.side.owed = (IF s.loop.drain THEN FALSE ELSE s.side.owed)
<1> DEFINE o == IF s.loop.drain THEN FALSE ELSE s.side.owed
           l == [s.loop EXCEPT !.drain = FALSE]
           d == [s.side EXCEPT !.owed = o]
<1>1. o \in BOOLEAN /\ s.loop \in Loops /\ s.side \in Sides
  BY DEF LoopStates, Sides
<1>2. t = [s EXCEPT !.end = "eof", !.loop = l, !.side = d]
  BY DEF ReadInput, LoopStates
<1> HIDE DEF o
<1>3. l \in Loops /\ d \in Sides /\ d.owed = o
  BY <1>1 DEF Loops, Sides
<1> HIDE DEF l, d
<1>4. t \in LoopStates /\ t.prn = s.prn /\ t.link = s.link /\ t.side = d /\ t.end = "eof"
  BY <1>2, <1>3 DEF LoopStates, Ends
<1>. QED
  BY <1>3, <1>4 DEF o

\* A read that would block.
LEMMA NothingRead ==
  ASSUME NEW s \in LoopStates, NEW t, t = ReadInput(s, -1)
  PROVE  /\ t \in LoopStates /\ t.prn = s.prn /\ t.link = s.link /\ t.end = s.end
         /\ t.loop = s.loop /\ t.pos = s.pos /\ t.side = s.side
<1>1. t = [s EXCEPT !.errno = "again"]
  BY DEF ReadInput
<1>. QED
  BY <1>1 DEF LoopStates

\* A packet is the buffer up to its next command.
LEMMA FirstPart ==
  ASSUME NEW b \in Seq(Chars), NEW n,
         n = IF find_bin_string(b) = -1 THEN Len(b) ELSE find_bin_string(b)
  PROVE  /\ n \in 0 .. Len(b)
         /\ Leads(SubSeq(b, 1, n)) /\ SubSeq(b, 1, n) \in Seq(Chars) /\ Len(SubSeq(b, 1, n)) = n
         /\ \A i \in 1 .. n : SubSeq(b, 1, n)[i] = b[i]
<1> DEFINE found == {i \in 1 .. (Len(b) - 2) : b[i + 1] = "C"}
           m == CHOOSE i \in found : \A j \in found : i <= j
<1>1. find_bin_string(b) = IF found = {} THEN -1 ELSE m
  BY DEF find_bin_string
<1>2. found # {} => m \in found /\ \A j \in found : m <= j
  <2>1. SUFFICES ASSUME found # {} PROVE m \in found /\ \A j \in found : m <= j
    OBVIOUS
  <2>2. \E x \in found : \A y \in found : x <= y
    <3> DEFINE R == {ss \in Nat \X Nat : ss[1] < ss[2]}
    <3>1. IsWellFoundedOn(R, Nat)
      BY NatLessThanWellFounded, Zenon DEF OpToRel
    <3>2. found \subseteq Nat
      OBVIOUS
    <3> HIDE DEF found
    <3>3. PICK x \in found : \A y \in found : ~(<<y, x>> \in R)
      <4> HIDE DEF R
      <4>. QED
        BY <3>1, <3>2, <2>1, WFMin
    <3>4. ASSUME NEW y \in found PROVE x <= y
      <4>1. x \in Nat /\ y \in Nat /\ (y < x => <<y, x>> \in R)
        BY <3>2
      <4>. QED
        BY <3>3, <4>1
    <3>. QED
      BY <3>4
  <2> HIDE DEF found
  <2>. QED
    BY <2>2
<1>3. m \in found => m \in 1 .. Len(b) - 2 /\ m \in Int /\ m # -1
  <2>1. \A i \in found : i \in 1 .. Len(b) - 2 /\ i \in Int /\ i # -1
    OBVIOUS
  <2> HIDE DEF m, found
  <2>. QED
    BY <2>1
<1>4. \A i \in 1 .. Len(b) - 2 : b[i + 1] = "C" <=> i \in found
  OBVIOUS
<1> HIDE DEF m, found
<1>5. /\ n \in 0 .. Len(b)
      /\ found = {} => n = Len(b)
      /\ found # {} => n = m /\ n <= Len(b) - 2
  BY <1>1, <1>2, <1>3
<1>6. SubSeq(b, 1, n) \in Seq(Chars) /\ Len(SubSeq(b, 1, n)) = n
      /\ \A i \in 1 .. n : SubSeq(b, 1, n)[i] = b[i]
  BY <1>5
<1>7. Leads(SubSeq(b, 1, n))
  <2>1. SUFFICES ASSUME NEW j \in 2 .. n, b[j] = "C", j # n PROVE FALSE
    BY <1>5, <1>6 DEF Leads
  <2>2. j - 1 \in 1 .. Len(b) - 2 /\ (j - 1) + 1 = j
    BY <1>5, <2>1
  <2>3. j - 1 \in found
    BY <1>4, <2>1, <2>2
  <2>4. n <= j - 1
    BY <1>2, <1>5, <2>3
  <2>. QED
    BY <1>5, <2>1, <2>4
<1>. QED
  BY <1>5, <1>6, <1>7

\* What a write leaves: nothing sent for an earlier packet is unanswered, a failure, or
\* the head of the buffer under way.
Sent(s, fate, t) ==
  /\ t \in LoopStates /\ t.pos = s.pos /\ t.side = s.side /\ t.loop.buf = s.loop.buf
  /\ t.loop.total = s.loop.total /\ t.loop.drain = s.loop.drain
  /\ t.link.up = s.link.up /\ t.link.in = s.link.in /\ t.prn.session = s.prn.session
  /\ \/ t.end = "go" /\ t.prn = s.prn /\ t.link = s.link
     \/ t.end = "error" /\ t.prn = s.prn /\ t.link = s.link /\ s.prn.iofree /\ fate = "error"
     \/ /\ t.end = "go" /\ s.prn.iofree /\ t.prn.iofree = FALSE
        /\ t.prn.iocount \in 0 .. Len(s.loop.buf)
        /\ ~s.link.up => t.link.out = s.link.out
        /\ s.link.up => \E k \in Packet :
             /\ t.link.out = Append(s.link.out, k) /\ k.seq = t.prn.seq
             /\ Len(k.data) = t.prn.iocount /\ Leads(k.data)
             /\ \A i \in 1 .. t.prn.iocount : k.data[i] = s.loop.buf[i]

\* A packet is sent, is not sent for an earlier one is unanswered, or cannot be
\* sent (Write).
LEMMA Written ==
  ASSUME NEW s \in LoopStates, s.end = "go", Len(s.loop.buf) <= BufMax, NEW fate,
         NEW t, t = Write(s, fate)
  PROVE  Sent(s, fate, t)
<1> DEFINE cut == find_bin_string(s.loop.buf)
           n == IF cut = -1 THEN Len(s.loop.buf) ELSE cut
           no == (s.prn.serial + 1) % Numbers
           data == SubSeq(s.loop.buf, 1, n)
           k == [seq |-> no, data |-> data]
           more == Append(s.link.out, k)
           after == IF s.link.up THEN more ELSE s.link.out
           l == [s.loop EXCEPT !.keep = FALSE]
           m == [s.loop EXCEPT !.keep = FALSE, !.ack = TRUE]
           p == [s.prn EXCEPT !.serial = no, !.seq = no, !.iocount = n, !.iofree = FALSE]
           c == [s.link EXCEPT !.out = after]
<1>1. s.loop \in Loops /\ s.prn \in Prns /\ s.link \in Links /\ s.loop.buf \in Seq(Chars)
  BY DEF LoopStates, Loops
<1>2. no \in 0 .. Numbers - 1
  BY <1>1, Constants DEF Prns
<1>3. /\ n \in 0 .. Len(s.loop.buf)
      /\ Leads(data) /\ data \in Seq(Chars) /\ Len(data) = n
      /\ \A i \in 1 .. n : data[i] = s.loop.buf[i]
  BY <1>1, FirstPart
<1>4. n \in 0 .. BufMax
  BY <1>1, <1>3, Constants
<1>5. /\ ~s.prn.iofree => t = [s EXCEPT !.errno = "again", !.loop = l]
      /\ s.prn.iofree /\ fate = "error" => t = [s EXCEPT !.end = "error"]
      /\ s.prn.iofree /\ fate # "error" => t = [s EXCEPT !.prn = p, !.loop = m, !.link = c]
  <2>1. ~s.prn.iofree => t = [s EXCEPT !.errno = "again", !.loop.keep = FALSE]
    BY DEF Write
  <2>2. s.prn.iofree /\ fate = "error" => t = [s EXCEPT !.end = "error"]
    BY DEF Write, Fail
  <2>3. s.prn.iofree /\ fate # "error" =>
          t = [s EXCEPT !.prn.serial = no, !.prn.seq = no, !.prn.iocount = n,
                        !.prn.iofree = FALSE, !.loop.keep = FALSE, !.loop.ack = TRUE,
                        !.link.out = after]
    BY DEF Write
  <2> HIDE DEF n, no, data, k, more, after, cut
  <2>4. [s EXCEPT !.errno = "again", !.loop.keep = FALSE] = [s EXCEPT !.errno = "again", !.loop = l]
    BY DEF LoopStates
  <2>5. [s EXCEPT !.prn.serial = no, !.prn.seq = no, !.prn.iocount = n,
                  !.prn.iofree = FALSE, !.loop.keep = FALSE, !.loop.ack = TRUE,
                  !.link.out = after] = [s EXCEPT !.prn = p, !.loop = m, !.link = c]
    BY DEF LoopStates
  <2>. QED
    BY <2>1, <2>2, <2>3, <2>4, <2>5
<1> HIDE DEF n, no, data, cut
<1>6. k \in Packet /\ k.seq = no /\ k.data = data
  BY <1>2, <1>3 DEF Packet, Chars
<1> HIDE DEF k
<1>7. more \in Seq(Packet)
  BY <1>1, <1>6 DEF Links
<1> HIDE DEF more
<1>8. after \in Seq(Packet) /\ (s.link.up => after = more) /\ (~s.link.up => after = s.link.out)
  BY <1>1, <1>7 DEF Links
<1> HIDE DEF after
<1>9. /\ l \in Loops /\ l.buf = s.loop.buf /\ l.total = s.loop.total /\ l.drain = s.loop.drain
      /\ m \in Loops /\ m.buf = s.loop.buf /\ m.total = s.loop.total /\ m.drain = s.loop.drain
  BY <1>1 DEF Loops
<1>10. p \in Prns /\ p.session = s.prn.session /\ p.seq = no /\ p.iocount = n /\ p.iofree = FALSE
  BY <1>1, <1>2, <1>4 DEF Prns
<1>11. c \in Links /\ c.up = s.link.up /\ c.in = s.link.in /\ c.out = after
  BY <1>1, <1>8 DEF Links
<1> HIDE DEF l, m, p, c
<1>12. s.prn.iofree \in BOOLEAN
  BY <1>1 DEF Prns
<1>13. CASE ~s.prn.iofree
  <2>1. t \in LoopStates /\ t.pos = s.pos /\ t.side = s.side /\ t.loop = l /\ t.link = s.link
        /\ t.prn = s.prn /\ t.end = "go"
    BY <1>5, <1>9, <1>13 DEF LoopStates
  <2>. QED
    BY <1>9, <2>1 DEF Sent
<1>14. CASE s.prn.iofree /\ fate = "error"
  <2>1. t \in LoopStates /\ t.pos = s.pos /\ t.side = s.side /\ t.loop = s.loop /\ t.link = s.link
        /\ t.prn = s.prn /\ t.end = "error"
    BY <1>5, <1>14 DEF LoopStates, Ends
  <2>. QED
    BY <1>14, <2>1 DEF Sent
<1>15. CASE s.prn.iofree /\ fate # "error"
  <2>1. t \in LoopStates /\ t.pos = s.pos /\ t.side = s.side /\ t.loop = m /\ t.link = c
        /\ t.prn = p /\ t.end = "go"
    BY <1>5, <1>9, <1>10, <1>11, <1>15 DEF LoopStates
  <2>2. /\ ~s.link.up => t.link.out = s.link.out
        /\ s.link.up => \E q \in Packet :
             /\ t.link.out = Append(s.link.out, q) /\ q.seq = t.prn.seq
             /\ Len(q.data) = t.prn.iocount /\ Leads(q.data)
             /\ \A i \in 1 .. t.prn.iocount : q.data[i] = s.loop.buf[i]
    BY <1>3, <1>6, <1>8, <1>10, <1>11, <2>1 DEF more
  <2>. QED
    BY <1>3, <1>9, <1>10, <1>11, <1>15, <2>1, <2>2 DEF Sent
<1>. QED
  BY <1>12, <1>13, <1>14, <1>15

-----------------------------------------------------------------------------
(* The steps of an iteration *)

\* The places of a sequence and of its tail.
LEMMA TailOf ==
  ASSUME NEW S, NEW s \in Seq(S), s # <<>>
  PROVE  /\ Head(s) = s[1] /\ Head(s) \in S /\ Len(s) \in Nat \ {0} /\ 1 \in 1 .. Len(s)
         /\ \A i \in 1 .. Len(Tail(s)) : Tail(s)[i] = s[i + 1] /\ i + 1 \in 1 .. Len(s)
         /\ \A i \in 1 .. Len(s) : i # 1 => i - 1 \in 1 .. Len(Tail(s)) /\ Tail(s)[i - 1] = s[i]
  OBVIOUS

\* The places of a part of a sequence.
LEMMA PartOf ==
  ASSUME NEW S, NEW s \in Seq(S), NEW n \in Nat, NEW m \in Nat, n <= m, m <= Len(s),
         NEW t, t = SubSeq(s, n + 1, m)
  PROVE  /\ t \in Seq(S) /\ Len(t) = m - n /\ Len(s) \in Nat
         /\ \A i \in 1 .. Len(t) : t[i] = s[n + i] /\ n + i \in 1 .. Len(s)
  OBVIOUS

\* What comes from the printer: the answer to the one packet, or noise.
LEMMA BackchannelGoes ==
  ASSUME NEW s, Going(s), s.end = "go", s.link.in # <<>> \/ ~s.link.up, Before \in Nat,
         printed \in Seq(Chars), NEW t, t = Backchannel(s)
  PROVE  /\ Going(t) /\ t.pos = s.pos
         /\ s.loop.buf = <<>> => t.loop.buf = <<>> \/ t.end # "go"
<1>1. s \in LoopStates /\ OneUnanswered(s.prn, s.link) /\ Underway(s, budget)
  BY DEF Going
<1>2. CASE s.link.in = <<>>
  <2>1. ~s.link.up
    BY <1>2
  <2>2. budget.hurt /\ s.link.out = <<>>
    BY <1>1, <2>1 DEF Underway, Connected, OneUnanswered
  <2>3. CASE s.errno = "again"
    BY <1>2, <2>3 DEF Backchannel, Going
  <2>4. CASE s.errno # "again"
    <3>1. t = [s EXCEPT !.end = "error"]
      BY <1>2, <2>4 DEF Backchannel, Fail
    <3>2. t \in LoopStates /\ t.loop = s.loop /\ t.prn = s.prn /\ t.link = s.link /\ t.end = "error" /\ t.pos = s.pos
      BY <1>1, <3>1 DEF LoopStates, Ends
    <3>. QED
      BY <1>1, <2>2, <3>2 DEF Going, Underway
  <2>. QED
    BY <2>3, <2>4
<1>3. CASE s.link.in # <<>>
  <2> DEFINE a == Head(s.link.in)
             u == [s EXCEPT !.link.in = Tail(@)]
             in == s.link.in
  <2>1. in \in Seq(Answer) /\ s.prn \in Prns /\ s.loop \in Loops
    BY <1>1 DEF LoopStates, Links
  <2>2. /\ a = in[1] /\ a \in Answer /\ 1 \in 1 .. Len(in)
        /\ \A i \in 1 .. Len(Tail(in)) : Tail(in)[i] = in[i + 1] /\ i + 1 \in 1 .. Len(in)
        /\ \A i \in 1 .. Len(in) : i # 1 => i - 1 \in 1 .. Len(Tail(in)) /\ Tail(in)[i - 1] = in[i]
    BY <1>3, <2>1, TailOf
  <2>3. /\ u \in LoopStates /\ u.loop = s.loop /\ u.prn = s.prn /\ u.pos = s.pos /\ u.side = s.side
        /\ u.end = s.end /\ u.link.up = s.link.up /\ u.link.out = s.link.out
        /\ u.link.in = Tail(in)
    BY <1>1, <1>3, Taken
  <2>4. t = CASE a.kind = "noise" -> u
              [] a.kind = "empty" -> Fail(u)
              [] a.kind = "ack" -> Acknowledged(u, a)
    BY <1>3 DEF Backchannel
  <2>5. a.kind \in {"ack", "noise", "empty"} /\ a.n \in Nat
    BY <2>2 DEF Answer
  <2> HIDE DEF a, u, in
  <2>6. OneUnanswered(u.prn, u.link)
    <3>1. \A i, j \in 1 .. Len(Tail(in)) : i + 1 = j + 1 => i = j
      OBVIOUS
    <3>2. /\ s.prn.iofree => s.link.out = <<>> /\ \A i \in 1 .. Len(in) : ~IsReply(in[i])
          /\ s.link.out # <<>> =>
               /\ s.link.up /\ Len(s.link.out) = 1
               /\ s.link.out[1].seq = s.prn.seq /\ Len(s.link.out[1].data) = s.prn.iocount
               /\ Leads(s.link.out[1].data)
               /\ \A i \in 1 .. Len(in) : ~IsReply(in[i])
          /\ \A i \in 1 .. Len(in) : in[i].kind = "ack" =>
               in[i].seq = s.prn.seq /\ in[i].n \in {0, s.prn.iocount}
          /\ \A i, j \in 1 .. Len(in) : IsReply(in[i]) /\ IsReply(in[j]) => i = j
      BY <1>1 DEF OneUnanswered, in
    <3>. QED
      BY <2>2, <2>3, <3>1, <3>2 DEF OneUnanswered
  <2>7. ~budget.hurt => Connected(u.link) /\ a.kind # "empty"
    <3>1. ~budget.hurt => s.link.up /\ \A i \in 1 .. Len(in) : in[i].kind # "empty"
      BY <1>1 DEF Underway, Connected, in
    <3>. QED
      BY <2>2, <2>3, <3>1 DEF Connected
  <2>8. IsReply(a) =>
          /\ s.link.out = <<>> /\ s.prn.iofree # TRUE
          /\ \A i \in 1 .. Len(Tail(in)) : ~IsReply(Tail(in)[i])
    <3>1. ASSUME IsReply(a), NEW i \in 1 .. Len(Tail(in)) PROVE ~IsReply(Tail(in)[i])
      <4>1. i + 1 # 1
        OBVIOUS
      <4>2. IsReply(in[1]) /\ IsReply(in[i + 1]) => 1 = i + 1
        BY <1>1, <2>2 DEF OneUnanswered, in
      <4>. QED
        BY <2>2, <3>1, <4>1, <4>2
    <3>. QED
      BY <1>1, <2>2, <3>1 DEF OneUnanswered, in
  <2>9. u.prn.session = prn.session /\ u.link.up = link.up
    BY <1>1, <2>3 DEF Underway
  <2>10. CASE a.kind = "noise"
    <3>1. t = u
      BY <2>4, <2>10
    <3>2. ~budget.cut => Accounted(u.loop, u.prn, u.link) /\ (u.side.owed => u.loop.drain)
      <4>1. SUFFICES ASSUME ~budget.cut PROVE Accounted(u.loop, u.prn, u.link) /\ (u.side.owed => u.loop.drain)
        OBVIOUS
      <4>2. Accounted(s.loop, s.prn, s.link) /\ (s.side.owed => s.loop.drain)
        BY <1>1, <4>1 DEF Underway
      <4>3. (\A i \in 1 .. Len(Tail(in)) : Tail(in)[i].kind # "ack") => \A i \in 1 .. Len(in) : in[i].kind # "ack"
        BY <2>2, <2>10
      <4>. QED
        BY <2>2, <2>3, <4>2, <4>3 DEF Accounted, in
    <3>3. Buffered(u.loop, u.pos)
      BY <1>1, <2>3 DEF Underway
    <3>. QED
      BY <2>3, <2>6, <2>7, <2>9, <3>1, <3>2, <3>3 DEF Going, Underway
  <2>11. CASE a.kind = "empty"
    <3>1. t = [u EXCEPT !.end = "error"]
      BY <2>4, <2>11 DEF Fail
    <3>2. t \in LoopStates /\ t.prn = u.prn /\ t.link = u.link /\ t.end = "error" /\ t.pos = u.pos
      BY <2>3, <3>1 DEF LoopStates, Ends
    <3>3. budget.hurt /\ u.link.out = <<>>
      BY <2>3, <2>7, <2>8, <2>11 DEF IsReply
    <3>. QED
      BY <2>3, <2>6, <2>7, <2>9, <3>2, <3>3 DEF Going, Underway
  <2>12. CASE a.kind = "ack"
    <3>1. t = Acknowledged(u, a)
      BY <2>4, <2>12
    <3>2. a.seq = u.prn.seq /\ a.n \in {0, u.prn.iocount}
      BY <1>1, <2>2, <2>3, <2>12 DEF OneUnanswered, in
    <3>3. /\ t \in LoopStates /\ t.pos = u.pos /\ t.link = u.link /\ t.side = u.side
          /\ t.prn.session = u.prn.session /\ t.prn.seq = u.prn.seq /\ t.prn.iocount = u.prn.iocount
          /\ \/ t.end = "error" /\ ~(a.seq = u.prn.seq /\ a.n \in {0, u.prn.iocount})
                /\ (t.prn.iofree = u.prn.iofree \/ a.seq = u.prn.seq)
             \/ t.end = "crash" /\ a.n = u.prn.iocount /\ a.n > Len(u.loop.buf) /\ t.prn.iofree = TRUE
             \/ /\ t.end = "go" /\ a.n = u.prn.iocount /\ a.n <= Len(u.loop.buf) /\ t.prn.iofree = TRUE
                /\ t.loop.buf = SubSeq(u.loop.buf, a.n + 1, Len(u.loop.buf))
                /\ t.loop.total = u.loop.total + a.n /\ t.loop.drain = u.loop.drain
             \/ /\ t.end = "go" /\ a.n = 0 /\ t.prn.iofree = TRUE
                /\ t.loop.buf = u.loop.buf /\ t.loop.total = u.loop.total
                /\ t.loop.drain = u.loop.drain
      <4>1. u.end = "go"
        BY <2>3
      <4>. QED
        BY <2>2, <2>3, <3>1, <4>1, Answered
    <3>4. OneUnanswered(t.prn, t.link)
      <4>1. t.link.out = <<>> /\ \A i \in 1 .. Len(t.link.in) : ~IsReply(t.link.in[i])
        BY <2>3, <2>8, <2>12, <3>3 DEF IsReply
      <4>2. \A i \in 1 .. Len(t.link.in) : t.link.in[i].kind # "ack"
        BY <4>1 DEF IsReply
      <4>. QED
        BY <4>1, <4>2 DEF OneUnanswered
    <3>5. ~budget.hurt => Connected(t.link)
      BY <2>7, <3>3
    <3>6. t.prn.session = prn.session /\ t.link.up = link.up
      BY <2>9, <3>3
    <3>7. ~budget.cut => /\ s.prn.iocount <= Len(s.loop.buf)
                         /\ Len(printed) = Before + s.loop.total + a.n
                         /\ s.side.owed => s.loop.drain
      BY <1>1, <2>2, <2>12 DEF Underway, Accounted, in
    <3>8. s.loop.buf \in Seq(Chars) /\ s.loop.total \in Nat /\ s.prn.iocount \in Nat
      BY <2>1, Constants DEF Loops, Prns
    <3>9. Buffered(s.loop, s.pos)
      BY <1>1 DEF Underway
    <3>10. CASE t.end = "crash"
      <4>1. budget.cut
        BY <2>3, <3>3, <3>7, <3>8, <3>10
      <4>. QED
        BY <2>3, <3>3, <3>4, <3>5, <3>6, <3>10, <4>1 DEF Going, Underway
    <3>11. CASE t.end = "go" /\ a.n = u.prn.iocount /\ a.n <= Len(u.loop.buf)
                /\ t.loop.buf = SubSeq(u.loop.buf, a.n + 1, Len(u.loop.buf))
                /\ t.loop.total = u.loop.total + a.n /\ t.loop.drain = u.loop.drain
      <4>1. /\ Len(t.loop.buf) = Len(s.loop.buf) - a.n /\ Len(s.loop.buf) \in Nat
            /\ \A i \in 1 .. Len(t.loop.buf) : t.loop.buf[i] = s.loop.buf[a.n + i] /\ a.n + i \in 1 .. Len(s.loop.buf)
        <5> DEFINE b == s.loop.buf
                   c == t.loop.buf
                   n == a.n
                   m == Len(b)
        <5>1. b \in Seq(Chars) /\ n \in Nat /\ m \in Nat /\ n <= m /\ m <= Len(b) /\ c = SubSeq(b, n + 1, m)
          BY <2>3, <2>5, <3>8, <3>11
        <5> HIDE DEF b, c, n, m
        <5>2. Len(c) = m - n /\ \A i \in 1 .. Len(c) : c[i] = b[n + i] /\ n + i \in 1 .. Len(b)
          BY <5>1, PartOf
        <5>. QED
          BY <5>1, <5>2 DEF b, c, n, m
      <4>2. Buffered(t.loop, t.pos)
        <5>1. /\ Len(s.loop.buf) <= BufMax /\ s.loop.total + Len(s.loop.buf) = s.pos
              /\ \A i \in 1 .. Len(s.loop.buf) : s.loop.buf[i] = Data[s.loop.total + i]
          BY <3>9 DEF Buffered
        <5>2. Len(t.loop.buf) <= BufMax /\ t.loop.total + Len(t.loop.buf) = t.pos
          <6>1. t.loop.total = s.loop.total + a.n /\ t.pos = s.pos
            BY <2>3, <3>3, <3>11
          <6>. QED
            BY <2>5, <3>8, <4>1, <5>1, <6>1, Constants
        <5>3. ASSUME NEW i \in 1 .. Len(t.loop.buf) PROVE t.loop.buf[i] = Data[t.loop.total + i]
          <6>1. t.loop.buf[i] = Data[s.loop.total + (a.n + i)]
            BY <4>1, <5>1
          <6>2. s.loop.total + (a.n + i) = t.loop.total + i
            BY <2>3, <2>5, <3>8, <3>11
          <6>. QED
            BY <6>1, <6>2
        <5>. QED
          BY <5>2, <5>3 DEF Buffered
      <4>3. ~budget.cut => Accounted(t.loop, t.prn, t.link) /\ (t.side.owed => t.loop.drain)
        <5>1. ~budget.cut => Len(printed) = Before + t.loop.total
          BY <2>3, <2>5, <3>7, <3>8, <3>11
        <5>. QED
          BY <2>3, <2>8, <2>12, <3>3, <3>7, <3>11, <5>1 DEF Accounted, IsReply
      <4>4. s.loop.buf = <<>> => t.loop.buf = <<>>
        BY <2>3, <2>5, <3>8, <3>11
      <4>. QED
        BY <2>3, <3>3, <3>4, <3>5, <3>6, <3>11, <4>2, <4>3, <4>4 DEF Going, Underway
    <3>12. CASE t.end = "go" /\ a.n = 0
                /\ t.loop.buf = u.loop.buf /\ t.loop.total = u.loop.total
                /\ t.loop.drain = u.loop.drain
      <4>1. Buffered(t.loop, t.pos)
        BY <2>3, <3>3, <3>9, <3>12 DEF Buffered
      <4>2. ~budget.cut => Accounted(t.loop, t.prn, t.link) /\ (t.side.owed => t.loop.drain)
        <5>1. ~budget.cut => Len(printed) = Before + t.loop.total
          BY <2>3, <2>5, <3>7, <3>8, <3>12
        <5>. QED
          BY <2>3, <2>8, <2>12, <3>3, <3>7, <3>12, <5>1 DEF Accounted, IsReply
      <4>. QED
        BY <2>3, <3>3, <3>4, <3>5, <3>6, <3>12, <4>1, <4>2 DEF Going, Underway
    <3>. QED
      BY <3>2, <3>3, <3>10, <3>11, <3>12
  <2>. QED
    BY <2>5, <2>10, <2>11, <2>12
<1>. QED
  BY <1>2, <1>3

\* The report, and a request of the side channel.
LEMMA SideGoes ==
  ASSUME NEW s, Going(s), s.end = "go", NEW t,
         (\E e \in {"other", "again"} : t = ReportLevels(s, e)) \/ t = SideRequest(s)
  PROVE  Going(t) /\ t.loop.buf = s.loop.buf /\ t.end = "go" /\ t.link = s.link /\ t.pos = s.pos
<1>1. s \in LoopStates /\ OneUnanswered(s.prn, s.link) /\ Underway(s, budget)
  BY DEF Going
<1>2. /\ t \in LoopStates /\ t.link = s.link /\ t.end = "go" /\ t.pos = s.pos
      /\ t.loop.buf = s.loop.buf /\ t.loop.total = s.loop.total
      /\ t.prn.session = s.prn.session /\ t.prn.seq = s.prn.seq /\ t.prn.iofree = s.prn.iofree
      /\ t.prn.iocount = s.prn.iocount
      /\ \/ t.side.owed = s.side.owed /\ t.loop.drain = s.loop.drain
         \/ t.loop.drain = TRUE
  <2>1. CASE \E e \in {"other", "again"} : t = ReportLevels(s, e)
    <3>1. PICK e \in {"other", "again"} : t = ReportLevels(s, e)
      BY <2>1
    <3>2. /\ t \in LoopStates /\ t.loop = s.loop /\ t.pos = s.pos /\ t.link = s.link /\ t.side = s.side
          /\ t.end = s.end
          /\ t.prn.session = s.prn.session /\ t.prn.seq = s.prn.seq /\ t.prn.iofree = s.prn.iofree
          /\ t.prn.iocount = s.prn.iocount
      BY <1>1, <3>1, Reported
    <3>. QED
      BY <3>2
  <2>2. CASE t = SideRequest(s)
    <3>1. /\ t \in LoopStates /\ t.prn = s.prn /\ t.pos = s.pos /\ t.link = s.link /\ t.end = s.end
          /\ t.loop.buf = s.loop.buf /\ t.loop.total = s.loop.total
          /\ \/ t.side.owed = s.side.owed /\ t.loop.drain = s.loop.drain
             \/ t.loop.drain = TRUE
      BY <1>1, <2>2, Requested
    <3>. QED
      BY <3>1
  <2>. QED
    BY <2>1, <2>2
<1>3. OneUnanswered(t.prn, t.link)
  BY <1>1, <1>2 DEF OneUnanswered
<1>4. Buffered(t.loop, t.pos)
  BY <1>1, <1>2 DEF Underway, Buffered
<1>5. ~budget.cut => Accounted(t.loop, t.prn, t.link) /\ (t.side.owed => t.loop.drain)
  <2>1. ~budget.cut => Accounted(s.loop, s.prn, s.link) /\ (s.side.owed => s.loop.drain)
    BY <1>1 DEF Underway
  <2>2. Accounted(s.loop, s.prn, s.link) => Accounted(t.loop, t.prn, t.link)
    BY <1>2 DEF Accounted
  <2>. QED
    BY <1>2, <2>1, <2>2
<1>. QED
  BY <1>1, <1>2, <1>3, <1>4, <1>5 DEF Going, Underway

\* Print data is read when the buffer is empty.
LEMMA InputGoes ==
  ASSUME NEW s, Going(s), s.end = "go", s.loop.buf = <<>>, Before \in Nat, NEW k \in Int,
         \/ k = 0 /\ s.pos = Len(Data)
         \/ k \in 1 .. BufMax /\ s.pos + k <= Len(Data)
         \/ k = -1,
         NEW t, t = ReadInput(s, k)
  PROVE  Going(t)
<1>1. s \in LoopStates /\ OneUnanswered(s.prn, s.link) /\ Underway(s, budget)
  BY DEF Going
<1>2. /\ s.loop.total = s.pos /\ s.pos \in 0 .. Len(Data) /\ Len(s.loop.buf) = 0
      /\ Buffered(s.loop, s.pos)
  <2>1. Buffered(s.loop, s.pos) /\ s.loop.total \in Nat /\ s.pos \in 0 .. Len(Data)
    BY <1>1 DEF Underway, LoopStates, Loops
  <2>. QED
    BY <2>1, Constants DEF Buffered
<1>3. ~budget.cut =>
        /\ Accounted(s.loop, s.prn, s.link) /\ (s.side.owed => s.loop.drain)
        /\ s.link.out # <<>> => s.prn.iocount = 0
        /\ \A i \in 1 .. Len(s.link.in) : s.link.in[i].kind = "ack" => s.prn.iocount = 0 /\ s.link.in[i].n = 0
        /\ Len(printed) = Before + s.loop.total
  <2>1. SUFFICES ASSUME ~budget.cut
                 PROVE  /\ Accounted(s.loop, s.prn, s.link) /\ (s.side.owed => s.loop.drain)
                        /\ s.link.out # <<>> => s.prn.iocount = 0
                        /\ \A i \in 1 .. Len(s.link.in) : s.link.in[i].kind = "ack" => s.prn.iocount = 0 /\ s.link.in[i].n = 0
                        /\ Len(printed) = Before + s.loop.total
    OBVIOUS
  <2>2. Accounted(s.loop, s.prn, s.link) /\ (s.side.owed => s.loop.drain)
    BY <1>1, <2>1 DEF Underway
  <2>3. s.prn.iocount \in Nat /\ s.loop.total \in Nat
    BY <1>1, Constants DEF LoopStates, Prns, Loops
  <2>4. s.link.out # <<>> => s.prn.iocount = 0
    BY <1>2, <2>2, <2>3 DEF Accounted
  <2>5. \A i \in 1 .. Len(s.link.in) : s.link.in[i].kind = "ack" =>
          s.prn.iocount = 0 /\ s.link.in[i].n = 0 /\ Len(printed) = Before + s.loop.total + s.link.in[i].n
    <3>1. SUFFICES ASSUME NEW i \in 1 .. Len(s.link.in), s.link.in[i].kind = "ack"
                   PROVE  /\ s.prn.iocount = 0 /\ s.link.in[i].n = 0
                          /\ Len(printed) = Before + s.loop.total + s.link.in[i].n
      OBVIOUS
    <3>2. s.prn.iocount <= Len(s.loop.buf) /\ Len(printed) = Before + s.loop.total + s.link.in[i].n
      BY <2>2, <3>1 DEF Accounted
    <3>3. s.link.in[i].n \in {0, s.prn.iocount}
      BY <1>1, <3>1 DEF OneUnanswered
    <3>4. s.prn.iocount = 0
      BY <1>2, <2>3, <3>2
    <3>. QED
      BY <3>2, <3>3, <3>4
  <2>6. Len(printed) = Before + s.loop.total
    <3>1. CASE \E i \in 1 .. Len(s.link.in) : s.link.in[i].kind = "ack"
      <4>1. PICK i \in 1 .. Len(s.link.in) : s.link.in[i].kind = "ack"
        BY <3>1
      <4> DEFINE n == s.link.in[i].n
      <4>2. n = 0 /\ Len(printed) = Before + s.loop.total + n
        BY <2>5, <4>1
      <4> HIDE DEF n
      <4>. QED
        BY <2>3, <4>2
    <3>2. CASE \A i \in 1 .. Len(s.link.in) : s.link.in[i].kind # "ack"
      BY <2>2, <3>2 DEF Accounted
    <3>. QED
      BY <3>1, <3>2
  <2>. QED
    BY <2>2, <2>4, <2>5, <2>6
<1>4. CASE k > 0
  <2>1. k \in 1 .. BufMax /\ s.pos + k <= Len(Data)
    BY <1>4
  <2>2. /\ t \in LoopStates /\ t.prn = s.prn /\ t.link = s.link
        /\ t.loop.buf = SubSeq(Data, s.pos + 1, s.pos + k) /\ t.pos = s.pos + k
        /\ t.loop.total = s.loop.total /\ t.loop.drain = s.loop.drain
        /\ t.side = s.side /\ t.end = "go"
    BY <1>1, <1>4, <2>1, Filled
  <2>3. Len(t.loop.buf) = k /\ \A i \in 1 .. k : t.loop.buf[i] = Data[s.pos + i]
    <3> DEFINE n == s.pos
               m == s.pos + k
               b == t.loop.buf
    <3>1. n \in Nat /\ m \in Nat /\ n <= m /\ m <= Len(Data) /\ m - n = k /\ b = SubSeq(Data, n + 1, m)
      BY <1>2, <2>1, <2>2, Constants
    <3> HIDE DEF n, m, b
    <3>2. Data \in Seq(Chars)
      BY Constants
    <3>3. Len(b) = m - n /\ \A i \in 1 .. Len(b) : b[i] = Data[n + i]
      BY <3>1, <3>2, PartOf
    <3>. QED
      BY <3>1, <3>3 DEF b, n
  <2>4. Buffered(t.loop, t.pos)
    <3>1. t.loop.total = s.pos /\ t.pos = s.pos + k /\ s.pos \in Nat /\ k <= BufMax
      BY <1>2, <2>1, <2>2, Constants
    <3>. QED
      BY <2>3, <3>1 DEF Buffered
  <2>5. ~budget.cut => Accounted(t.loop, t.prn, t.link) /\ (t.side.owed => t.loop.drain)
    <3>1. SUFFICES ASSUME ~budget.cut PROVE Accounted(t.loop, t.prn, t.link) /\ (t.side.owed => t.loop.drain)
      OBVIOUS
    <3>2. /\ t.link.out # <<>> => t.prn.iocount = 0
          /\ \A i \in 1 .. Len(t.link.in) : t.link.in[i].kind = "ack" => t.prn.iocount = 0 /\ t.link.in[i].n = 0
          /\ Len(printed) = Before + t.loop.total /\ t.loop.total \in Nat
      BY <1>2, <1>3, <2>2, <3>1
    <3>3. \A i \in 1 .. Len(t.link.in) : t.link.in[i].kind = "ack" =>
             t.prn.iocount <= Len(t.loop.buf) /\ Len(printed) = Before + t.loop.total + t.link.in[i].n
      BY <2>1, <2>3, <3>2
    <3>4. t.link.out # <<>> =>
            t.prn.iocount <= Len(t.loop.buf) /\ \A i \in 1 .. t.prn.iocount : t.link.out[1].data[i] = t.loop.buf[i]
      BY <2>1, <2>3, <3>2
    <3>. QED
      BY <1>3, <2>2, <3>1, <3>2, <3>3, <3>4 DEF Accounted
  <2>. QED
    BY <1>1, <2>2, <2>4, <2>5 DEF Going, Underway
<1>5. CASE k = 0
  <2>1. /\ t \in LoopStates /\ t.prn = s.prn /\ t.link = s.link /\ t.end = "eof"
        /\ t.side.owed = (IF s.loop.drain THEN FALSE ELSE s.side.owed)
    BY <1>1, <1>5, Exhausted
  <2>2. s.pos = Len(Data)
    BY <1>5
  <2>3. ~budget.cut => CopyOver(t.prn, t.link) /\ Len(printed) = Before + Len(Data) /\ ~t.side.owed
    BY <1>2, <1>3, <2>1, <2>2 DEF CopyOver
  <2>. QED
    BY <1>1, <2>1, <2>3 DEF Going, Underway
<1>6. CASE k = -1
  <2>1. /\ t \in LoopStates /\ t.prn = s.prn /\ t.link = s.link /\ t.end = s.end
        /\ t.loop = s.loop /\ t.pos = s.pos /\ t.side = s.side
    BY <1>1, <1>6, NothingRead
  <2>. QED
    BY <1>1, <2>1 DEF Going, Underway
<1>. QED
  BY <1>4, <1>5, <1>6

\* A packet is sent.
LEMMA WriteGoes ==
  ASSUME NEW s, Going(s), s.end = "go", NEW fate, fate = "error" => ~link.up,
         NEW t, t = Write(s, fate)
  PROVE  Going(t)
<1>1. s \in LoopStates /\ OneUnanswered(s.prn, s.link) /\ Underway(s, budget) /\ Buffered(s.loop, s.pos)
  BY DEF Going, Underway
<1>2. Sent(s, fate, t)
  <2>1. Len(s.loop.buf) <= BufMax
    BY <1>1 DEF Buffered
  <2>. QED
    BY <1>1, <2>1, Written
<1>3. Buffered(t.loop, t.pos)
  BY <1>1, <1>2 DEF Buffered, Sent
<1>4. ~budget.hurt => Connected(t.link)
  BY <1>1, <1>2 DEF Underway, Connected, Sent
<1>5. t.prn.session = prn.session /\ t.link.up = link.up
  BY <1>1, <1>2 DEF Underway, Sent
<1>6. ~budget.cut => Accounted(s.loop, s.prn, s.link) /\ (s.side.owed => s.loop.drain)
  BY <1>1 DEF Underway
<1>7. CASE t.end = "go" /\ t.prn = s.prn /\ t.link = s.link
  <2>1. ~budget.cut => Accounted(t.loop, t.prn, t.link) /\ (t.side.owed => t.loop.drain)
    BY <1>2, <1>6, <1>7 DEF Accounted, Sent
  <2>. QED
    BY <1>1, <1>2, <1>3, <1>4, <1>5, <1>7, <2>1 DEF Going, Underway, Sent
<1>8. CASE t.end = "error" /\ t.prn = s.prn /\ t.link = s.link /\ s.prn.iofree /\ fate = "error"
  <2>1. ~t.link.up /\ t.link.out = <<>>
    BY <1>1, <1>5, <1>8 DEF OneUnanswered
  <2>2. budget.hurt
    BY <1>4, <2>1 DEF Connected
  <2>. QED
    BY <1>1, <1>2, <1>4, <1>5, <1>8, <2>1, <2>2 DEF Going, Underway, Sent
<1>9. CASE /\ t.end = "go" /\ s.prn.iofree /\ t.prn.iofree = FALSE
           /\ t.prn.iocount \in 0 .. Len(s.loop.buf)
           /\ ~s.link.up => t.link.out = s.link.out
           /\ s.link.up => \E k \in Packet :
                /\ t.link.out = Append(s.link.out, k) /\ k.seq = t.prn.seq
                /\ Len(k.data) = t.prn.iocount /\ Leads(k.data)
                /\ \A i \in 1 .. t.prn.iocount : k.data[i] = s.loop.buf[i]
  <2>1. s.link.out = <<>> /\ \A i \in 1 .. Len(t.link.in) : ~IsReply(t.link.in[i]) /\ t.link.in[i].kind # "ack"
    BY <1>1, <1>2, <1>9 DEF OneUnanswered, IsReply, Sent
  <2>2. t.link.out # <<>> =>
          /\ t.link.up /\ Len(t.link.out) = 1 /\ t.link.out[1].seq = t.prn.seq
          /\ Len(t.link.out[1].data) = t.prn.iocount /\ Leads(t.link.out[1].data)
          /\ t.prn.iocount <= Len(t.loop.buf)
          /\ \A i \in 1 .. t.prn.iocount : t.link.out[1].data[i] = t.loop.buf[i]
    <3>1. CASE s.link.up
      <4>1. PICK k \in Packet :
              /\ t.link.out = Append(s.link.out, k) /\ k.seq = t.prn.seq
              /\ Len(k.data) = t.prn.iocount /\ Leads(k.data)
              /\ \A i \in 1 .. t.prn.iocount : k.data[i] = s.loop.buf[i]
        BY <1>9, <3>1
      <4>2. t.link.out = <<k>>
        BY <2>1, <4>1
      <4>3. Len(t.link.out) = 1 /\ t.link.out[1] = k
        BY <4>2
      <4>. QED
        BY <1>2, <1>9, <3>1, <4>1, <4>3 DEF Sent
    <3>2. CASE ~s.link.up
      BY <1>9, <2>1, <3>2
    <3>. QED
      BY <3>1, <3>2
  <2>3. OneUnanswered(t.prn, t.link)
    BY <1>9, <2>1, <2>2 DEF OneUnanswered
  <2>4. ~budget.cut => Accounted(t.loop, t.prn, t.link) /\ (t.side.owed => t.loop.drain)
    <3>1. ~budget.cut => Len(printed) = Before + t.loop.total
      BY <1>2, <1>6, <2>1 DEF Accounted, Sent
    <3>. QED
      BY <1>2, <1>6, <2>1, <2>2, <3>1 DEF Accounted, Sent
  <2>. QED
    BY <1>2, <1>3, <1>4, <1>5, <1>9, <2>3, <2>4 DEF Going, Underway, Sent
<1>. QED
  BY <1>2, <1>7, <1>8, <1>9 DEF Sent

\* The reads of print data there may be: none, the end of the file, some, or nothing yet.
Reads(k) ==
  \/ k = {}
  \/ loop.buf = <<>> /\ \A i \in k :
       i \in Int /\ ((i = 0 /\ pos = Len(Data)) \/ (i \in 1 .. BufMax /\ pos + i <= Len(Data)) \/ i = -1)

\* Whatever an iteration does, in the order of the code, it goes on soundly.
LEMMA IterationGoes ==
  ASSUME Going(State), Before \in Nat, printed \in Seq(Chars), NEW k, Reads(k),
         NEW s \in Iterations(k)
  PROVE  Going(s)
<1> DEFINE Step(S, cond(_), Do(_)) == {IF r.end = "go" /\ cond(r) THEN Do(r) ELSE r : r \in S}
           S0 == {State} \cup {ReportLevels(State, e) : e \in {errno, "other"}}
           S1 == Step(S0, LAMBDA r : SideReady, SideRequest)
           S2 == Step(S1, LAMBDA r : DeviceReady, Backchannel)
           S3 == IF k = {} THEN S2
                 ELSE UNION {Step(S2, LAMBDA r : TRUE, LAMBDA r : ReadInput(r, i)) : i \in k}
           S4 == UNION {Step(S3, LAMBDA r : MayWrite /\ (r.loop.keep \/ r.loop.buf # <<>>),
                             LAMBDA r : Write(r, f)) : f \in Fates}
           Known(r) == Going(r) /\ (r.end = "go" => r.link = link /\ r.pos = pos /\ r.loop.buf = loop.buf)
           Empty(r) == Going(r) /\ (r.end = "go" => r.pos = pos /\ (loop.buf = <<>> => r.loop.buf = <<>>))
<1>1. s \in S4
  BY DEF Iterations
<1>2. /\ State.end = "go" /\ State.link = link /\ State.pos = pos /\ State.loop = loop
      /\ State.errno = errno
  BY DEF State
<1>3. errno \in {"other", "again"}
  BY <1>2 DEF Going, LoopStates
<1>4. ASSUME NEW r \in S0 PROVE Known(r) /\ r.end = "go"
  <2>1. CASE r = State
    BY <1>2, <2>1
  <2>2. CASE \E e \in {errno, "other"} : r = ReportLevels(State, e)
    <3>1. \E e \in {"other", "again"} : r = ReportLevels(State, e)
      BY <1>3, <2>2
    <3>2. Going(r) /\ r.loop.buf = State.loop.buf /\ r.end = "go" /\ r.link = State.link /\ r.pos = State.pos
      BY <1>2, <3>1, SideGoes
    <3>. QED
      BY <1>2, <3>2
  <2>. QED
    BY <2>1, <2>2
<1>5. ASSUME NEW r \in S1 PROVE Known(r)
  <2>1. PICK q \in S0 : r = IF q.end = "go" /\ SideReady THEN SideRequest(q) ELSE q
    OBVIOUS
  <2>2. Known(q) /\ q.end = "go"
    BY <1>4
  <2> HIDE DEF S0
  <2>3. CASE r = SideRequest(q)
    <3>1. Going(r) /\ r.loop.buf = q.loop.buf /\ r.end = "go" /\ r.link = q.link /\ r.pos = q.pos
      BY <2>2, <2>3, SideGoes
    <3>. QED
      BY <2>2, <3>1
  <2>. QED
    BY <2>1, <2>2, <2>3
<1>6. ASSUME NEW r \in S2 PROVE Empty(r)
  <2>1. PICK q \in S1 : r = IF q.end = "go" /\ DeviceReady THEN Backchannel(q) ELSE q
    OBVIOUS
  <2>2. Known(q)
    BY <1>5
  <2> HIDE DEF S0, S1
  <2>3. CASE q.end = "go" /\ DeviceReady
    <3>1. q.link.in # <<>> \/ ~q.link.up
      BY <2>2, <2>3 DEF DeviceReady
    <3>2. /\ Going(r) /\ r.pos = q.pos
          /\ q.loop.buf = <<>> => r.loop.buf = <<>> \/ r.end # "go"
      <4>1. r = Backchannel(q)
        BY <2>1, <2>3
      <4>. QED
        BY <2>2, <2>3, <3>1, <4>1, BackchannelGoes
    <3>. QED
      BY <2>2, <2>3, <3>2
  <2>4. CASE ~(q.end = "go" /\ DeviceReady)
    BY <2>1, <2>2, <2>4
  <2>. QED
    BY <2>3, <2>4
<1>7. ASSUME NEW r \in S3 PROVE Going(r)
  <2>1. CASE k = {}
    BY <1>6, <2>1
  <2>2. CASE k # {}
    <3>1. r \in UNION {Step(S2, LAMBDA x : TRUE, LAMBDA x : ReadInput(x, i)) : i \in k}
      BY <2>2
    <3>2. PICK i \in k, q \in S2 : r = IF q.end = "go" THEN ReadInput(q, i) ELSE q
      <4> HIDE DEF S2
      <4>. QED
        BY <3>1
    <3>3. Empty(q)
      BY <1>6
    <3> HIDE DEF S0, S1, S2
    <3>4. CASE q.end = "go"
      <4>1. /\ q.loop.buf = <<>> /\ i \in Int
            /\ (i = 0 /\ q.pos = Len(Data)) \/ (i \in 1 .. BufMax /\ q.pos + i <= Len(Data)) \/ i = -1
        BY <2>2, <3>3, <3>4 DEF Reads
      <4>2. r = ReadInput(q, i)
        BY <3>2, <3>4
      <4>. QED
        BY <3>3, <3>4, <4>1, <4>2, InputGoes
    <3>5. CASE q.end # "go"
      BY <3>2, <3>3, <3>5
    <3>. QED
      BY <3>4, <3>5
  <2>. QED
    BY <2>1, <2>2
<1>8. PICK f \in Fates, q \in S3 :
        s = IF q.end = "go" /\ (MayWrite /\ (q.loop.keep \/ q.loop.buf # <<>>)) THEN Write(q, f) ELSE q
  <2> HIDE DEF S3
  <2>. QED
    BY <1>1
<1>9. Going(q)
  BY <1>7
<1> HIDE DEF S0, S1, S2, S3, S4
<1>10. CASE q.end = "go" /\ s = Write(q, f)
  <2>1. f = "error" => ~link.up
    BY <1>8 DEF Fates
  <2>. QED
    BY <1>9, <1>10, <2>1, WriteGoes
<1>. QED
  BY <1>8, <1>9, <1>10

\* An iteration starts on what the last one left.
LEMMA StateGoes ==
  ASSUME JobTypes, OneUnanswered(prn, link), Rolling
  PROVE  Going(State) /\ Before \in Int /\ (copies < Copies => Before \in Nat)
<1>1. /\ State.loop = loop /\ State.prn = prn /\ State.pos = pos /\ State.errno = errno
      /\ State.link = link /\ State.side = side /\ State.end = "go"
  BY DEF State
<1>2. State \in LoopStates
  BY DEF JobTypes, State, LoopStates, Ends
<1>3. Underway(State, budget)
  BY <1>1 DEF Rolling, Underway
<1>4. Before \in Int
  BY Constants DEF Before, JobTypes
<1>5. ASSUME copies < Copies PROVE Before \in Nat
  <2>1. Copies - copies - 1 \in Nat
    BY <1>5, Constants DEF JobTypes
  <2>. QED
    BY <2>1, Constants DEF Before
<1>. QED
  BY <1>1, <1>2, <1>3, <1>4, <1>5 DEF Going

-----------------------------------------------------------------------------
(* The end of an iteration *)

\* A copy more is behind the run loop when it starts on the next one, or none is left.
LEMMA NextCopy ==
  ASSUME JobTypes
  PROVE  /\ (Copies - (copies - 1) - 1) * Len(Data) = Before + Len(Data)
         /\ copies = 0 => Before + Len(Data) = Copies * Len(Data)
<1> DEFINE n == Len(Data)
           c == Copies - copies - 1
<1>1. n \in Nat /\ c \in Int /\ Copies \in Nat /\ copies \in Nat
  BY Constants DEF JobTypes
<1>2. Copies - (copies - 1) - 1 = c + 1 /\ (copies = 0 => Copies = c + 1) /\ Before = c * n
  BY <1>1 DEF Before
<1> HIDE DEF n, c
<1>3. (c + 1) * n = c * n + n
  BY <1>1
<1>. QED
  BY <1>2, <1>3 DEF n

\* What the interruption or the bad answer adds to the budget.
Grown(b) ==
  /\ b \in Budgets /\ b.tries = budget.tries /\ b.opened = budget.opened
  /\ budget.cut => b.cut
  /\ budget.hurt => b.hurt
  /\ b.cut => b.hurt

\* Settling what an iteration left keeps the invariant (Settle).
LEMMA Settled ==
  ASSUME JobInv, pc = "run", NEW s \in LoopStates, OneUnanswered(s.prn, s.link), Underway(s, budget'),
         Settle(s), UNCHANGED <<printed, sessions>>, Grown(budget')
  PROVE  JobInv'
<1>1. JobTypes /\ Stages /\ Opened /\ PrintedInOrder /\ SessionsClosed
  BY DEF JobInv
<1>2. copies < Copies /\ copies \in Nat /\ result = "none" /\ Before \in Int
  BY <1>1, Constants DEF Stages, JobTypes, Before
<1>3. /\ s.loop \in Loops /\ s.prn \in Prns /\ s.pos \in 0 .. Len(Data)
      /\ s.errno \in {"other", "again"} /\ s.link \in Links /\ s.side \in Sides
      /\ s.end \in {"go", "error", "eof", "crash"}
  BY DEF LoopStates, Ends
<1>4. prn' = s.prn /\ errno' = s.errno /\ link' = s.link /\ side' = s.side
  BY DEF Settle
<1>5. FreshLoop \in Loops /\ 0 \in 0 .. Len(Data)
  BY Constants DEF FreshLoop, Loops
<1>6. /\ s.end = "go" => loop' = s.loop /\ pos' = s.pos /\ pc' = "run" /\ result' = "none" /\ copies' = copies
      /\ s.end # "go" => loop' = FreshLoop /\ pos' = 0
      /\ s.end = "eof" /\ copies > 0 => pc' = "run" /\ result' = "none" /\ copies' = copies - 1
      /\ s.end = "eof" /\ ~(copies > 0) => pc' = "close" /\ result' = "ok" /\ copies' = copies
      /\ s.end = "error" => pc' = "close" /\ result' = "failed" /\ copies' = copies
      /\ s.end = "crash" => pc' = "crashed" /\ result' = "none" /\ copies' = copies
  BY <1>2 DEF Settle
<1>7. JobTypes'
  <2>1. /\ pc' \in {"start", "levels", "tcp", "wait", "run", "close", "done", "crashed"}
        /\ copies' \in 0 .. Copies /\ result' \in {"none", "ok", "failed"}
        /\ loop' \in Loops /\ pos' \in 0 .. Len(Data)
    BY <1>1, <1>2, <1>3, <1>5, <1>6, Constants DEF JobTypes
  <2>. QED
    BY <1>1, <1>3, <1>4, <2>1 DEF JobTypes, Grown
<1>8. OneUnanswered(prn, link)'
  BY <1>4 DEF OneUnanswered
<1>9. Opened'
  BY <1>1, <1>3, <1>6 DEF Opened, Grown
<1>10. PrintedInOrder'
  BY <1>1 DEF PrintedInOrder, InCopies, Grown
<1>11. SessionsClosed'
  BY <1>1, <1>3, <1>4, <1>6 DEF SessionsClosed, Underway, Grown
<1>12. Stages'
  <2>1. budget'.cut => budget'.hurt
    BY DEF Grown
  <2>2. CASE s.end = "go"
    <3>1. Before' = Before
      BY <1>6, <2>2 DEF Before
    <3>2. Rolling'
      <4>1. Buffered(loop, pos)'
        BY <1>6, <2>2 DEF Underway, Buffered
      <4>2. ~budget'.cut => Accounted(loop, prn, link)' /\ (side'.owed => loop'.drain)
        BY <1>4, <1>6, <2>2, <3>1 DEF Underway, Accounted
      <4>3. ~budget'.hurt => Connected(link)'
        BY <1>4 DEF Underway, Connected
      <4>. QED
        BY <4>1, <4>2, <4>3 DEF Rolling
    <3>. QED
      BY <1>2, <1>6, <2>1, <2>2, <3>2 DEF Stages, Connecting
  <2>3. CASE s.end = "eof" /\ copies > 0
    <3>1. Before' = Before + Len(Data)
      BY <1>1, <1>6, <2>3, NextCopy DEF Before
    <3>2. loop' = FreshLoop /\ pos' = 0 /\ pc' = "run" /\ result' = "none" /\ copies' = copies - 1
      BY <1>6, <2>3
    <3>3. Len(loop'.buf) = 0 /\ loop'.total = 0 /\ loop'.buf = <<>>
      BY <3>2 DEF FreshLoop
    <3>4. Buffered(loop, pos)'
      BY <3>2, <3>3, Constants DEF Buffered
    <3>5. ~budget'.cut => Accounted(loop, prn, link)' /\ (side'.owed => loop'.drain)
      <4>1. SUFFICES ASSUME ~budget'.cut PROVE Accounted(loop, prn, link)' /\ (side'.owed => loop'.drain)
        OBVIOUS
      <4>2. /\ s.link.out # <<>> => s.prn.iocount = 0
            /\ \A i \in 1 .. Len(s.link.in) : s.link.in[i].kind = "ack" => s.prn.iocount = 0 /\ s.link.in[i].n = 0
            /\ Len(printed) = Before + Len(Data) /\ ~s.side.owed
        BY <2>3, <4>1 DEF Underway, CopyOver, OneUnanswered
      <4>3. Len(printed') = Before' + 0 /\ Len(printed') = Before' + 0 + 0 /\ printed' = printed
        BY <1>2, <3>1, <4>2, Constants
      <4>. QED
        BY <1>4, <3>3, <4>2, <4>3 DEF Accounted
    <3>6. ~budget'.hurt => Connected(link)'
      BY <1>4 DEF Underway, Connected
    <3>7. Rolling'
      BY <3>4, <3>5, <3>6 DEF Rolling
    <3>8. copies' < Copies
      BY <1>2, <3>2, Constants
    <3>. QED
      BY <2>1, <3>2, <3>7, <3>8 DEF Stages, Connecting
  <2>4. CASE s.end = "eof" /\ ~(copies > 0)
    <3>1. copies = 0
      BY <1>2, <2>4
    <3>2. ~budget'.cut => /\ link'.out # <<>> => prn'.iocount = 0
                          /\ Len(printed') = Copies * Len(Data) /\ ~side'.owed
      BY <1>1, <1>4, <2>4, <3>1, NextCopy DEF Underway, CopyOver
    <3>. QED
      BY <1>6, <2>1, <2>4, <3>2 DEF Stages, Connecting
  <2>5. CASE s.end = "error"
    <3>1. budget'.hurt /\ link'.out = <<>>
      BY <1>4, <2>5 DEF Underway
    <3>. QED
      BY <1>6, <2>1, <2>5, <3>1 DEF Stages, Connecting
  <2>6. CASE s.end = "crash"
    <3>1. budget'.cut
      BY <2>6 DEF Underway
    <3>. QED
      BY <1>6, <2>1, <2>6, <3>1 DEF Stages, Connecting
  <2>. QED
    BY <1>3, <2>2, <2>3, <2>4, <2>5, <2>6
<1>. QED
  BY <1>7, <1>8, <1>9, <1>10, <1>11, <1>12 DEF JobInv

\* An iteration, with or without print data (bjnp_backendRunLoop).
LEMMA IterateKeeps == JobInv /\ (Iterate \/ IterateInput \/ IterateAgain) => JobInv'
<1>1. SUFFICES ASSUME JobInv, Iterate \/ IterateInput \/ IterateAgain PROVE JobInv'
  OBVIOUS
<1>2. JobTypes /\ OneUnanswered(prn, link) /\ Stages
  BY <1>1 DEF JobInv
<1>3. pc = "run"
  BY <1>1 DEF Iterate, IterateInput, IterateAgain
<1>4. Rolling /\ copies < Copies
  BY <1>2, <1>3 DEF Stages
<1>5. Going(State) /\ Before \in Nat /\ printed \in Seq(Chars)
  BY <1>2, <1>4, StateGoes DEF JobTypes
<1>6. Grown(budget') /\ UNCHANGED <<printed, sessions>>
  <2>1. budget \in Budgets /\ (budget.cut => budget.hurt)
    BY <1>2 DEF JobTypes, Stages
  <2>2. CASE budget' = budget
    BY <1>1, <2>1, <2>2 DEF Grown, Iterate, IterateInput, IterateAgain
  <2>3. CASE IterateAgain
    <3>1. budget' = [budget EXCEPT !.left = @ - 1, !.hurt = TRUE] /\ budget.left > 0
      BY <2>3 DEF IterateAgain, Harmed
    <3>2. budget.left - 1 \in 0 .. MaxEvents
      BY <2>1, <3>1, Constants DEF Budgets
    <3>. QED
      BY <2>1, <2>3, <3>1, <3>2 DEF Grown, Budgets, IterateAgain
  <2>. QED
    BY <1>1, <2>2, <2>3 DEF Iterate, IterateInput, IterateAgain
<1>7. PICK k : Reads(k) /\ \E s \in Iterations(k) : Settle(s)
  <2>1. CASE Iterate
    BY <2>1 DEF Iterate, Reads
  <2>2. CASE IterateInput
    <3> DEFINE k == IF pos = Len(Data) THEN {0} ELSE {i \in 1 .. BufMax : pos + i <= Len(Data)}
    <3>1. loop.buf = <<>> /\ \E s \in Iterations(k) : Settle(s)
      BY <2>2 DEF IterateInput
    <3>2. Reads(k)
      BY <3>1, Constants DEF Reads
    <3>. QED
      BY <3>1, <3>2
  <2>3. CASE IterateAgain
    <3>1. loop.buf = <<>> /\ \E s \in Iterations({-1}) : Settle(s)
      BY <2>3 DEF IterateAgain
    <3>2. Reads({-1})
      BY <3>1 DEF Reads
    <3>. QED
      BY <3>1, <3>2
  <2>. QED
    BY <1>1, <2>1, <2>2, <2>3
<1>8. PICK s \in Iterations(k) : Settle(s)
  BY <1>7
<1>9. Going(s)
  BY <1>5, <1>7, IterationGoes
<1>10. s \in LoopStates /\ OneUnanswered(s.prn, s.link) /\ Underway(s, budget)
  BY <1>9 DEF Going
<1>11. Underway(s, budget')
  <2>1. (budget.cut => budget'.cut) /\ (budget.hurt => budget'.hurt)
    BY <1>6 DEF Grown
  <2>2. CASE budget' = budget
    BY <1>10, <2>2
  <2>3. CASE budget'.hurt /\ budget'.cut = budget.cut
    BY <1>10, <2>3 DEF Underway
  <2>4. budget' = budget \/ (budget'.hurt /\ budget'.cut = budget.cut)
    <3>1. budget \in Budgets
      BY <1>2 DEF JobTypes
    <3>. QED
      BY <1>1, <3>1 DEF Iterate, IterateInput, IterateAgain, Harmed, Budgets
  <2>. QED
    BY <2>2, <2>3, <2>4
<1>. QED
  BY <1>1, <1>3, <1>6, <1>8, <1>10, <1>11, Settled

\* An interrupted select: the copy counts as printed when no byte of it is acknowledged.
LEMMA InterruptedKeeps == JobInv /\ Interrupted => JobInv'
<1>1. SUFFICES ASSUME JobInv, Interrupted PROVE JobInv'
  OBVIOUS
<1>2. JobTypes /\ OneUnanswered(prn, link) /\ Stages /\ pc = "run" /\ budget.left > 0
  BY <1>1 DEF JobInv, Interrupted
<1>3. Rolling /\ (budget.cut => budget.hurt)
  BY <1>2 DEF Stages
<1>4. Going(State)
  BY <1>2, <1>3, StateGoes
<1>5. Grown(budget') /\ UNCHANGED <<printed, sessions>> /\ budget'.cut /\ budget'.hurt
  <2>1. budget \in Budgets
    BY <1>2 DEF JobTypes
  <2>2. budget' = [[budget EXCEPT !.left = @ - 1, !.hurt = TRUE] EXCEPT !.cut = TRUE]
    BY <1>1 DEF Interrupted, Harmed
  <2>3. budget.left - 1 \in 0 .. MaxEvents
    BY <1>2, <2>1, Constants DEF Budgets
  <2>. QED
    BY <1>1, <1>3, <2>1, <2>2, <2>3 DEF Grown, Budgets, Interrupted
<1> DEFINE s == IF loop.total = 0 THEN [State EXCEPT !.end = "eof", !.errno = "again"]
                ELSE [State EXCEPT !.errno = "again"]
<1>6. Settle(s)
  BY <1>1 DEF Interrupted
<1>7. State \in LoopStates /\ State.end = "go" /\ State.prn = prn /\ State.link = link /\ State.loop = loop
      /\ State.pos = pos
  BY <1>4 DEF Going, State
<1>8. s \in LoopStates /\ s.prn = prn /\ s.link = link /\ s.loop = loop /\ s.pos = pos /\ s.end \in {"go", "eof"}
  BY <1>7 DEF LoopStates, Ends
<1> HIDE DEF s
<1>9. OneUnanswered(s.prn, s.link)
  BY <1>2, <1>8
<1>10. Underway(s, budget')
  BY <1>3, <1>5, <1>8 DEF Underway, Rolling
<1>. QED
  BY <1>1, <1>2, <1>5, <1>6, <1>8, <1>9, <1>10, Settled

-----------------------------------------------------------------------------
(* main() *)

\* The parts of the invariant that speak of one variable each.
LEMMA Budgeted ==
  ASSUME JobInv
  PROVE  /\ budget \in Budgets /\ (budget.cut => budget.hurt)
         /\ budget.left > 0 =>
              /\ Spent(budget) \in Budgets /\ Harmed(budget) \in Budgets
              /\ Spent(budget).cut = budget.cut /\ Spent(budget).hurt = budget.hurt
              /\ Spent(budget).tries = budget.tries /\ Spent(budget).opened = budget.opened
              /\ Harmed(budget).cut = budget.cut /\ Harmed(budget).hurt = TRUE
              /\ Harmed(budget).tries = budget.tries /\ Harmed(budget).opened = budget.opened
<1>1. budget \in Budgets /\ (budget.cut => budget.hurt)
  BY DEF JobInv, JobTypes, Stages
<1>2. ASSUME budget.left > 0 PROVE budget.left - 1 \in 0 .. MaxEvents
  BY <1>1, <1>2, Constants DEF Budgets
<1>. QED
  BY <1>1, <1>2 DEF Spent, Harmed, Budgets

\* The job's details are sent: at most two sessions more, and one is known.
LEMMA StartJobKeeps == JobInv /\ StartJob => JobInv'
<1>1. SUFFICES ASSUME JobInv, StartJob PROVE JobInv'
  OBVIOUS
<1> USE DEF JobInv
<1>2. /\ pc = "start" /\ pc' = "levels"
      /\ UNCHANGED <<copies, result, loop, pos, errno, link, printed, side>>
  BY <1>1 DEF StartJob
<1>3. PICK fate \in bjnp_process_udp_command({"late", "silent"}) : JobDetails(fate)
  BY <1>1 DEF StartJob
<1>4. /\ fate \in {"answered", "late", "silent"} /\ (fate # "answered" => budget.left > 0)
  BY <1>3 DEF bjnp_process_udp_command
<1>5. budget \in Budgets /\ budget.tries \in 0 .. MaxTries /\ budget.opened \in Nat
      /\ prn \in Prns /\ sessions \subseteq Nat
  BY <1>1, Constants DEF JobTypes, Budgets
<1>6. budget.opened <= 2 * (MaxTries - budget.tries)
  BY <1>1, <1>2, <1>5, Constants DEF Opened
<1>7. budget.opened + 1 \in 0 .. (2 * (MaxTries + 1)) /\ (budget.opened + 1) + 1 \in 0 .. (2 * (MaxTries + 1))
  BY <1>5, <1>6, Constants
<1>8. /\ prn' \in Prns /\ budget' \in Budgets /\ sessions' \subseteq Nat
      /\ budget'.cut = budget.cut /\ (budget.hurt => budget'.hurt)
      /\ budget'.tries = budget.tries /\ budget'.opened <= budget.opened + 2
      /\ fate # "answered" => budget'.hurt
      /\ fate = "answered" => budget'.hurt = budget.hurt
                              /\ sessions' = sessions \cup {prn'.session}
  <2> DEFINE o == budget.opened + 1
  <2>1. o \in Nat /\ o + 1 \in Nat /\ o \in 0 .. (2 * (MaxTries + 1)) /\ o + 1 \in 0 .. (2 * (MaxTries + 1))
        /\ o <= budget.opened + 2 /\ o + 1 <= budget.opened + 2 /\ budget.opened <= budget.opened + 2
    BY <1>5, <1>7
  <2>2. CASE fate = "answered"
    <3>1. /\ sessions' = sessions \cup {o} /\ prn' = [prn EXCEPT !.session = o, !.iofree = TRUE]
          /\ budget' = [budget EXCEPT !.opened = o]
      BY <1>3, <2>2 DEF JobDetails
    <3> HIDE DEF o
    <3>. QED
      BY <1>5, <2>1, <2>2, <3>1 DEF Prns, Budgets
  <2>3. CASE fate = "late"
    <3>1. /\ sessions' = sessions \cup {o, o + 1} /\ prn' = [prn EXCEPT !.session = o, !.iofree = TRUE]
          /\ budget' = [Harmed(budget) EXCEPT !.opened = o + 1]
      BY <1>3, <2>3 DEF JobDetails
    <3>2. Harmed(budget) \in Budgets /\ Harmed(budget).cut = budget.cut /\ Harmed(budget).hurt = TRUE
          /\ Harmed(budget).tries = budget.tries
      BY <1>1, <1>4, <2>3, Budgeted
    <3> HIDE DEF o
    <3>3. prn' \in Prns /\ sessions' \subseteq Nat
      BY <1>5, <2>1, <3>1 DEF Prns
    <3>4. budget' \in Budgets /\ budget'.cut = budget.cut /\ budget'.hurt = TRUE
          /\ budget'.tries = budget.tries /\ budget'.opened = o + 1
      BY <2>1, <3>1, <3>2 DEF Budgets
    <3>. QED
      BY <2>1, <2>3, <3>3, <3>4
  <2>4. CASE fate = "silent"
    <3>1. /\ sessions' = sessions /\ prn' = [prn EXCEPT !.session = 0, !.iofree = TRUE]
          /\ budget' = Harmed(budget)
      BY <1>3, <2>4 DEF JobDetails, NoSession
    <3>2. Harmed(budget) \in Budgets /\ Harmed(budget).cut = budget.cut /\ Harmed(budget).hurt = TRUE
          /\ Harmed(budget).tries = budget.tries /\ Harmed(budget).opened = budget.opened
      BY <1>1, <1>4, <2>4, Budgeted
    <3>3. prn' \in Prns /\ sessions' \subseteq Nat
      BY <1>5, <3>1 DEF Prns
    <3>. QED
      BY <2>1, <2>4, <3>1, <3>2, <3>3
  <2>. QED
    BY <1>4, <2>2, <2>3, <2>4
<1>9. link = NoLink /\ copies = Copies /\ result = "none" /\ printed = <<>> /\ ~side.owed /\ ~budget.cut
  BY <1>1, <1>2 DEF Stages, Connecting
<1>10. JobTypes'
  BY <1>1, <1>2, <1>8 DEF JobTypes
<1>11. OneUnanswered(prn, link)'
  BY <1>2, <1>9 DEF OneUnanswered, NoLink
<1>12. Stages'
  BY <1>1, <1>2, <1>8, <1>9 DEF Stages, Connecting
<1>13. Opened'
  <2>1. budget'.opened \in Nat /\ budget'.tries \in Nat
    BY <1>8, Constants DEF Budgets
  <2>. QED
    BY <1>2, <1>5, <1>6, <1>8, <2>1, Constants DEF Opened
<1>14. PrintedInOrder'
  BY <1>1, <1>2, <1>8 DEF PrintedInOrder, InCopies
<1>15. SessionsClosed'
  BY <1>1, <1>2, <1>8 DEF SessionsClosed
<1>. QED
  BY <1>10, <1>11, <1>12, <1>13, <1>14, <1>15

\* The printer is ready, or the session is closed again.
LEMMA CheckLevelsKeeps == JobInv /\ CheckLevels => JobInv'
<1>1. SUFFICES ASSUME JobInv, CheckLevels PROVE JobInv'
  OBVIOUS
<1> USE DEF JobInv
<1>2. /\ pc = "levels" /\ pc' \in {"tcp", "wait"} /\ prn' = [prn EXCEPT !.serial = Number]
      /\ UNCHANGED <<copies, result, loop, pos, errno, link, printed, side>>
  BY <1>1 DEF CheckLevels
<1>3. prn \in Prns /\ budget \in Budgets /\ sessions \subseteq Nat
  BY <1>1 DEF JobTypes
<1>4. Number \in 0 .. Numbers - 1
  BY <1>3, Constants DEF Number, Prns
<1>5. prn' \in Prns /\ prn'.session = prn.session
  BY <1>2, <1>3, <1>4 DEF Prns
<1>6. /\ budget' \in Budgets /\ budget'.cut = budget.cut /\ (budget.hurt => budget'.hurt)
      /\ budget'.tries = budget.tries /\ budget'.opened = budget.opened
      /\ sessions' \subseteq sessions
      /\ ~budget'.hurt /\ pc' = "wait" => sessions' = sessions \ {prn.session}
  <2>1. CASE sessions' = sessions /\ budget' = budget /\ pc' = "tcp"
    BY <1>3, <2>1
  <2>2. CASE pc' = "wait"
    <3>1. PICK fate \in bjnp_process_udp_command({"silent"}) :
            /\ sessions' = AfterClose(fate)
            /\ budget' = IF fate = "silent" THEN Harmed(budget) ELSE budget
      BY <1>1, <2>2 DEF CheckLevels
    <3>2. fate \in {"answered", "silent"} /\ (fate = "silent" => budget.left > 0)
      BY <3>1 DEF bjnp_process_udp_command
    <3>. QED
      BY <1>1, <1>3, <3>1, <3>2, Budgeted DEF AfterClose
  <2>. QED
    BY <1>1, <2>1, <2>2 DEF CheckLevels
<1>7. link = NoLink /\ copies = Copies /\ result = "none" /\ printed = <<>> /\ ~side.owed /\ ~budget.cut
  BY <1>1, <1>2 DEF Stages, Connecting
<1>8. JobTypes'
  BY <1>1, <1>2, <1>3, <1>5, <1>6 DEF JobTypes
<1>9. OneUnanswered(prn, link)'
  BY <1>2, <1>7 DEF OneUnanswered, NoLink
<1>10. Stages'
  BY <1>1, <1>2, <1>6, <1>7 DEF Stages, Connecting
<1>11. Opened'
  BY <1>1, <1>2, <1>6 DEF Opened
<1>12. PrintedInOrder'
  BY <1>1, <1>2, <1>6 DEF PrintedInOrder, InCopies
<1>13. SessionsClosed'
  BY <1>1, <1>2, <1>5, <1>6 DEF SessionsClosed
<1>. QED
  BY <1>8, <1>9, <1>10, <1>11, <1>12, <1>13

\* The first copy starts with the connection.
LEMMA TcpConnectKeeps == JobInv /\ TcpConnect => JobInv'
<1>1. SUFFICES ASSUME JobInv, TcpConnect PROVE JobInv'
  OBVIOUS
<1> USE DEF JobInv
<1>2. pc = "tcp" /\ UNCHANGED <<result, errno, printed, side>>
  BY <1>1 DEF TcpConnect
<1>3. link = NoLink /\ copies = Copies /\ result = "none" /\ printed = <<>> /\ ~side.owed /\ ~budget.cut
      /\ loop = FreshLoop /\ pos = 0
  BY <1>1, <1>2 DEF Stages, Connecting
<1>4. prn \in Prns /\ budget \in Budgets /\ sessions \subseteq Nat /\ link \in Links
  BY <1>1 DEF JobTypes
<1>5. CASE /\ pc' = "run" /\ copies' = copies - 1 /\ loop' = FreshLoop /\ pos' = 0
           /\ link' = [NoLink EXCEPT !.up = TRUE] /\ UNCHANGED <<prn, sessions, budget>>
  <2>1. link'.up = TRUE /\ link'.out = <<>> /\ link'.in = <<>> /\ link' \in Links
    BY <1>3, <1>4, <1>5 DEF NoLink, Links
  <2>2. copies' \in 0 .. Copies /\ copies' < Copies /\ Copies - copies' - 1 = 0
    BY <1>3, <1>5, Constants
  <2>3. Before' = 0
    <3>1. 0 * Len(Data) = 0
      BY Constants
    <3>. QED
      BY <2>2, <3>1 DEF Before
  <2>4. JobTypes'
    BY <1>1, <1>2, <1>3, <1>5, <2>1, <2>2 DEF JobTypes
  <2>5. OneUnanswered(prn, link)'
    BY <2>1 DEF OneUnanswered
  <2>6. Rolling'
    <3>1. loop'.buf = <<>> /\ Len(loop'.buf) = 0 /\ loop'.total = 0 /\ pos' = 0
      BY <1>5 DEF FreshLoop
    <3>2. Buffered(loop, pos)'
      BY <3>1, Constants DEF Buffered
    <3>3. Len(printed') = 0 /\ Len(printed') = Before' + loop'.total
      BY <1>2, <1>3, <2>3, <3>1
    <3>4. Accounted(loop, prn, link)'
      BY <2>1, <3>3 DEF Accounted
    <3>5. Connected(link)'
      BY <2>1 DEF Connected
    <3>. QED
      BY <1>2, <1>3, <3>2, <3>4, <3>5 DEF Rolling
  <2>7. Stages'
    BY <1>1, <1>2, <1>3, <1>5, <2>2, <2>6 DEF Stages, Connecting
  <2>8. Opened'
    BY <1>1, <1>2, <1>5 DEF Opened
  <2>9. PrintedInOrder'
    BY <1>1, <1>2, <1>5 DEF PrintedInOrder, InCopies
  <2>10. SessionsClosed'
    BY <1>1, <1>5 DEF SessionsClosed
  <2>. QED
    BY <2>4, <2>5, <2>7, <2>8, <2>9, <2>10
<1>6. CASE /\ budget.left > 0 /\ pc' = "wait" /\ sessions' = AfterClose("answered")
           /\ prn' = [prn EXCEPT !.session = NoSession, !.serial = 0, !.seq = 0]
           /\ budget' = Harmed(budget) /\ UNCHANGED <<copies, loop, pos, link>>
  <2>1. budget' \in Budgets /\ budget'.cut = budget.cut /\ budget'.hurt = TRUE
        /\ budget'.tries = budget.tries /\ budget'.opened = budget.opened
    BY <1>1, <1>6, Budgeted
  <2>2. prn' \in Prns
    <3>1. 0 \in 0 .. Numbers - 1
      BY Constants
    <3>. QED
      BY <1>4, <1>6, <3>1 DEF Prns, NoSession
  <2>3. sessions' \subseteq Nat
    BY <1>4, <1>6 DEF AfterClose
  <2>4. JobTypes'
    BY <1>1, <1>2, <1>6, <2>1, <2>2, <2>3 DEF JobTypes
  <2>5. OneUnanswered(prn, link)'
    BY <1>3, <1>6 DEF OneUnanswered, NoLink
  <2>6. Stages'
    BY <1>1, <1>2, <1>3, <1>6, <2>1 DEF Stages, Connecting
  <2>7. Opened'
    BY <1>1, <1>2, <1>6, <2>1 DEF Opened
  <2>8. PrintedInOrder'
    BY <1>1, <1>2, <2>1 DEF PrintedInOrder, InCopies
  <2>9. SessionsClosed'
    BY <2>1 DEF SessionsClosed
  <2>. QED
    BY <2>4, <2>5, <2>6, <2>7, <2>8, <2>9
<1>. QED
  BY <1>1, <1>5, <1>6 DEF TcpConnect

\* Another attempt, or none; no session is open.
LEMMA RetryKeeps == JobInv /\ Retry => JobInv'
<1>1. SUFFICES ASSUME JobInv, Retry PROVE JobInv'
  OBVIOUS
<1> USE DEF JobInv
<1>2. pc = "wait" /\ UNCHANGED <<copies, prn, loop, pos, errno, link, printed, sessions, side>>
  BY <1>1 DEF Retry
<1>3. budget \in Budgets /\ budget.tries \in 0 .. MaxTries /\ budget.opened \in Nat
  BY <1>1, Constants DEF JobTypes, Budgets
<1>4. link = NoLink /\ copies = Copies /\ result = "none" /\ printed = <<>> /\ ~side.owed /\ ~budget.cut
      /\ budget.opened <= 2 * (MaxTries - budget.tries + 1)
  BY <1>1, <1>2 DEF Stages, Connecting, Opened
<1>5. /\ budget' \in Budgets /\ budget'.cut = budget.cut /\ budget'.hurt = budget.hurt
      /\ budget'.opened = budget.opened
      /\ \/ pc' = "done" /\ result' = "failed" /\ budget'.tries = budget.tries
         \/ pc' = "start" /\ result' = result /\ budget'.tries = budget.tries - 1
  <2>1. CASE pc' = "done" /\ result' = "failed" /\ UNCHANGED budget
    BY <1>3, <2>1
  <2>2. CASE budget.tries > 0 /\ pc' = "start" /\ UNCHANGED result /\ budget' = [budget EXCEPT !.tries = @ - 1]
    <3>1. budget.tries - 1 \in 0 .. MaxTries
      BY <1>3, <2>2, Constants
    <3>. QED
      BY <1>3, <2>2, <3>1 DEF Budgets
  <2>. QED
    BY <1>1, <2>1, <2>2 DEF Retry
<1>6. JobTypes'
  BY <1>1, <1>2, <1>5 DEF JobTypes
<1>7. OneUnanswered(prn, link)'
  BY <1>1, <1>2 DEF OneUnanswered
<1>8. Stages'
  BY <1>1, <1>2, <1>4, <1>5 DEF Stages, Connecting
<1>9. Opened'
  BY <1>3, <1>4, <1>5, Constants DEF Opened
<1>10. PrintedInOrder'
  BY <1>1, <1>2, <1>5 DEF PrintedInOrder, InCopies
<1>11. SessionsClosed'
  BY <1>1, <1>2, <1>5 DEF SessionsClosed
<1>. QED
  BY <1>6, <1>7, <1>8, <1>9, <1>10, <1>11

\* The session is closed at the end.
LEMMA ClosePrinterKeeps == JobInv /\ ClosePrinter => JobInv'
<1>1. SUFFICES ASSUME JobInv, ClosePrinter PROVE JobInv'
  OBVIOUS
<1> USE DEF JobInv
<1>2. /\ pc = "close" /\ pc' = "done" /\ link' = NoLink
      /\ UNCHANGED <<copies, result, prn, loop, pos, errno, printed, side>>
  BY <1>1 DEF ClosePrinter
<1>3. prn \in Prns /\ budget \in Budgets /\ sessions \subseteq Nat
  BY <1>1 DEF JobTypes
<1>4. PICK fate \in bjnp_process_udp_command({"silent"}) :
        /\ sessions' = AfterClose(fate)
        /\ budget' = IF fate = "silent" THEN Harmed(budget) ELSE budget
  BY <1>1 DEF ClosePrinter
<1>5. fate \in {"answered", "silent"} /\ (fate = "silent" => budget.left > 0)
  BY <1>4 DEF bjnp_process_udp_command
<1>6. /\ budget' \in Budgets /\ budget'.cut = budget.cut /\ (budget.hurt => budget'.hurt)
      /\ budget'.tries = budget.tries /\ budget'.opened = budget.opened
      /\ sessions' \subseteq sessions
      /\ ~budget'.hurt => sessions' = sessions \ {prn.session}
  BY <1>1, <1>3, <1>4, <1>5, Budgeted DEF AfterClose
<1>7. NoLink \in Links
  BY DEF NoLink, Links
<1>8. JobTypes'
  BY <1>1, <1>2, <1>3, <1>6, <1>7 DEF JobTypes
<1>9. OneUnanswered(prn, link)'
  BY <1>2 DEF OneUnanswered, NoLink
<1>10. Stages'
  BY <1>1, <1>2, <1>6 DEF Stages, Connecting
<1>11. Opened'
  BY <1>1, <1>2, <1>6 DEF Opened
<1>12. PrintedInOrder'
  BY <1>1, <1>2, <1>6 DEF PrintedInOrder, InCopies
<1>13. SessionsClosed'
  BY <1>1, <1>2, <1>6 DEF SessionsClosed
<1>. QED
  BY <1>8, <1>9, <1>10, <1>11, <1>12, <1>13

\* Nothing is ready: the loop only remembers that a keep-alive is due (select's timeout).
LEMMA SelectTimeoutKeeps == JobInv /\ SelectTimeout => JobInv'
<1>1. SUFFICES ASSUME JobInv, SelectTimeout PROVE JobInv'
  OBVIOUS
<1> USE DEF JobInv
<1>2. /\ pc = "run" /\ loop' = [loop EXCEPT !.keep = @ \/ ~loop.ack]
      /\ UNCHANGED <<pc, copies, result, prn, pos, errno, link, printed, sessions, side, budget>>
  BY <1>1 DEF SelectTimeout
<1>3. loop \in Loops /\ Rolling
  BY <1>1, <1>2 DEF JobTypes, Stages
<1>4. (loop.keep \/ ~loop.ack) \in BOOLEAN
  BY Zenon
<1>5. loop' \in Loops /\ loop'.buf = loop.buf /\ loop'.total = loop.total /\ loop'.drain = loop.drain
  BY <1>2, <1>3, <1>4 DEF Loops
<1>6. JobTypes'
  BY <1>1, <1>2, <1>5 DEF JobTypes
<1>7. OneUnanswered(prn, link)'
  BY <1>1, <1>2 DEF OneUnanswered
<1>8. Rolling'
  <2>1. Before' = Before
    BY <1>2 DEF Before
  <2>2. Buffered(loop, pos)'
    BY <1>2, <1>3, <1>5 DEF Rolling, Buffered
  <2>3. ~budget'.cut => Accounted(loop, prn, link)' /\ (side'.owed => loop'.drain)
    BY <1>2, <1>3, <1>5, <2>1 DEF Rolling, Accounted
  <2>. QED
    BY <1>2, <1>3, <2>2, <2>3 DEF Rolling, Connected
<1>9. Stages'
  BY <1>1, <1>2, <1>8 DEF Stages, Connecting
<1>10. Opened' /\ PrintedInOrder' /\ SessionsClosed'
  BY <1>1, <1>2 DEF Opened, PrintedInOrder, InCopies, SessionsClosed
<1>. QED
  BY <1>6, <1>7, <1>9, <1>10

-----------------------------------------------------------------------------
(* The printer and CUPS *)

\* A sequence of one element.
LEMMA OnlyOne ==
  ASSUME NEW S, NEW s \in Seq(S), Len(s) = 1
  PROVE  Head(s) = s[1] /\ Tail(s) = <<>>
<1>1. s # <<>>
  OBVIOUS
<1>2. Tail(s) \in Seq(S) /\ Len(Tail(s)) = 0
  BY <1>1
<1>3. Head(s) = s[1]
  BY <1>1
<1> DEFINE t == Tail(s)
<1>4. t # <<>> => Len(t) # 0
  <2> HIDE DEF t
  <2>1. t \in Seq(S)
    BY <1>2 DEF t
  <2>2. t # <<>> => Len(t) \in Nat \ {0}
    BY <2>1, EmptySeq
  <2>. QED
    BY <2>2
<1>. QED
  BY <1>2, <1>3, <1>4

\* The places of a concatenation.
LEMMA Joined ==
  ASSUME NEW S, NEW s \in Seq(S), NEW d \in Seq(S), NEW p, p = s \o d
  PROVE  /\ p \in Seq(S) /\ Len(p) = Len(s) + Len(d) /\ Len(s) \in Nat /\ Len(d) \in Nat
         /\ \A i \in 1 .. Len(s) : p[i] = s[i]
         /\ \A i \in 1 .. Len(d) : p[Len(s) + i] = d[i]
  OBVIOUS

\* The copies before this one and this one are among all of them.
LEMMA Multiples ==
  ASSUME NEW b \in Nat, NEW c \in Nat, NEW n \in Nat, b + 1 <= c
  PROVE  b * n \in Nat /\ c * n \in Nat /\ b * n + n <= c * n
<1> DEFINE e == b * n
           f == c * n
<1>1. c - (b + 1) \in Nat
  OBVIOUS
<1>2. (c - (b + 1)) * n \in Nat
  BY <1>1
<1>3. (c - (b + 1)) * n = f - (e + n) /\ e \in Nat /\ f \in Nat
  OBVIOUS
<1> HIDE DEF e, f
<1>4. e + n <= f
  BY <1>2, <1>3
<1>. QED
  BY <1>3, <1>4 DEF e, f

\* An item has one place in the copies.
LEMMA OnePlace ==
  ASSUME NEW b \in Nat, NEW c \in Nat, NEW n \in Nat, NEW i \in 1 .. n, NEW j \in 1 .. n,
         c * n + j = b * n + i
  PROVE  c = b /\ i = j
<1> DEFINE e == b * n
           f == c * n
<1>1. e \in Nat /\ f \in Nat /\ f + j = e + i
  OBVIOUS
<1>2. b + 1 <= c => e + n <= f
  BY Multiples
<1>3. c + 1 <= b => f + n <= e
  BY Multiples
<1>4. c = b => e = f
  OBVIOUS
<1> HIDE DEF e, f
<1>5. ~(b + 1 <= c) /\ ~(c + 1 <= b)
  BY <1>1, <1>2, <1>3
<1>6. c = b
  BY <1>5
<1>. QED
  BY <1>1, <1>4, <1>6

\* The answer to the one packet under way is the one answer under way (Reply).
LEMMA Replied ==
  ASSUME JobTypes, OneUnanswered(prn, link), link.out # <<>>, NEW kind \in {"ack", "empty"},
         NEW n \in Nat, kind = "ack" => n \in {0, prn.iocount}, Reply(kind, n)
  PROVE  /\ link' \in Links /\ link'.out = <<>> /\ link'.up = link.up /\ link.up
         /\ Len(link'.in) = Len(link.in) + 1 /\ Len(link.in) \in Nat
         /\ \A i \in 1 .. Len(link.in) : link'.in[i] = link.in[i] /\ ~IsReply(link.in[i])
         /\ link'.in[Len(link.in) + 1].kind = kind /\ link'.in[Len(link.in) + 1].n = n
         /\ OneUnanswered(prn, link')
<1> DEFINE a == [kind |-> kind, seq |-> Head(link.out).seq, n |-> n]
           m == Len(link.in)
           in == Append(link.in, a)
<1>1. prn \in Prns /\ link \in Links /\ link.in \in Seq(Answer) /\ link.out \in Seq(Packet)
  BY DEF JobTypes, Links
<1>2. /\ link.up /\ Len(link.out) = 1 /\ link.out[1].seq = prn.seq
      /\ ~prn.iofree /\ \A i \in 1 .. m : ~IsReply(link.in[i])
  BY DEF OneUnanswered
<1>3. Head(link.out) = link.out[1] /\ Tail(link.out) = <<>>
  BY <1>1, <1>2, OnlyOne
<1>4. a \in Answer /\ a.kind = kind /\ a.seq = prn.seq /\ a.n = n
  BY <1>1, <1>2, <1>3 DEF Answer, Prns
<1>5. link' = [link EXCEPT !.out = <<>>, !.in = in]
  BY <1>3 DEF Reply
<1> HIDE DEF a
<1>6. in \in Seq(Answer) /\ Len(in) = m + 1 /\ m \in Nat /\ in[m + 1] = a
      /\ \A i \in 1 .. m : in[i] = link.in[i]
  BY <1>1, <1>4
<1> HIDE DEF in, m
<1>7. link' \in Links /\ link'.out = <<>> /\ link'.in = in /\ link'.up = link.up
  <2>1. <<>> \in Seq(Packet)
    OBVIOUS
  <2>. QED
    BY <1>1, <1>5, <1>6, <2>1 DEF Links
<1>8. \A i \in 1 .. Len(in) : IsReply(in[i]) => i = m + 1
  BY <1>2, <1>6 DEF m
<1>9. \A i \in 1 .. Len(in) : in[i].kind = "ack" => i = m + 1 /\ in[i].seq = prn.seq /\ in[i].n \in {0, prn.iocount}
  BY <1>4, <1>6, <1>8 DEF IsReply
<1>10. OneUnanswered(prn, link')
  BY <1>2, <1>7, <1>8, <1>9 DEF OneUnanswered
<1>. QED
  BY <1>2, <1>4, <1>6, <1>7, <1>10 DEF m

\* What the printer took of the current copy lies within it, at its place.
LEMMA TakenInOrder ==
  ASSUME JobTypes, copies < Copies, Buffered(loop, pos), Accounted(loop, prn, link), InCopies(printed),
         OneUnanswered(prn, link), link.out # <<>>, NEW p, p = printed \o link.out[1].data
  PROVE  InCopies(p) /\ Len(p) = Before + loop.total + prn.iocount
<1> DEFINE d == link.out[1].data
           n == Len(Data)
           b == Copies - copies - 1
           m == prn.iocount
<1>1. /\ n \in Nat /\ b \in Nat /\ Copies \in Nat /\ copies \in Nat /\ b + 1 <= Copies
      /\ loop.total \in Nat /\ m \in Nat /\ pos \in 0 .. n /\ loop.buf \in Seq(Chars)
  BY Constants DEF JobTypes, Loops, Prns
<1>2. d \in Seq(Chars) /\ Len(d) = m /\ printed \in Seq(Chars)
  <2>1. link.out \in Seq(Packet) /\ Len(link.out) = 1 /\ Len(d) = m
    BY DEF JobTypes, Links, OneUnanswered
  <2>2. link.out[1] \in Packet
    BY <2>1
  <2>. QED
    BY <2>1, <2>2 DEF Packet, Chars, JobTypes
<1>3. /\ m <= Len(loop.buf) /\ \A i \in 1 .. m : d[i] = loop.buf[i]
      /\ \A i \in 1 .. Len(link.in) : link.in[i].kind # "ack"
  BY DEF Accounted, OneUnanswered, IsReply
<1>4. Len(printed) = Before + loop.total /\ Before = b * n
  BY <1>3 DEF Accounted, Before
<1>5. loop.total + Len(loop.buf) = pos /\ \A i \in 1 .. Len(loop.buf) : loop.buf[i] = Data[loop.total + i]
  BY DEF Buffered
<1>6. ASSUME NEW i \in 1 .. m PROVE d[i] = Data[loop.total + i] /\ loop.total + i \in 1 .. n
  <2>1. i \in 1 .. Len(loop.buf) /\ Len(loop.buf) \in Nat
    BY <1>1, <1>3
  <2>2. d[i] = Data[loop.total + i]
    BY <1>3, <1>5, <2>1
  <2>3. loop.total + i \in 1 .. n
    BY <1>1, <1>5, <2>1
  <2>. QED
    BY <2>2, <2>3
<1> DEFINE l == b * n
           o == Len(printed)
           k == loop.total
<1>7. /\ p \in Seq(Chars) /\ Len(p) = o + m /\ o \in Nat
      /\ \A i \in 1 .. o : p[i] = printed[i]
      /\ \A i \in 1 .. m : p[o + i] = d[i]
  BY <1>2, Joined
<1>8. l \in Nat /\ l + n <= Copies * n /\ Copies * n \in Nat
  BY <1>1, Multiples
<1>9. o = l + k /\ k \in Nat /\ k + m <= n
  <2>1. Len(loop.buf) \in Nat
    BY <1>1
  <2>2. k + m <= n
    BY <1>1, <1>3, <1>5, <2>1
  <2>. QED
    BY <1>1, <1>4, <2>2
<1>10. \A c \in 0 .. Copies - 1, j \in 1 .. n : c * n + j <= o => printed[c * n + j] = Data[j]
  BY DEF InCopies
<1>11. \A i \in 1 .. m : d[i] = Data[k + i] /\ k + i \in 1 .. n
  BY <1>6
<1>12. \A c \in Nat, j \in 1 .. n, i \in 1 .. n : c * n + j = l + i => c = b /\ i = j
  <2> HIDE DEF n, b
  <2>1. SUFFICES ASSUME NEW c \in Nat, NEW j \in 1 .. n, NEW i \in 1 .. n, c * n + j = b * n + i
                 PROVE  c = b /\ i = j
    OBVIOUS
  <2>2. n \in Nat /\ b \in Nat
    BY <1>1
  <2>. QED
    BY <2>1, <2>2, OnePlace
<1>13. Len(p) = Before + k + m
  BY <1>4, <1>7
<1> HIDE DEF l, o, k, m, n, b, d
<1>14. Len(p) <= Copies * n
  <2> DEFINE x == Copies * n
  <2>1. l + n <= x /\ x \in Nat
    BY <1>8
  <2> HIDE DEF x
  <2>2. Len(p) <= x
    BY <1>1, <1>7, <1>8, <1>9, <2>1
  <2>. QED
    BY <2>2 DEF x
<1>15. ASSUME NEW c \in 0 .. Copies - 1, NEW j \in 1 .. n, c * n + j <= Len(p)
       PROVE  p[c * n + j] = Data[j]
  <2> DEFINE e == c * n
  <2>1. c \in Nat /\ e \in Nat /\ j \in Nat /\ j >= 1 /\ e + j <= Len(p)
    BY <1>1, <1>15
  <2>2. e + j <= o => printed[e + j] = Data[j]
    BY <1>10
  <2>3. \A i \in 1 .. n : e + j = l + i => i = j
    BY <1>12, <2>1
  <2> SUFFICES p[e + j] = Data[j]
    OBVIOUS
  <2> HIDE DEF e
  <2>4. CASE e + j <= o
    BY <1>7, <2>1, <2>2, <2>4
  <2>5. CASE ~(e + j <= o)
    <3> DEFINE i == e + j - o
    <3>1. i \in 1 .. m /\ o + i = e + j /\ e + j = l + (k + i)
      BY <1>1, <1>7, <1>8, <1>9, <2>1, <2>5
    <3> HIDE DEF i
    <3>2. d[i] = Data[k + i] /\ k + i \in 1 .. n /\ p[o + i] = d[i]
      BY <1>7, <1>11, <3>1
    <3>3. k + i = j
      BY <2>3, <3>1, <3>2
    <3>. QED
      BY <3>1, <3>2, <3>3
  <2>. QED
    BY <2>4, <2>5
<1>. QED
  BY <1>13, <1>14, <1>15 DEF InCopies, n, m, k

\* The answer to a packet leaves the loop and the budget's end as they are; what is
\* printed is accounted for.
LEMMA RepliedKeeps ==
  ASSUME JobInv, link.out # <<>>, NEW kind \in {"ack", "empty"}, NEW n \in Nat,
         kind = "ack" => n \in {0, prn.iocount}, Reply(kind, n), Grown(budget'),
         UNCHANGED <<pc, copies, result, prn, loop, pos, errno, sessions, side>>,
         kind = "empty" => budget'.hurt,
         printed' \in Seq(Chars), ~budget.cut => InCopies(printed'),
         ~budget.cut /\ pc # "run" => printed' = printed,
         ~budget.cut /\ pc = "run" =>
           Len(printed') = Before + loop.total + (IF kind = "ack" THEN n ELSE 0)
  PROVE  JobInv'
<1> USE DEF JobInv
<1>1. /\ link' \in Links /\ link'.out = <<>> /\ link'.up = link.up /\ link.up
      /\ Len(link'.in) = Len(link.in) + 1 /\ Len(link.in) \in Nat
      /\ \A i \in 1 .. Len(link.in) : link'.in[i] = link.in[i] /\ ~IsReply(link.in[i])
      /\ link'.in[Len(link.in) + 1].kind = kind /\ link'.in[Len(link.in) + 1].n = n
      /\ OneUnanswered(prn, link')
  BY Replied
<1>2. JobTypes'
  BY <1>1 DEF JobTypes, Grown
<1>3. OneUnanswered(prn, link)'
  BY <1>1 DEF OneUnanswered
<1>4. \A i \in 1 .. Len(link'.in) :
        \/ i \in 1 .. Len(link.in) /\ link'.in[i] = link.in[i] /\ link'.in[i].kind \notin {"ack", "empty"}
        \/ i = Len(link.in) + 1 /\ link'.in[i].kind = kind /\ link'.in[i].n = n
  BY <1>1 DEF IsReply
<1>5. pc \notin Connecting \cup {"done"}
  BY DEF Stages, NoLink
<1>6. ASSUME pc = "run" PROVE Rolling'
  <2>1. Rolling /\ Before' = Before
    BY <1>6 DEF Stages, Before
  <2>2. Buffered(loop, pos)'
    BY <2>1 DEF Rolling, Buffered
  <2>3. ASSUME ~budget'.cut PROVE Accounted(loop, prn, link)' /\ (side'.owed => loop'.drain)
    <3>1. ~budget.cut /\ Accounted(loop, prn, link) /\ (side.owed => loop.drain)
      BY <2>1, <2>3 DEF Rolling, Grown
    <3>2. prn.iocount <= Len(loop.buf)
      BY <3>1 DEF Accounted
    <3>3. Len(printed') = Before + loop.total + (IF kind = "ack" THEN n ELSE 0)
      BY <1>6, <3>1
    <3>4. \A i \in 1 .. Len(link'.in) : link'.in[i].kind = "ack" =>
            kind = "ack" /\ link'.in[i].n = n
      BY <1>4
    <3>5. Len(link.in) + 1 \in 1 .. Len(link'.in)
      BY <1>1
    <3>6. (\A i \in 1 .. Len(link'.in) : link'.in[i].kind # "ack") => kind # "ack"
      BY <1>1, <3>5
    <3>7. kind # "ack" => Len(printed') = Before + loop.total
      <4>1. Before \in Int /\ loop.total \in Nat
        BY Constants DEF Before, JobTypes, Loops
      <4>. QED
        BY <3>3, <4>1
    <3>. QED
      BY <1>1, <2>1, <3>1, <3>2, <3>3, <3>4, <3>6, <3>7 DEF Accounted
  <2>4. ~budget'.hurt => Connected(link)'
    BY <1>1, <1>4, <2>1 DEF Rolling, Connected, Grown
  <2>. QED
    BY <2>2, <2>3, <2>4 DEF Rolling
<1>7. Stages'
  BY <1>1, <1>5, <1>6 DEF Stages, Connecting, Grown
<1>8. Opened' /\ SessionsClosed'
  BY DEF Opened, SessionsClosed, Grown
<1>9. PrintedInOrder'
  BY DEF PrintedInOrder, InCopies, Grown
<1>. QED
  BY <1>2, <1>3, <1>7, <1>8, <1>9

\* The printer takes the packet: it is the data's next items, or a keep-alive.
LEMMA PrinterAcceptsKeeps == JobInv /\ PrinterAccepts => JobInv'
<1>1. SUFFICES ASSUME JobInv, PrinterAccepts PROVE JobInv'
  OBVIOUS
<1> DEFINE d == Head(link.out).data
<1>2. /\ link.out # <<>> /\ Reply("ack", Len(d)) /\ printed' = printed \o d
      /\ UNCHANGED <<pc, copies, result, prn, loop, pos, errno, sessions, side, budget>>
  BY <1>1 DEF PrinterAccepts
<1>3. JobTypes /\ OneUnanswered(prn, link) /\ Stages /\ PrintedInOrder
  BY <1>1 DEF JobInv
<1>4. link.out \in Seq(Packet) /\ Len(link.out) = 1 /\ Len(link.out[1].data) = prn.iocount
  BY <1>2, <1>3 DEF JobTypes, Links, OneUnanswered
<1>5. Head(link.out) = link.out[1]
  BY <1>2, <1>4
<1>6. d = link.out[1].data /\ d \in Seq(Chars) /\ Len(d) = prn.iocount /\ printed \in Seq(Chars)
      /\ prn.iocount \in Nat
  <2>1. link.out[1] \in Packet
    BY <1>4
  <2>2. prn.iocount \in Nat /\ printed \in Seq(Chars)
    BY <1>3, Constants DEF JobTypes, Prns
  <2>. QED
    BY <1>4, <1>5, <2>1, <2>2 DEF Packet, Chars
<1> HIDE DEF d
<1>7. printed' \in Seq(Chars)
  BY <1>2, <1>6, Joined
<1>8. ASSUME ~budget.cut, pc = "run"
      PROVE  InCopies(printed') /\ Len(printed') = Before + loop.total + Len(d)
  <2>1. copies < Copies /\ Buffered(loop, pos) /\ Accounted(loop, prn, link) /\ InCopies(printed)
    BY <1>3, <1>8 DEF Stages, Rolling, PrintedInOrder
  <2>2. printed' = printed \o link.out[1].data
    BY <1>2, <1>6
  <2>3. InCopies(printed') /\ Len(printed') = Before + loop.total + prn.iocount
    BY <1>2, <1>3, <2>1, <2>2, TakenInOrder
  <2>. QED
    BY <1>6, <2>3
<1>9. ASSUME ~budget.cut, pc # "run" PROVE printed' = printed
  <2>1. pc = "close" /\ prn.iocount = 0
    BY <1>2, <1>3, <1>9 DEF Stages, Connecting, NoLink, JobTypes
  <2>2. d = <<>>
    BY <1>6, <2>1, EmptySeq
  <2>. QED
    BY <1>2, <1>6, <2>2, ConcatEmptySeq
<1>10. ~budget.cut => InCopies(printed')
  <2>1. ~budget.cut => InCopies(printed)
    BY <1>3 DEF PrintedInOrder
  <2>. QED
    BY <1>8, <1>9, <2>1
<1>11. Grown(budget')
  BY <1>2, <1>3 DEF Grown, JobTypes, Stages
<1>12. ~budget.cut /\ pc = "run" => Len(printed') = Before + loop.total + (IF "ack" = "ack" THEN Len(d) ELSE 0)
  BY <1>8
<1>13. "ack" = "ack" => Len(d) \in {0, prn.iocount}
  BY <1>6
<1>14. Len(d) \in Nat /\ "ack" \in {"ack", "empty"} /\ ("ack" = "empty" => budget'.hurt)
  BY <1>6
<1>15. UNCHANGED <<pc, copies, result, prn, loop, pos, errno, sessions, side>>
  BY <1>2
<1>16. ~budget.cut /\ pc # "run" => printed' = printed
  BY <1>9
<1> DEFINE kind == "ack"
           n == Len(d)
<1>17. /\ kind \in {"ack", "empty"} /\ n \in Nat /\ Reply(kind, n)
       /\ kind = "ack" => n \in {0, prn.iocount}
       /\ kind = "empty" => budget'.hurt
       /\ ~budget.cut /\ pc = "run" => Len(printed') = Before + loop.total + (IF kind = "ack" THEN n ELSE 0)
  BY <1>2, <1>12, <1>13, <1>14
<1> HIDE DEF kind, n
<1>. QED
  BY <1>1, <1>2, <1>7, <1>10, <1>11, <1>15, <1>16, <1>17, RepliedKeeps

\* The printer takes nothing of the packet.
LEMMA PrinterThrottlesKeeps == JobInv /\ PrinterThrottles => JobInv'
<1>1. SUFFICES ASSUME JobInv, PrinterThrottles PROVE JobInv'
  OBVIOUS
<1>2. /\ link.out # <<>> /\ Reply("ack", 0) /\ budget.left > 0 /\ budget' = Spent(budget)
      /\ UNCHANGED <<pc, copies, result, prn, loop, pos, errno, printed, sessions, side>>
  BY <1>1 DEF PrinterThrottles
<1>3. JobTypes /\ OneUnanswered(prn, link) /\ Stages /\ PrintedInOrder
  BY <1>1 DEF JobInv
<1>4. Grown(budget')
  BY <1>1, <1>2, Budgeted DEF Grown
<1>5. printed' \in Seq(Chars) /\ (~budget.cut => InCopies(printed')) /\ printed' = printed
  BY <1>2, <1>3 DEF JobTypes, PrintedInOrder, InCopies
<1>6. ASSUME ~budget.cut, pc = "run" PROVE Len(printed') = Before + loop.total
  <2>1. Accounted(loop, prn, link)
    BY <1>3, <1>6 DEF Stages, Rolling
  <2>2. \A i \in 1 .. Len(link.in) : link.in[i].kind # "ack"
    BY <1>2, <1>3 DEF OneUnanswered, IsReply
  <2>. QED
    BY <1>5, <2>1, <2>2 DEF Accounted
<1>7. Before \in Int /\ loop.total \in Nat
  BY <1>3, Constants DEF Before, JobTypes, Loops
<1> DEFINE kind == "ack"
           n == 0
<1>8. /\ kind \in {"ack", "empty"} /\ n \in Nat /\ Reply(kind, n)
      /\ kind = "ack" => n \in {0, prn.iocount}
      /\ kind = "empty" => budget'.hurt
      /\ ~budget.cut /\ pc = "run" => Len(printed') = Before + loop.total + (IF kind = "ack" THEN n ELSE 0)
  BY <1>2, <1>6, <1>7
<1> HIDE DEF kind, n
<1>. QED
  BY <1>1, <1>2, <1>4, <1>5, <1>8, RepliedKeeps

\* A packet that answers nothing.
LEMMA PrinterNoiseKeeps == JobInv /\ PrinterNoise => JobInv'
<1>1. SUFFICES ASSUME JobInv, PrinterNoise PROVE JobInv'
  OBVIOUS
<1> DEFINE a == [kind |-> "noise", seq |-> 0, n |-> 0]
           in == Append(link.in, a)
           m == Len(link.in)
<1>2. /\ pc = "run" /\ budget.left > 0 /\ link' = [link EXCEPT !.in = in] /\ budget' = Spent(budget)
      /\ UNCHANGED <<pc, copies, result, prn, loop, pos, errno, printed, sessions, side>>
  BY <1>1 DEF PrinterNoise
<1>3. JobTypes /\ OneUnanswered(prn, link) /\ Stages /\ PrintedInOrder /\ Opened /\ SessionsClosed
  BY <1>1 DEF JobInv
<1>4. Grown(budget') /\ budget'.cut = budget.cut /\ budget'.hurt = budget.hurt
  BY <1>1, <1>2, Budgeted DEF Grown
<1>5. a \in Answer /\ a.kind = "noise"
  <2>1. 0 \in 0 .. Numbers - 1
    BY Constants
  <2>. QED
    BY <2>1 DEF Answer
<1>6. link \in Links /\ link.in \in Seq(Answer)
  BY <1>3 DEF JobTypes, Links
<1> HIDE DEF a
<1>7. /\ in \in Seq(Answer) /\ Len(in) = m + 1 /\ m \in Nat /\ in[m + 1] = a
      /\ \A i \in 1 .. m : in[i] = link.in[i]
  BY <1>5, <1>6
<1> HIDE DEF in
<1>8. link' \in Links /\ link'.in = in /\ link'.out = link.out /\ link'.up = link.up
  BY <1>2, <1>6, <1>7 DEF Links
<1>9. \A i \in 1 .. Len(in) :
        \/ i \in 1 .. Len(link.in) /\ in[i] = link.in[i]
        \/ in[i].kind = "noise"
  BY <1>5, <1>7
<1>10. \A i \in 1 .. Len(in) : in[i].kind # "noise" => i \in 1 .. Len(link.in) /\ in[i] = link.in[i]
  BY <1>9
<1>11. \A i \in 1 .. Len(link.in) : i \in 1 .. Len(in) /\ in[i] = link.in[i]
  BY <1>7
<1>12. JobTypes'
  BY <1>2, <1>3, <1>4, <1>8 DEF JobTypes, Grown
<1>13. OneUnanswered(prn, link)'
  <2>1. \A i \in 1 .. Len(in) : IsReply(in[i]) => i \in 1 .. Len(link.in) /\ in[i] = link.in[i]
    BY <1>10 DEF IsReply
  <2>2. \A i \in 1 .. Len(in) : in[i].kind = "ack" => i \in 1 .. Len(link.in) /\ in[i] = link.in[i]
    BY <1>10
  <2>. QED
    BY <1>2, <1>3, <1>8, <2>1, <2>2 DEF OneUnanswered
<1>14. Rolling'
  <2>1. Rolling /\ Before' = Before
    BY <1>2, <1>3 DEF Stages, Before
  <2>2. Buffered(loop, pos)'
    BY <1>2, <2>1 DEF Rolling, Buffered
  <2>3. ASSUME ~budget'.cut PROVE Accounted(loop, prn, link)' /\ (side'.owed => loop'.drain)
    <3>1. Accounted(loop, prn, link) /\ (side.owed => loop.drain)
      BY <1>4, <2>1, <2>3 DEF Rolling
    <3>2. \A i \in 1 .. Len(in) : in[i].kind = "ack" => i \in 1 .. Len(link.in) /\ in[i] = link.in[i]
      BY <1>10
    <3>. QED
      BY <1>2, <1>8, <1>11, <2>1, <3>1, <3>2 DEF Accounted
  <2>4. ~budget'.hurt => Connected(link)'
    BY <1>4, <1>8, <1>9, <2>1 DEF Rolling, Connected
  <2>. QED
    BY <2>2, <2>3, <2>4 DEF Rolling
<1>15. Stages'
  BY <1>2, <1>3, <1>4, <1>14 DEF Stages, Connecting
<1>16. Opened' /\ SessionsClosed'
  BY <1>2, <1>3, <1>4 DEF Opened, SessionsClosed, Grown
<1>17. PrintedInOrder'
  BY <1>2, <1>3, <1>4 DEF PrintedInOrder, InCopies
<1>. QED
  BY <1>12, <1>13, <1>15, <1>16, <1>17 DEF JobInv

\* A bad answer, or the end of the connection.
LEMMA PrinterFailsKeeps == JobInv /\ PrinterFails => JobInv'
<1>1. SUFFICES ASSUME JobInv, PrinterFails PROVE JobInv'
  OBVIOUS
<1>2. /\ pc = "run" /\ budget.left > 0 /\ budget' = Harmed(budget)
      /\ UNCHANGED <<pc, copies, result, prn, loop, pos, errno, printed, sessions, side>>
  BY <1>1 DEF PrinterFails
<1>3. JobTypes /\ OneUnanswered(prn, link) /\ Stages /\ PrintedInOrder /\ Opened /\ SessionsClosed
  BY <1>1 DEF JobInv
<1>4. Grown(budget') /\ budget'.cut = budget.cut /\ budget'.hurt
  BY <1>1, <1>2, Budgeted DEF Grown
<1>5. printed' \in Seq(Chars) /\ (~budget.cut => InCopies(printed')) /\ printed' = printed
  BY <1>2, <1>3 DEF JobTypes, PrintedInOrder, InCopies
<1>6. CASE link.out # <<>> /\ Reply("empty", 0)
  <2>1. ASSUME ~budget.cut PROVE Len(printed') = Before + loop.total
    <3>1. Accounted(loop, prn, link)
      BY <1>2, <1>3, <2>1 DEF Stages, Rolling
    <3>2. \A i \in 1 .. Len(link.in) : link.in[i].kind # "ack"
      BY <1>3, <1>6 DEF OneUnanswered, IsReply
    <3>. QED
      BY <1>5, <3>1, <3>2 DEF Accounted
  <2>2. Before \in Int /\ loop.total \in Nat
    BY <1>3, Constants DEF Before, JobTypes, Loops
  <2> DEFINE kind == "empty"
             n == 0
  <2>3. /\ kind \in {"ack", "empty"} /\ n \in Nat /\ Reply(kind, n)
        /\ kind = "ack" => n \in {0, prn.iocount}
        /\ kind = "empty" => budget'.hurt
        /\ ~budget.cut /\ pc = "run" => Len(printed') = Before + loop.total + (IF kind = "ack" THEN n ELSE 0)
    BY <1>4, <1>6, <2>1, <2>2
  <2> HIDE DEF kind, n
  <2>. QED
    BY <1>1, <1>2, <1>4, <1>5, <1>6, <2>3, RepliedKeeps
<1>7. CASE link' = [link EXCEPT !.up = FALSE, !.out = <<>>]
  <2>1. link' \in Links /\ link'.in = link.in /\ link'.out = <<>>
    <3>1. <<>> \in Seq(Packet) /\ link \in Links
      BY <1>3 DEF JobTypes
    <3>. QED
      BY <1>7, <3>1 DEF Links
  <2>2. JobTypes'
    BY <1>2, <1>3, <1>4, <2>1 DEF JobTypes, Grown
  <2>3. OneUnanswered(prn, link)'
    BY <1>2, <1>3, <2>1 DEF OneUnanswered
  <2>4. Rolling'
    <3>1. Rolling /\ Before' = Before
      BY <1>2, <1>3 DEF Stages, Before
    <3>2. Buffered(loop, pos)'
      BY <1>2, <3>1 DEF Rolling, Buffered
    <3>3. ~budget'.cut => Accounted(loop, prn, link)' /\ (side'.owed => loop'.drain)
      BY <1>2, <1>4, <2>1, <3>1 DEF Rolling, Accounted
    <3>. QED
      BY <1>4, <3>2, <3>3 DEF Rolling
  <2>5. Stages'
    BY <1>2, <1>3, <1>4, <2>4 DEF Stages, Connecting
  <2>6. Opened' /\ SessionsClosed'
    BY <1>2, <1>3, <1>4 DEF Opened, SessionsClosed, Grown
  <2>7. PrintedInOrder'
    BY <1>2, <1>3, <1>4 DEF PrintedInOrder, InCopies
  <2>. QED
    BY <2>2, <2>3, <2>5, <2>6, <2>7 DEF JobInv
<1>. QED
  BY <1>1, <1>6, <1>7 DEF PrinterFails

\* A request of the side channel arrives.
LEMMA CupsAsksKeeps == JobInv /\ CupsAsks => JobInv'
<1>1. SUFFICES ASSUME JobInv, CupsAsks PROVE JobInv'
  OBVIOUS
<1>2. PICK r \in Requests : side' = [side EXCEPT !.req = r]
  BY <1>1 DEF CupsAsks
<1>3. /\ pc = "run" /\ budget.left > 0 /\ budget' = Spent(budget)
      /\ UNCHANGED <<pc, copies, result, prn, loop, pos, errno, link, printed, sessions>>
  BY <1>1 DEF CupsAsks
<1>4. JobTypes /\ OneUnanswered(prn, link) /\ Stages /\ PrintedInOrder /\ Opened /\ SessionsClosed
  BY <1>1 DEF JobInv
<1>5. Grown(budget') /\ budget'.cut = budget.cut /\ budget'.hurt = budget.hurt
  BY <1>1, <1>3, Budgeted DEF Grown
<1>6. side' \in Sides /\ side'.owed = side.owed
  BY <1>2, <1>4 DEF JobTypes, Sides
<1>7. JobTypes'
  BY <1>3, <1>4, <1>5, <1>6 DEF JobTypes, Grown
<1>8. OneUnanswered(prn, link)'
  BY <1>3, <1>4 DEF OneUnanswered
<1>9. Rolling'
  <2>1. Rolling /\ Before' = Before
    BY <1>3, <1>4 DEF Stages, Before
  <2>2. Buffered(loop, pos)'
    BY <1>3, <2>1 DEF Rolling, Buffered
  <2>3. ~budget'.cut => Accounted(loop, prn, link)' /\ (side'.owed => loop'.drain)
    BY <1>3, <1>5, <1>6, <2>1 DEF Rolling, Accounted
  <2>. QED
    BY <1>3, <1>5, <2>1, <2>2, <2>3 DEF Rolling, Connected
<1>10. Stages'
  BY <1>3, <1>4, <1>5, <1>6, <1>9 DEF Stages, Connecting
<1>11. Opened' /\ SessionsClosed'
  BY <1>3, <1>4, <1>5 DEF Opened, SessionsClosed, Grown
<1>12. PrintedInOrder'
  BY <1>3, <1>4, <1>5 DEF PrintedInOrder, InCopies
<1>. QED
  BY <1>7, <1>8, <1>10, <1>11, <1>12 DEF JobInv

-----------------------------------------------------------------------------
(* The job *)

\* The invariant holds at the start of the backend.
LEMMA JobStarts == JobInit => JobInv
<1>1. SUFFICES ASSUME JobInit PROVE JobInv
  OBVIOUS
<1>2. /\ pc = "start" /\ copies = Copies /\ result = "none" /\ loop = FreshLoop /\ pos = 0
      /\ link = NoLink /\ printed = <<>> /\ sessions = {} /\ errno = "other"
      /\ side = [req |-> "none", owed |-> FALSE]
      /\ prn = [session |-> NoSession, serial |-> 0, seq |-> 0, iofree |-> TRUE, iocount |-> 0]
      /\ budget = [tries |-> MaxTries, left |-> MaxEvents, hurt |-> FALSE, cut |-> FALSE, opened |-> 0]
  BY <1>1 DEF JobInit
<1>3. 0 \in 0 .. Numbers - 1 /\ 0 \in 0 .. BufMax /\ 0 \in 0 .. Len(Data) /\ Copies \in 0 .. Copies
      /\ MaxTries \in 0 .. MaxTries /\ MaxEvents \in 0 .. MaxEvents /\ 0 \in 0 .. (2 * (MaxTries + 1))
  BY Constants
<1>4. JobTypes
  <2>1. loop \in Loops /\ link \in Links /\ side \in Sides
    BY <1>2 DEF FreshLoop, NoLink, Loops, Links, Sides
  <2>2. prn \in Prns
    BY <1>2, <1>3 DEF Prns, NoSession
  <2>3. budget \in Budgets
    BY <1>2, <1>3 DEF Budgets
  <2>. QED
    BY <1>2, <1>3, <2>1, <2>2, <2>3 DEF JobTypes
<1>5. OneUnanswered(prn, link)
  BY <1>2 DEF OneUnanswered, NoLink
<1>6. Stages
  BY <1>2 DEF Stages, Connecting
<1>7. Opened
  BY <1>2, Constants DEF Opened
<1>8. PrintedInOrder
  <2>1. Copies * Len(Data) \in Nat /\ Len(printed) = 0
    BY <1>2, Constants
  <2>2. ASSUME NEW c \in 0 .. Copies - 1, NEW j \in 1 .. Len(Data) PROVE ~(c * Len(Data) + j <= 0)
    <3>1. c * Len(Data) \in Nat /\ j \in Nat /\ j >= 1
      BY Constants
    <3> DEFINE x == c * Len(Data)
    <3> HIDE DEF x
    <3>2. x \in Nat
      BY <3>1 DEF x
    <3>3. ~(x + j <= 0)
      BY <3>1, <3>2
    <3>. QED
      BY <3>3 DEF x
  <2>. QED
    BY <2>1, <2>2 DEF PrintedInOrder, InCopies
<1>9. SessionsClosed
  BY <1>2 DEF SessionsClosed
<1>. QED
  BY <1>4, <1>5, <1>6, <1>7, <1>8, <1>9 DEF JobInv

\* Every step of the job, the printer or CUPS keeps the invariant.
LEMMA JobGoesOn == JobInv /\ [JobNext]_jobVars => JobInv'
<1>1. SUFFICES ASSUME JobInv, [JobNext]_jobVars PROVE JobInv'
  OBVIOUS
<1>2. CASE UNCHANGED jobVars
  BY <1>1, <1>2 DEF jobVars, JobInv, JobTypes, OneUnanswered, Stages, Rolling, Buffered, Accounted,
                    Before, Connected, Opened, PrintedInOrder, InCopies, SessionsClosed
<1>3. CASE JobNext
  <2>1. CASE Finished
    BY <1>2, <2>1 DEF Finished
  <2>2. CASE Main
    BY <1>1, <2>2, StartJobKeeps, CheckLevelsKeeps, TcpConnectKeeps, RetryKeeps, ClosePrinterKeeps
       DEF Main
  <2>3. CASE Iterate \/ IterateInput \/ IterateAgain \/ SelectTimeout \/ Interrupted
    BY <1>1, <2>3, IterateKeeps, SelectTimeoutKeeps, InterruptedKeeps
  <2>4. CASE PrinterAccepts \/ PrinterThrottles \/ PrinterNoise \/ PrinterFails \/ CupsAsks
    BY <1>1, <2>4, PrinterAcceptsKeeps, PrinterThrottlesKeeps, PrinterNoiseKeeps, PrinterFailsKeeps,
       CupsAsksKeeps
  <2>. QED
    BY <1>3, <2>1, <2>2, <2>3, <2>4 DEF JobNext
<1>. QED
  BY <1>1, <1>2, <1>3

\* With a packet under way no answer is, and without one there is at most one answer.
LEMMA AnswerCount ==
  ASSUME JobTypes, OneUnanswered(prn, link)
  PROVE  Len(link.out) + Cardinality({i \in DOMAIN link.in : link.in[i].kind = "ack"}) <= 1
<1> DEFINE acks == {i \in DOMAIN link.in : link.in[i].kind = "ack"}
<1>1. link.in \in Seq(Answer) /\ link.out \in Seq(Packet)
  BY DEF JobTypes, Links
<1>2. DOMAIN link.in = 1 .. Len(link.in)
  BY <1>1
<1>3. \A i, j \in acks : i = j
  BY <1>2 DEF OneUnanswered, IsReply
<1>4. link.out # <<>> => acks = {} /\ Len(link.out) = 1
  BY <1>2 DEF OneUnanswered, IsReply
<1>5. link.out = <<>> => Len(link.out) = 0
  OBVIOUS
<1> HIDE DEF acks
<1>6. acks = {} \/ \E i : acks = {i}
  BY <1>3
<1>7. Cardinality(acks) \in {0, 1} /\ (acks = {} => Cardinality(acks) = 0)
  BY <1>6, FS_EmptySet, FS_Singleton
<1> DEFINE way == Len(link.out)
           count == Cardinality(acks)
<1>8. (way = 0 \/ (way = 1 /\ count = 0)) /\ count \in {0, 1}
  BY <1>4, <1>5, <1>7
<1> HIDE DEF way, count
<1>9. way + count <= 1
  BY <1>8
<1>. QED
  BY <1>9 DEF acks, way, count

\* The invariant gives what is promised of a job.
LEMMA JobInvSuffices == JobInv => JobIsSound
<1>1. SUFFICES ASSUME JobInv PROVE JobIsSound
  OBVIOUS
<1>2. JobTypes /\ OneUnanswered(prn, link) /\ Stages /\ PrintedInOrder /\ SessionsClosed
  BY <1>1 DEF JobInv
<1>3. loop \in Loops /\ prn \in Prns /\ link \in Links /\ side \in Sides /\ budget \in Budgets
  BY <1>2 DEF JobTypes
<1>4. loop.buf \in Seq(Chars) /\ Len(loop.buf) <= BufMax /\ loop.total \in 0 .. Len(Data)
  <2>1. CASE pc = "run"
    <3>1. Buffered(loop, pos) /\ pos \in 0 .. Len(Data) /\ loop.buf \in Seq(Chars) /\ loop.total \in Nat
      BY <1>2, <1>3, <2>1 DEF Stages, Rolling, JobTypes, Loops
    <3>2. Len(loop.buf) \in Nat
      BY <3>1
    <3>. QED
      BY <3>1, <3>2, Constants DEF Buffered
  <2>2. CASE pc # "run"
    <3>1. loop = FreshLoop
      BY <1>2, <2>2 DEF Stages
    <3>2. loop.buf = <<>> /\ loop.total = 0 /\ Len(loop.buf) = 0
      BY <3>1 DEF FreshLoop
    <3>. QED
      BY <3>2, Constants
  <2>. QED
    BY <2>1, <2>2
<1>5. JobTypeOK
  <2>1. Len(link.out) + Cardinality({i \in DOMAIN link.in : link.in[i].kind = "ack"}) <= 1
    BY <1>2, AnswerCount
  <2>2. /\ {loop.ack, loop.drain, loop.keep, loop.side} \subseteq BOOLEAN
        /\ link.up \in BOOLEAN /\ link.out \in Seq(Packet) /\ link.in \in Seq(Answer)
        /\ side.req \in Requests \cup {"none"} /\ side.owed \in BOOLEAN
    BY <1>3 DEF Loops, Links, Sides
  <2>3. prn \in [session: Nat, serial: 0..Numbers - 1, seq: 0..Numbers - 1,
                 iofree: BOOLEAN, iocount: 0..BufMax]
    BY <1>3 DEF Prns
  <2>4. budget \in [tries: 0..MaxTries, left: 0..MaxEvents, hurt: BOOLEAN,
                    cut: BOOLEAN, opened: 0..(2 * (MaxTries + 1))]
    BY <1>3 DEF Budgets
  <2>. QED
    BY <1>2, <1>4, <2>1, <2>2, <2>3, <2>4 DEF JobTypeOK, JobTypes, Chars
<1>6. SuccessIsComplete
  BY <1>2 DEF SuccessIsComplete, Stages, PrintedInOrder
<1>7. NoSpuriousFailure
  BY <1>2 DEF NoSpuriousFailure, Stages
<1>8. CommandsLead
  <2>1. SUFFICES ASSUME NEW i \in DOMAIN link.out PROVE Leads(link.out[i].data)
    BY DEF CommandsLead, Leads
  <2>2. link.out \in Seq(Packet) /\ link.out # <<>>
    BY <1>3, <2>1 DEF Links
  <2>3. Len(link.out) = 1 /\ Leads(link.out[1].data)
    BY <1>2, <2>2 DEF OneUnanswered
  <2>4. i = 1
    BY <2>1, <2>2, <2>3
  <2>. QED
    BY <2>3, <2>4
<1>. QED
  BY <1>2, <1>5, <1>6, <1>7, <1>8 DEF JobIsSound

\* Whatever the printer throttles, chatters or leaves unanswered, and wherever the
\* packets, the keep-alives and the copies fall, a job is printed whole, in order and
\* in its session, or fails for a reason (bjnp_backendRunLoop, bjnp_write,
\* bjnp_backchannel and main of cups-bjnp).
THEOREM JobsAreSound == JobSpec => []JobIsSound
<1>1. JobSpec => []JobInv
  BY JobStarts, JobGoesOn, PTL DEF JobSpec
<1>. QED
  BY <1>1, JobInvSuffices, PTL
=============================================================================
