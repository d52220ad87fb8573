------------------------------ MODULE CmProofs ------------------------------
(***************************************************************************)
(* The connection manager quectel-CM.                                      *)
(*                                                                         *)
(* CmBrothers, several managers on one modem, for every set of pids, every *)
(* number of signals before SIGKILL and every plan of starts and breaks: a *)
(* manager that was seen with the channel open is gone for good before the *)
(* one that saw it opens the channel, and a search with -k misses a        *)
(* manager only because some process ended under it.                       *)
(*                                                                         *)
(* CmMain, one manager, for every way it may be run, every modem and any   *)
(* number of faults and signals: the interface was started for the address *)
(* that is reported; as long as its requests are answered, the manager can *)
(* hang up what it reports as connected, and a stop leaves no call behind. *)
(***************************************************************************)
EXTENDS CmBrothers, CmMain, SequenceTheorems, TLAPS, WellFoundedInduction

-----------------------------------------------------------------------------
(* Several managers: the inductive invariant *)

Places == {"absent", "fresh", "detect", "scan", "kill", "open", "run", "stuck", "rest", "dead"}
SearchPlaces == {"idle", "look", "found", "failed", "done"}
Entries == SUBSET (Pids \cup {Bystander})

\* The whole types, of which BrotherTypeOK states a part.
Types ==
  /\ at \in [Pids -> Places]
  /\ stay \subseteq Pids /\ stopq \subseteq Pids
  /\ looked \in [Pids -> Nat] /\ victim \in [Pids -> Nat]
  /\ signals \in [Pids -> 0 .. KillTimeout] /\ seen \in [Pids -> SUBSET Pids]
  /\ seek \in [at : SearchPlaces, found : Entries, list : Entries, target : Pids \cup {0}]
  /\ plan \in [starts : SUBSET Pids, seeks : BOOLEAN, breaks : Nat]
  /\ plugged \in BOOLEAN /\ passing \in BOOLEAN

\* Who has the channel open is told by where it is.
ChannelIsWhere == channel = {p \in Pids : at[p] \in {"run", "stuck"}}

\* Managers look at, and kill, smaller pids only.
OnlySmaller ==
  \A p \in Pids :
    /\ looked[p] < p /\ victim[p] < p
    /\ at[p] = "kill" => victim[p] \in Pids
    /\ \A q \in seen[p] : q < p

\* What a manager has seen in this round is dead, but for the one it is
\* killing, which at least has been started.
Round == {"scan", "kill", "open", "run", "stuck"}
SeenIsDead ==
  \A p \in Pids : at[p] \in Round =>
    \A q \in seen[p] : \/ at[q] = "dead"
                       \/ at[p] = "kill" /\ q = victim[p] /\ at[q] # "absent"

\* The search with -k: what it found had been started, and it passes over no
\* manager.
SearchIsSound ==
  /\ seek.list \subseteq seek.found
  /\ \A q \in seek.found \cap Pids : at[q] # "absent"
  /\ seek.at = "look" => seek.found \cap Pids \subseteq seek.list
  /\ seek.at = "found" => seek.target \in Pids
  /\ SearchFindsManager

IInv == Types /\ ChannelIsWhere /\ OnlySmaller /\ SeenIsDead /\ SearchIsSound

-----------------------------------------------------------------------------
(* Lemmas *)

\* A non-empty set of pids has a least one.
LEMMA MinIsIn ==
  ASSUME NEW S, S \subseteq Nat, S # {}
  PROVE  Min(S) \in S
<1> DEFINE R == {ss \in Nat \X Nat : ss[1] < ss[2]}
<1>1. IsWellFoundedOn(R, Nat)
  BY NatLessThanWellFounded, Zenon DEF OpToRel
<1>2. PICK x \in S : \A y \in S : ~(<<y, x>> \in R)
  <2> HIDE DEF R
  <2>. QED
    BY <1>1, WFMin
<1>3. ASSUME NEW y \in S PROVE x <= y
  <2>1. x \in Nat /\ y \in Nat /\ (y < x => <<y, x>> \in R)
    OBVIOUS
  <2>2. ~(y < x)
    BY <1>2, <2>1
  <2>. QED
    BY <2>1, <2>2
<1>. QED
  BY <1>3 DEF Min

\* No process comes back.
OneWay ==
  \A q \in Pids : /\ at[q] = "dead" => at'[q] = "dead"
                  /\ at[q] # "absent" => at'[q] # "absent"

\* A step that is none of the search's leaves what it knows valid.
LEMMA SearchKept ==
  ASSUME Types, SearchIsSound, OneWay, at' \in [Pids -> Places],
         UNCHANGED <<seek, passing>> \/ (seek' = seek /\ passing' = FALSE)
  PROVE  SearchIsSound'
<1>1. \A p \in Pids : ~Alive(p) /\ at[p] # "absent" => at'[p] = "dead"
  BY DEF Types, Alive, OneWay
<1>2. \A q \in seek.found : q \notin Procs => q \notin Procs'
  <2> SUFFICES ASSUME NEW q \in seek.found, q \notin Procs PROVE q \notin Procs'
    OBVIOUS
  <2>1. CASE q \in Pids
    <3>1. at'[q] = "dead" /\ q # Bystander
      BY <1>1, <2>1, BrothersAssumption DEF Procs, SearchIsSound
    <3>. QED
      BY <3>1 DEF Procs, Alive
  <2>2. CASE q = Bystander
    BY <2>2, BrothersAssumption DEF Procs
  <2>. QED
    BY <2>1, <2>2 DEF Types, Entries
<1>3. SearchFindsManager'
  BY <1>2 DEF SearchIsSound, SearchFindsManager
<1>. QED
  BY <1>3 DEF SearchIsSound, OneWay

\* A step in which no round begins, and nobody begins or ends killing, leaves
\* the seen dead.
LEMMA SeenKept ==
  ASSUME Types, SeenIsDead, OneWay, UNCHANGED <<seen, victim>>,
         \A p \in Pids : at'[p] \in Round =>
           at[p] \in Round /\ (at'[p] = "kill" <=> at[p] = "kill")
  PROVE  SeenIsDead'
  BY DEF Types, SeenIsDead, OneWay, Round

\* Moving a manager.
LEMMA MovesTo ==
  ASSUME Types, NEW p \in Pids, NEW from \in Places \ {"dead"}, NEW to \in Places \ {"absent"},
         Moves(p, from, to)
  PROVE  /\ at' \in [Pids -> Places] /\ at[p] = from /\ at'[p] = to
         /\ \A q \in Pids \ {p} : at'[q] = at[q]
         /\ OneWay
  BY DEF Types, Moves, OneWay

-----------------------------------------------------------------------------
(* The steps *)

LEMMA InitIInv == BrotherInit => IInv
<1> SUFFICES ASSUME BrotherInit PROVE IInv
  OBVIOUS
<1>1. plugged \in BOOLEAN /\ plan \in [starts : SUBSET Pids, seeks : BOOLEAN, breaks : Nat]
  BY BrothersAssumption, Zenon DEF BrotherInit
<1>2. passing \in BOOLEAN
  BY <1>1, Zenon DEF BrotherInit
<1>3. Types
  BY <1>1, <1>2, BrothersAssumption DEF BrotherInit, Types, Places, SearchPlaces, Entries
<1>4. ChannelIsWhere /\ OnlySmaller /\ SeenIsDead
  BY BrothersAssumption DEF BrotherInit, ChannelIsWhere, OnlySmaller, SeenIsDead, Round
<1>5. SearchIsSound
  BY DEF BrotherInit, SearchIsSound, SearchFindsManager
<1>. QED
  BY <1>3, <1>4, <1>5 DEF IInv

\* A manager that moves on within its round, or outside of it.
LEMMA MoveKeeps ==
  ASSUME IInv, NEW p \in Pids,
         NEW from \in Places \ {"dead", "kill"}, NEW to \in Places \ {"absent", "kill"},
         Moves(p, from, to), to \in Round => from \in Round,
         UNCHANGED <<looked, victim, signals, seen, passing, seek>>,
         stay' \subseteq Pids, stopq' \subseteq Pids, plugged' \in BOOLEAN,
         channel' = IF to \in {"run", "stuck"} THEN channel \cup {p} ELSE channel \ {p},
         plan' \in [starts : SUBSET Pids, seeks : BOOLEAN, breaks : Nat]
  PROVE  IInv'
<1> USE DEF IInv
<1>1. /\ at' \in [Pids -> Places] /\ at[p] = from /\ at'[p] = to
      /\ \A q \in Pids \ {p} : at'[q] = at[q]
      /\ OneWay
  BY MovesTo
<1>2. Types'
  BY <1>1 DEF Types
<1>3. ChannelIsWhere'
  BY <1>1 DEF ChannelIsWhere
<1>4. OnlySmaller'
  BY <1>1 DEF OnlySmaller
<1>5. SeenIsDead'
  BY <1>1, SeenKept
<1>6. SearchIsSound'
  BY <1>1, SearchKept
<1>. QED
  BY <1>2, <1>3, <1>4, <1>5, <1>6

LEMMA BreakLeaves ==
  ASSUME Types, Break
  PROVE  plan' \in [starts : SUBSET Pids, seeks : BOOLEAN, breaks : Nat]
<1>1. plan.breaks - 1 \in Nat
  BY DEF Types, Break
<1>. QED
  BY <1>1 DEF Types, Break

LEMMA PlainStepsKeep ==
  ASSUME IInv, NEW p \in Pids,
         \/ StartManager(p) \/ Handlers(p) \/ kill_brothers(p) \/ OpenChannel(p) \/ EndRound(p)
         \/ NextRound(p) \/ ModemResets(p) \/ Hangs(p)
  PROVE  IInv'
<1>1. /\ stay \subseteq Pids /\ stopq \subseteq Pids /\ plugged \in BOOLEAN
      /\ plan \in [starts : SUBSET Pids, seeks : BOOLEAN, breaks : Nat]
      /\ channel = {q \in Pids : at[q] \in {"run", "stuck"}}
  BY DEF IInv, Types, ChannelIsWhere
<1>2. /\ {"absent", "fresh", "detect", "scan", "open", "run", "rest"} \subseteq Places \ {"dead", "kill"}
      /\ {"fresh", "detect", "open", "run", "stuck", "rest", "dead"} \subseteq Places \ {"absent", "kill"}
      /\ {"scan", "open", "run", "stuck"} \subseteq Round
      /\ {"fresh", "detect", "rest", "dead"} \cap Round = {}
  BY DEF Places, Round
<1>3. CASE StartManager(p)
  BY <1>1, <1>2, <1>3, MoveKeeps DEF StartManager, Moves, AllElse
<1>4. CASE Handlers(p)
  BY <1>1, <1>2, <1>4, MoveKeeps DEF Handlers, Moves, AllElse
<1>5. CASE kill_brothers(p)
  BY <1>1, <1>2, <1>5, MoveKeeps DEF kill_brothers, Moves, AllElse
<1>6. CASE OpenChannel(p)
  BY <1>1, <1>2, <1>6, MoveKeeps DEF OpenChannel, Moves
<1>7. CASE EndRound(p)
  BY <1>1, <1>2, <1>7, MoveKeeps DEF EndRound, Moves
<1>8. CASE NextRound(p)
  BY <1>1, <1>2, <1>8, MoveKeeps DEF NextRound, Moves, AllElse
<1>9. CASE ModemResets(p)
  BY <1>1, <1>2, <1>9, BreakLeaves, MoveKeeps DEF ModemResets, Moves, IInv
<1>10. CASE Hangs(p)
  <2>1. plan' \in [starts : SUBSET Pids, seeks : BOOLEAN, breaks : Nat]
    BY <1>10, BreakLeaves DEF Hangs, IInv
  <2>2. channel' = channel \cup {p}
    BY <1>1, <1>10 DEF Hangs, Moves
  <2>. QED
    BY <1>1, <1>2, <1>10, <2>1, <2>2, MoveKeeps DEF Hangs
<1>. QED
  BY <1>3, <1>4, <1>5, <1>6, <1>7, <1>8, <1>9, <1>10

\* A round begins with nothing seen.
LEMMA RoundBegins == ASSUME IInv, NEW p \in Pids, quectel_CM(p) PROVE IInv'
<1> USE DEF IInv
<1>1. \E to \in {"scan", "rest"} : Moves(p, "detect", to)
  BY DEF quectel_CM
<1>2. /\ at' \in [Pids -> Places] /\ at[p] = "detect" /\ at'[p] \in {"scan", "rest"}
      /\ \A q \in Pids \ {p} : at'[q] = at[q]
      /\ OneWay
  BY <1>1, MovesTo DEF Places
<1>3. /\ seen' \in [Pids -> SUBSET Pids] /\ looked' \in [Pids -> Nat]
      /\ seen'[p] = {} /\ looked'[p] = 0
      /\ \A q \in Pids \ {p} : seen'[q] = seen[q] /\ looked'[q] = looked[q]
  BY DEF quectel_CM, Types
<1>4. Types'
  BY <1>2, <1>3 DEF Types, quectel_CM
<1>5. ChannelIsWhere'
  BY <1>2 DEF ChannelIsWhere, quectel_CM
<1>6. OnlySmaller'
  BY <1>2, <1>3, BrothersAssumption DEF OnlySmaller, quectel_CM
<1>7. SeenIsDead'
  BY <1>2, <1>3 DEF SeenIsDead, OneWay, quectel_CM, Types
<1>8. SearchIsSound'
  BY <1>2, SearchKept DEF quectel_CM
<1>. QED
  BY <1>4, <1>5, <1>6, <1>7, <1>8

\* The next entry of /proc.
LEMMA ScanKeeps == ASSUME IInv, NEW p \in Pids, is_brother_process(p) PROVE IInv'
<1> USE DEF IInv
<1> DEFINE q == Min(Unseen(p))
<1>1. q \in Pids /\ q < p /\ Alive(q)
  <2>1. Unseen(p) \subseteq Nat /\ Unseen(p) # {}
    BY BrothersAssumption DEF Unseen, is_brother_process
  <2>2. q \in Unseen(p)
    BY <2>1, MinIsIn
  <2>. QED
    BY <2>2 DEF Unseen
<1>2. at[p] = "scan"
  BY DEF is_brother_process
<1> HIDE DEF q
<1>3. /\ looked' = [looked EXCEPT ![p] = q]
      /\ IF Brothers(q)
           THEN /\ at' = [at EXCEPT ![p] = "kill"] /\ victim' = [victim EXCEPT ![p] = q]
                /\ signals' = [signals EXCEPT ![p] = 0] /\ seen' = [seen EXCEPT ![p] = @ \cup {q}]
           ELSE UNCHANGED <<at, victim, signals, seen>>
      /\ UNCHANGED <<stay, stopq, channel, plugged, passing, seek, plan>>
  BY DEF is_brother_process, q
<1>4. /\ looked' \in [Pids -> Nat] /\ looked'[p] = q
      /\ \A r \in Pids \ {p} : looked'[r] = looked[r]
  BY <1>1, <1>3, BrothersAssumption DEF Types
<1>5. CASE ~Brothers(q)
  <2>1. at' = at /\ UNCHANGED <<victim, signals, seen>> /\ OneWay
    BY <1>3, <1>5 DEF OneWay
  <2>2. Types'
    BY <1>3, <1>4, <2>1 DEF Types
  <2>3. ChannelIsWhere' /\ OnlySmaller'
    BY <1>1, <1>3, <1>4, <2>1 DEF ChannelIsWhere, OnlySmaller
  <2>4. SeenIsDead'
    BY <2>1, SeenKept
  <2>5. SearchIsSound'
    BY <1>3, <2>1, SearchKept DEF Types
  <2>. QED
    BY <2>2, <2>3, <2>4, <2>5
<1>6. CASE Brothers(q)
  <2>1. /\ at' \in [Pids -> Places] /\ at'[p] = "kill" /\ \A r \in Pids \ {p} : at'[r] = at[r]
        /\ OneWay
    BY <1>2, <1>3, <1>6 DEF Types, Places, OneWay
  <2>2. /\ victim' \in [Pids -> Nat] /\ victim'[p] = q
        /\ seen' \in [Pids -> SUBSET Pids] /\ seen'[p] = seen[p] \cup {q}
        /\ signals' \in [Pids -> 0 .. KillTimeout]
        /\ \A r \in Pids \ {p} : victim'[r] = victim[r] /\ seen'[r] = seen[r]
    BY <1>1, <1>3, <1>6, BrothersAssumption DEF Types
  <2>3. at[q] \in {"run", "stuck"} /\ q # p
    BY <1>2, <1>6 DEF Brothers, ChannelIsWhere
  <2>4. Types'
    BY <1>3, <1>4, <2>1, <2>2 DEF Types
  <2>5. ChannelIsWhere'
    BY <1>2, <1>3, <2>1 DEF ChannelIsWhere
  <2>6. OnlySmaller'
    BY <1>1, <1>4, <2>1, <2>2 DEF OnlySmaller
  <2>7. SeenIsDead'
    <3> SUFFICES ASSUME NEW r \in Pids, at'[r] \in Round, NEW s \in seen'[r]
                 PROVE  at'[s] = "dead" \/ (at'[r] = "kill" /\ s = victim'[r] /\ at'[s] # "absent")
      BY DEF SeenIsDead
    <3>1. CASE r # p
      BY <2>1, <2>2, <3>1 DEF SeenIsDead, OneWay, Types
    <3>2. CASE r = p /\ s = q
      BY <2>1, <2>2, <2>3, <3>2
    <3>3. CASE r = p /\ s # q
      BY <1>2, <2>1, <2>2, <3>3 DEF SeenIsDead, OneWay, Round, Types
    <3>. QED
      BY <3>1, <3>2, <3>3
  <2>8. SearchIsSound'
    BY <1>3, <2>1, SearchKept
  <2>. QED
    BY <2>4, <2>5, <2>6, <2>7, <2>8
<1>. QED
  BY <1>5, <1>6

\* A signal ends a manager without a handler, and is noted by the others.
LEMMA SignalKeeps ==
  ASSUME IInv, NEW q \in Pids, Signalled(q), Alive(q),
         UNCHANGED <<channel, looked, victim, seen, plugged, passing, plan>>,
         signals' \in [Pids -> 0 .. KillTimeout]
  PROVE  /\ at' \in [Pids -> Places] /\ OneWay
         /\ (seek' \in [at : SearchPlaces, found : Entries, list : Entries, target : Pids \cup {0}])
               => Types'
         /\ ChannelIsWhere' /\ OnlySmaller' /\ SeenIsDead'
<1> USE DEF IInv
<1>1. at' = at \/ (at[q] = "fresh" /\ at' = [at EXCEPT ![q] = "dead"])
  BY DEF Signalled
<1>2. at' \in [Pids -> Places] /\ OneWay
  BY <1>1 DEF Types, OneWay, Places
<1>3. \A p \in Pids : at'[p] = at[p] \/ (at[p] = "fresh" /\ at'[p] = "dead")
  BY <1>1 DEF Types
<1>4. stay' \subseteq Pids /\ stopq' \subseteq Pids
  BY DEF Signalled, Types
<1>5. ChannelIsWhere'
  BY <1>3 DEF ChannelIsWhere
<1>6. OnlySmaller'
  BY <1>3 DEF OnlySmaller
<1>7. SeenIsDead'
  BY <1>2, <1>3, SeenKept DEF Round
<1>. QED
  BY <1>2, <1>4, <1>5, <1>6, <1>7 DEF Types

LEMMA TerminateKeeps == ASSUME IInv, NEW p \in Pids, Terminate(p) PROVE IInv'
<1>1. victim[p] \in Pids /\ Signalled(victim[p]) /\ Alive(victim[p])
  BY DEF Terminate, IInv, OnlySmaller
<1>2. signals' \in [Pids -> 0 .. KillTimeout]
  BY BrothersAssumption DEF Terminate, IInv, Types
<1>3. /\ at' \in [Pids -> Places] /\ OneWay /\ Types'
      /\ ChannelIsWhere' /\ OnlySmaller' /\ SeenIsDead'
  BY <1>1, <1>2, SignalKeeps DEF Terminate, IInv, Types
<1>. QED
  BY <1>3, SearchKept DEF Terminate, IInv

\* The loop over the signals ends with the victim gone.
LEMMA KillOverKeeps == ASSUME IInv, NEW p \in Pids, KillOver(p) PROVE IInv'
<1> USE DEF IInv
<1> DEFINE q == victim[p]
<1>1. at[p] = "kill" /\ q \in Pids /\ q # p
  BY BrothersAssumption DEF KillOver, OnlySmaller
<1>2. /\ at' \in [Pids -> Places] /\ at'[p] = "scan"
      /\ at'[q] = at[q] \/ at'[q] = "dead"
      /\ at[q] # "absent" => at'[q] = "dead"
      /\ \A r \in Pids \ {p, q} : at'[r] = at[r]
  BY <1>1 DEF KillOver, Spared, Alive, Types, Places
<1>3. channel' = channel \ {r \in {q} : at'[r] = "dead"} /\ stopq' \subseteq Pids
  BY <1>1, <1>2 DEF KillOver, Spared, Alive, Types, ChannelIsWhere, Places
<1>4. OneWay
  BY <1>1, <1>2 DEF OneWay
<1>5. /\ victim' \in [Pids -> Nat] /\ victim'[p] = 0 /\ \A r \in Pids \ {p} : victim'[r] = victim[r]
  BY DEF KillOver, Types
<1>6. Types'
  BY <1>2, <1>3, <1>5 DEF Types, KillOver
<1>7. ChannelIsWhere'
  BY <1>1, <1>2, <1>3 DEF ChannelIsWhere
<1>8. OnlySmaller'
  BY <1>1, <1>2, <1>5, BrothersAssumption DEF OnlySmaller, KillOver
<1>9. SeenIsDead'
  <2> SUFFICES ASSUME NEW r \in Pids, at'[r] \in Round, NEW s \in seen[r]
               PROVE  at'[s] = "dead" \/ (at'[r] = "kill" /\ s = victim'[r] /\ at'[s] # "absent")
    BY DEF SeenIsDead, KillOver
  <2>1. s \in Pids
    BY DEF Types
  <2>2. CASE r = p
    BY <1>1, <1>2, <1>4, <2>1, <2>2 DEF SeenIsDead, Round, OneWay
  <2>3. CASE r # p
    <3>1. at'[r] = at[r] /\ victim'[r] = victim[r]
      BY <1>2, <1>5, <2>3 DEF Round
    <3>. QED
      BY <1>4, <2>1, <3>1 DEF SeenIsDead, OneWay
  <2>. QED
    BY <2>2, <2>3
<1>10. SearchIsSound'
  BY <1>2, <1>4, SearchKept DEF KillOver
<1>. QED
  BY <1>6, <1>7, <1>8, <1>9, <1>10

-----------------------------------------------------------------------------
(* The modem, the bystander, and quectel-CM -k *)

LEMMA SurroundingsKeep == ASSUME IInv, ModemLeaves \/ ModemReturns \/ BystanderEnds PROVE IInv'
<1> USE DEF IInv
<1>1. /\ UNCHANGED <<at, stay, stopq, channel, looked, victim, signals, seen, seek>>
      /\ passing' = passing \/ passing' = FALSE
      /\ plan' \in [starts : SUBSET Pids, seeks : BOOLEAN, breaks : Nat]
  BY BreakLeaves DEF ModemLeaves, ModemReturns, BystanderEnds, Types
<1>2. plugged' \in BOOLEAN /\ passing' \in BOOLEAN
  BY Zenon DEF ModemLeaves, ModemReturns, BystanderEnds, Types
<1>3. Types'
  BY <1>1, <1>2 DEF Types
<1>4. ChannelIsWhere' /\ OnlySmaller' /\ SeenIsDead'
  BY <1>1 DEF ChannelIsWhere, OnlySmaller, SeenIsDead
<1>5. SearchIsSound'
  BY <1>1, SearchKept DEF Types, OneWay
<1>. QED
  BY <1>3, <1>4, <1>5

LEMMA GlobKeeps == ASSUME IInv, Glob PROVE IInv'
<1> USE DEF IInv
<1>1. Procs \in Entries /\ \A q \in Procs \cap Pids : at[q] # "absent"
  BY BrothersAssumption DEF Procs, Entries, Alive
<1>2. /\ seek' \in [at : SearchPlaces, found : Entries, list : Entries, target : Pids \cup {0}]
      /\ seek'.at = "look" /\ seek'.found = Procs /\ seek'.list = Procs
  BY <1>1 DEF Glob, Types, SearchPlaces
<1>3. Types' /\ ChannelIsWhere' /\ OnlySmaller' /\ SeenIsDead'
  BY <1>2 DEF Glob, Types, ChannelIsWhere, OnlySmaller, SeenIsDead
<1>4. SearchIsSound'
  BY <1>1, <1>2 DEF Glob, SearchIsSound, SearchFindsManager
<1>. QED
  BY <1>3, <1>4

LEMMA LookKeeps == ASSUME IInv, getpid_by_pdp PROVE IInv'
<1> USE DEF IInv
<1>1. /\ seek.at = "look"
      /\ seek \in [at : SearchPlaces, found : Entries, list : Entries, target : Pids \cup {0}]
  BY DEF getpid_by_pdp, Types
<1> DEFINE LooksOn ==
      /\ seek' \in [at : SearchPlaces, found : Entries, list : Entries, target : Pids \cup {0}]
      /\ seek'.found = seek.found /\ seek'.list \subseteq seek.list
      /\ \/ seek'.at = "look" /\ seek.list \cap Pids \subseteq seek'.list
         \/ seek'.at = "found" /\ seek'.target \in Pids
         \/ seek'.at = "failed" /\ (seek.list = {} \/ \E p \in seek.list : p \notin Procs)
<1>2. LooksOn
  <2>1. CASE seek.list = {} /\ seek' = [seek EXCEPT !.at = "failed"]
    BY <1>1, <2>1 DEF SearchPlaces
  <2>2. ASSUME NEW p \in seek.list, seek' = Looked(p)
        PROVE  LooksOn
    <3>1. p \in Pids \cup {Bystander}
      BY <1>1 DEF Entries
    <3>2. CASE p \notin Procs
      BY <1>1, <2>2, <3>2 DEF Looked, SearchPlaces
    <3>3. CASE p \in Procs /\ p # Bystander
      BY <1>1, <2>2, <3>1, <3>3 DEF Looked, SearchPlaces
    <3>4. CASE p \in Procs /\ p = Bystander
      BY <1>1, <2>2, <3>4, BrothersAssumption DEF Looked, SearchPlaces, Entries
    <3>. QED
      BY <3>2, <3>3, <3>4
  <2>. QED
    BY <2>1, <2>2 DEF getpid_by_pdp
<1>3. UNCHANGED <<at, stay, stopq, channel, looked, victim, signals, seen, plugged, passing, plan>>
  BY DEF getpid_by_pdp
<1>4. Types' /\ ChannelIsWhere' /\ OnlySmaller' /\ SeenIsDead'
  BY <1>2, <1>3 DEF Types, ChannelIsWhere, OnlySmaller, SeenIsDead
<1>5. Procs' = Procs
  BY <1>3 DEF Procs, Alive
<1>6. SearchFindsManager'
  BY <1>1, <1>2, <1>5 DEF SearchIsSound, SearchFindsManager
<1>7. SearchIsSound'
  BY <1>1, <1>2, <1>3, <1>6 DEF SearchIsSound
<1>. QED
  BY <1>4, <1>7

LEMMA KillDataCallKeeps == ASSUME IInv, kill_data_call_pdp PROVE IInv'
<1> USE DEF IInv
<1>1. seek.at = "found" /\ seek.target \in Pids /\ seek' = [seek EXCEPT !.at = "done"]
  BY DEF kill_data_call_pdp, SearchIsSound
<1>2. /\ seek' \in [at : SearchPlaces, found : Entries, list : Entries, target : Pids \cup {0}]
      /\ seek'.at = "done" /\ seek'.found = seek.found /\ seek'.list = seek.list
  BY <1>1 DEF Types, SearchPlaces
<1>3. /\ UNCHANGED <<channel, looked, victim, signals, seen, plugged, passing, plan>>
      /\ \/ Alive(seek.target) /\ Signalled(seek.target)
         \/ UNCHANGED <<at, stay, stopq>>
  BY DEF kill_data_call_pdp
<1>4. /\ at' \in [Pids -> Places] /\ OneWay /\ Types'
      /\ ChannelIsWhere' /\ OnlySmaller' /\ SeenIsDead'
  <2>1. CASE Alive(seek.target) /\ Signalled(seek.target)
    BY <1>1, <1>2, <1>3, <2>1, SignalKeeps DEF Types
  <2>2. CASE UNCHANGED <<at, stay, stopq>>
    BY <1>2, <1>3, <2>2 DEF Types, ChannelIsWhere, OnlySmaller, SeenIsDead, OneWay
  <2>. QED
    BY <1>3, <2>1, <2>2
<1>5. SearchIsSound'
  BY <1>2, <1>4 DEF SearchIsSound, SearchFindsManager, OneWay, Types
<1>. QED
  BY <1>4, <1>5

LEMMA StepKeeps == IInv /\ [BrotherNext]_brotherVars => IInv'
<1> SUFFICES ASSUME IInv, [BrotherNext]_brotherVars PROVE IInv'
  OBVIOUS
<1>1. ASSUME NEW p \in Pids, StartManager(p) \/ ManagerSteps(p) \/ ModemResets(p) \/ Hangs(p)
      PROVE  IInv'
  BY <1>1, PlainStepsKeep, RoundBegins, ScanKeeps, TerminateKeeps, KillOverKeeps DEF ManagerSteps
<1>2. CASE \/ getpid_by_pdp \/ ModemLeaves \/ ModemReturns \/ BystanderEnds \/ Glob
           \/ kill_data_call_pdp
  BY <1>2, SurroundingsKeep, GlobKeeps, LookKeeps, KillDataCallKeeps
<1>3. CASE UNCHANGED brotherVars
  BY <1>3 DEF brotherVars, IInv, Types, ChannelIsWhere, OnlySmaller, SeenIsDead, SearchIsSound,
              SearchFindsManager, Procs, Alive
<1>. QED
  BY <1>1, <1>2, <1>3 DEF BrotherNext

\* A manager that was seen with the channel open is gone for good before the
\* one that saw it opens the channel, and a search with -k fails with a
\* manager there only because a process ended (kill_brothers, getpid_by_pdp).
THEOREM BrothersFound == BrotherSpec => []ManagersFound
<1>1. IInv => BrotherTypeOK
  <2> SUFFICES ASSUME IInv PROVE BrotherTypeOK
    OBVIOUS
  <2>1. \A p \in Pids : at[p] = "kill" => victim[p] # 0
    BY BrothersAssumption DEF IInv, OnlySmaller
  <2>. QED
    BY <2>1 DEF IInv, Types, ChannelIsWhere, OnlySmaller, SearchIsSound, BrotherTypeOK, Places,
                SearchPlaces, Entries
<1>2. IInv => BrothersGone
  BY DEF IInv, SeenIsDead, Round, BrothersGone, Alive
<1>3. IInv => SearchFindsManager
  BY DEF IInv, SearchIsSound
<1>. QED
  BY <1>1, <1>2, <1>3, InitIInv, StepKeeps, PTL DEF BrotherSpec, ManagersFound

-----------------------------------------------------------------------------
(* The main loop: the inductive invariant *)

MainPlaces ==
  {"boot", "ethmode", "sim", "enterpin", "profile", "setprofile", "register0", "loop", "signal",
   "event", "reregister", "setup", "setup_auth", "address", "setup6", "address6", "backoff",
   "register", "query", "learn", "compare", "hangup", "query6", "settle", "stop", "stop6",
   "stoplink", "deinit", "quit", "join", "again", "ended"}
Stopping == {"stop", "stop6", "stoplink", "deinit"}
AtRest == {"quit", "join", "again", "boot", "ended"}
SignalNames == {"START", "STOP", "CHECK"}
EventNames ==
  {"DEVICE_DISCONNECTED", "NETWORK_STATE_CHANGED", "DATA_CALL_LIST_CHANGED", "MODEM_REPORT_RESET"}
ServiceSets == SUBSET {"wds", "nas", "wds6"}
Status == {Down, Up, Unknow}

MainTypes ==
  /\ pc \in MainPlaces /\ Families \subseteq {"v4", "v6"} /\ ops \in {"qmi", "mbim"}
  /\ conn \in [Families -> Status] /\ call \in [Families -> Status]
  /\ handle \in [Families -> BOOLEAN]
  /\ addr \in 0 .. 2 /\ iface \in 0 .. 2 /\ started \in 0 .. 2 /\ ip \in 1 .. 2
  /\ ps \in BOOLEAN /\ raw \in BOOLEAN /\ backoff \in BOOLEAN /\ alarm \in BOOLEAN
  /\ evReady \in BOOLEAN /\ gStay \in BOOLEAN /\ quitSent \in BOOLEAN /\ attached \in BOOLEAN
  /\ pin \in BOOLEAN /\ hup \in BOOLEAN /\ reconf \in BOOLEAN /\ clean \in BOOLEAN
  /\ ethRaw \in BOOLEAN /\ passedOver \in BOOLEAN
  /\ link \subseteq Families \cup {"never"}
  /\ clients \subseteq Services /\ held \subseteq Services
  /\ late \subseteq {"start", "stop"} \X Families
  /\ reader \in {"running", "stopping", "gone"}
  /\ nfault \in 0 .. MaxFaults /\ nstop \in 0 .. MaxStops
  /\ sigq \in Seq(SignalNames) /\ evq \in Seq(EventNames)
  /\ pc = "signal" => sigq # <<>>
  /\ pc = "event" => evq # <<>>
  /\ evReady /\ pc \notin Stopping \cup AtRest => evq # <<>>
  /\ pc \in {"setup_auth", "address", "learn", "compare", "hangup"} => "v4" \in Families
  /\ pc \in {"setup6", "address6"} => "v6" \in Families

Has(q, x) == \E i \in 1 .. Len(q) : q[i] = x
NoCalls == \A f \in Families : call[f] = Down

\* The device went or the modem reset: there is nothing left in it.
Lost == held = {} /\ (clean => NoCalls)

\* How a manager gets from one round to the next: never with a stop under way,
\* and only over a modem that has lost what the round before left in it.
RoundsApart ==
  /\ hup => Lost
  /\ Has(evq, "MODEM_REPORT_RESET") => Lost
  /\ Has(evq, "DEVICE_DISCONNECTED") => reader = "gone" /\ (Lost \/ ~gStay)
  /\ Has(sigq, "STOP") \/ pc \in Stopping => ~gStay
  /\ reader = "stopping" => ~gStay \/ pc \in {"quit", "join"}
  /\ quitSent => pc \in {"quit", "join"}
  /\ pc \in {"again", "boot"} => reader = "gone"

\* Families that have a call of their own.
Dialled(f) == f \in Families /\ ~(f = "v6" /\ Mirrored)
AddressOf(f) == IF f = "v4" THEN "address" ELSE "address6"

\* What the modem has, the manager knows of.
CallsKnown ==
  /\ late = {}
  /\ \A f \in Families : call[f] \in {Down, Up}
  /\ ops = "mbim" => \A f, g \in Families : call[f] = call[g]
  /\ held \subseteq clients \cup {"wds6"}
  /\ \A f \in Families : Dialled(f) /\ call[f] = Up =>
       /\ conn[f] = Up \/ pc = AddressOf(f)
       /\ ops = "qmi" => handle[f]
  /\ \A f \in Families : ops = "qmi" /\ pc \notin (Stopping \ {"stop"}) \cup AtRest =>
       (conn[f] = Up \/ pc = AddressOf(f) => handle[f])
  /\ pc = "stop6" /\ "v4" \in Families => call["v4"] = Down
  /\ pc \in {"stoplink", "deinit", "boot"} => NoCalls
  /\ pc \in {"quit", "join", "again"} /\ gStay => NoCalls

\* What the loop reports while every exchange is answered: an address with a
\* call, and at the end of a check no family in an unknown state.
StatusKnown ==
  /\ ~reconf
  /\ pc \in {"setup_auth", "address"} => conn["v4"] # Up
  /\ pc \in {"learn", "compare", "hangup"} => conn["v4"] = Up
  /\ pc # "learn"
  /\ pc \in {"query6", "settle"} /\ "v4" \in Families => conn["v4"] # Unknow
  /\ pc = "settle" => \A f \in Families : conn[f] # Unknow
  /\ "v4" \in Families /\ conn["v4"] = Up /\ pc \notin Stopping \cup AtRest =>
       addr # 0 \/ pc = "hangup"

Working == pc \notin Stopping \cup AtRest

\* The loop was told, or is asking, what became of the call.
News == \/ Has(evq, "DATA_CALL_LIST_CHANGED") \/ Has(sigq, "CHECK")
        \/ pc \in {"register", "query", "learn", "compare"}

\* Whatever the outcome of the requests: an interface that shows IPv4 was
\* started for the address that is reported, or the check under way is about
\* to take it back; over QMI the address is the modem's, or there are news.
AddressKnown ==
  /\ pc \in {"setup_auth", "address"} => conn["v4"] # Up
  /\ pc \in {"learn", "compare", "hangup"} => conn["v4"] = Up
  /\ pc = "learn" => addr = 0
  /\ pc \in {"join", "again", "boot"} => "v4" \notin link
  /\ "v4" \in link /\ ~passedOver /\ Working =>
       \/ conn["v4"] = Up /\ started \in {0, addr}
       \/ pc = "hangup"
       \/ pc \in {"query6", "settle"} /\ conn["v4"] # Up
  /\ ops = "mbim" /\ Working =>
       /\ "v4" \in Families /\ conn["v4"] = Up /\ pc # "learn" => addr # 0
       /\ "v4" \in link /\ ~passedOver => iface = started /\ started # 0
  /\ ops = "qmi" /\ Working /\ pc # "hangup" /\ "v4" \in Families /\ reader = "running" /\ ~hup =>
       (conn["v4"] = Up => addr \in {0, ip} \/ News)

MainInv == /\ MainTypes /\ RoundsApart /\ AddressKnown
           /\ clean => CallsKnown /\ StatusKnown

-----------------------------------------------------------------------------
(* The main loop: lemmas about requests and queues *)

\* What a request leaves: only one that was answered keeps the manager clean.
LEMMA AskDoes ==
  ASSUME MainTypes, NEW s, NEW o, Ask(s, o)
  PROVE  /\ nfault' \in 0 .. MaxFaults /\ clean' \in BOOLEAN
         /\ clean' => /\ clean /\ o = "ok" /\ reader # "gone" /\ ~hup
                      /\ HasClient(s) /\ ~Revoked(s)
<1>0. nfault \in Nat /\ MaxFaults \in Nat /\ nfault <= MaxFaults /\ clean \in BOOLEAN
  BY BoundsAssumption DEF MainTypes
<1>1. nfault' \in 0 .. MaxFaults
  BY <1>0 DEF Ask, askVars
<1>2. clean' = clean \/ clean' = FALSE
  BY DEF Ask, askVars
<1>3. clean' \in BOOLEAN
  BY <1>0, <1>2, Zenon
<1>4. ASSUME clean'
      PROVE  clean /\ o = "ok" /\ reader # "gone" /\ ~hup /\ HasClient(s) /\ ~Revoked(s)
  BY <1>4, Zenon DEF Ask, askVars
<1> QED BY <1>1, <1>3, <1>4

\* The value a request function returns.
LEMMA RetIs ==
  ASSUME NEW o \in Outcomes
  PROVE  Ret(o) \in {"0", "+", "-"} /\ (o = "ok" => Ret(o) = "0")
BY DEF Ret, Outcomes

\* What the queues of the loop hold after a write and after a read.
LEMMA QueueHas ==
  ASSUME NEW S, NEW q \in Seq(S), NEW x \in S
  PROVE  /\ Append(q, x) \in Seq(S) /\ Append(q, x) # <<>> /\ <<>> \in Seq(S)
         /\ \A y : Has(Append(q, x), y) <=> Has(q, y) \/ y = x
         /\ \A y : ~Has(<<>>, y)
         /\ q # <<>> => /\ Head(q) \in S /\ Tail(q) \in Seq(S) /\ Has(q, Head(q))
                        /\ \A y : Has(Tail(q), y) => Has(q, y)
<1>1. Len(q) \in Nat /\ Len(<<>>) = 0 /\ <<>> \in Seq(S)
  BY LenProperties, EmptySeq
<1>2. /\ Append(q, x) \in Seq(S) /\ Len(Append(q, x)) = Len(q) + 1
      /\ \A i \in 1 .. Len(q) : Append(q, x)[i] = q[i]
      /\ Append(q, x)[Len(q) + 1] = x
  BY AppendProperties
<1>3. Append(q, x) # <<>>
  BY <1>1, <1>2
<1>4. ASSUME NEW y PROVE Has(Append(q, x), y) <=> Has(q, y) \/ y = x
  <2>1. ASSUME Has(Append(q, x), y) PROVE Has(q, y) \/ y = x
    <3>1. PICK i \in 1 .. Len(q) + 1 : Append(q, x)[i] = y
      BY <1>2, <2>1 DEF Has
    <3>2. i \in 1 .. Len(q) \/ i = Len(q) + 1
      BY <1>1
    <3> QED BY <1>2, <3>1, <3>2 DEF Has
  <2>2. ASSUME Has(q, y) PROVE Has(Append(q, x), y)
    <3>1. PICK i \in 1 .. Len(q) : q[i] = y
      BY <2>2 DEF Has
    <3>2. i \in 1 .. Len(q) + 1
      BY <1>1
    <3> QED BY <1>2, <3>1, <3>2 DEF Has
  <2>3. ASSUME y = x PROVE Has(Append(q, x), y)
    <3>1. Len(q) + 1 \in 1 .. Len(q) + 1
      BY <1>1
    <3> QED BY <1>2, <2>3, <3>1 DEF Has
  <2> QED BY <2>1, <2>2, <2>3
<1>5. \A y : ~Has(<<>>, y)
  BY <1>1 DEF Has
<1>6. ASSUME q # <<>>
      PROVE  /\ Head(q) \in S /\ Tail(q) \in Seq(S) /\ Has(q, Head(q))
             /\ \A y : Has(Tail(q), y) => Has(q, y)
  <2>1. /\ Head(q) \in S /\ Tail(q) \in Seq(S) /\ Head(q) = q[1] /\ Len(q) # 0
        /\ Len(Tail(q)) = Len(q) - 1 /\ \A i \in 1 .. Len(Tail(q)) : Tail(q)[i] = q[i + 1]
    BY <1>6, HeadTailProperties, EmptySeq
  <2>2. 1 \in 1 .. Len(q)
    BY <1>1, <2>1
  <2>3. ASSUME NEW y, Has(Tail(q), y) PROVE Has(q, y)
    <3>1. PICK i \in 1 .. Len(Tail(q)) : Tail(q)[i] = y
      BY <2>3 DEF Has
    <3>2. i + 1 \in 1 .. Len(q) /\ q[i + 1] = y
      BY <1>1, <2>1, <3>1
    <3> QED BY <3>2 DEF Has
  <2> QED BY <2>1, <2>2, <2>3 DEF Has
<1> QED BY <1>2, <1>1, <1>3, <1>4, <1>5, <1>6

-----------------------------------------------------------------------------
(* The main loop: every step keeps the types *)

\* A request keeps the types, whatever its outcome.
LEMMA RequestsKeepTypes ==
  ASSUME MainTypes, NEW o \in Outcomes, Request(o)
  PROVE  MainTypes'
<1>1. \A s : Ask(s, o) => nfault' \in 0 .. MaxFaults /\ clean' \in BOOLEAN
  BY AskDoes
<1>2. Ret(o) \in {"0", "+", "-"}
  BY RetIs
<1>3. nfault \in 0 .. MaxFaults /\ clean \in BOOLEAN /\ {"CHECK", "START"} \subseteq SignalNames
  BY DEF MainTypes, SignalNames
<1>4. \A q \in Seq(SignalNames), x \in SignalNames : Append(q, x) \in Seq(SignalNames) /\ Append(q, x) # <<>>
  BY QueueHas
<1>5. ASSUME Registered(o)
      PROVE  ps' \in BOOLEAN /\ nfault' \in 0 .. MaxFaults /\ clean' \in BOOLEAN
  <2>1. Ask("nas", o)
    BY <1>5 DEF Registered, requestRegistrationState1, requestRegistrationState2
  <2>2. ps' = (o = "ok" /\ attached) \/ ps' = attached \/ ps' = ps
    BY <1>5 DEF Registered, requestRegistrationState1, requestRegistrationState2
  <2>3. attached \in BOOLEAN /\ ps \in BOOLEAN
    BY DEF MainTypes
  <2>4. ps' \in BOOLEAN
    BY <2>2, <2>3, Zenon
  <2> QED BY <1>1, <2>1, <2>4
<1>6. CASE requestSetEthMode(o)
  <2>1. nfault' \in 0 .. MaxFaults /\ clean' \in BOOLEAN
    BY <1>1, <1>3, <1>6 DEF requestSetEthMode, askVars
  <2> QED BY <1>6, <2>1 DEF requestSetEthMode, MainTypes, MainPlaces, Stopping, AtRest, timeVars, queueVars,
         netVars, procVars, modeVars, modemVars, Services
<1>7. CASE requestGetSIMStatus(o)
  <2>1. nfault' \in 0 .. MaxFaults /\ clean' \in BOOLEAN
    BY <1>1, <1>3, <1>7 DEF requestGetSIMStatus, askVars
  <2> QED BY <1>7, <2>1 DEF requestGetSIMStatus, MainTypes, MainPlaces, Stopping, AtRest, hostVars,
         timeVars, queueVars, netVars, procVars, modeVars, modemVars, Services
<1>8. CASE requestEnterSimPin(o)
  <2>1. nfault' \in 0 .. MaxFaults /\ clean' \in BOOLEAN
    BY <1>1, <1>3, <1>8 DEF requestEnterSimPin, askVars
  <2>2. pin' \in BOOLEAN
    BY <1>8, Zenon DEF requestEnterSimPin
  <2> QED BY <1>8, <2>1, <2>2 DEF requestEnterSimPin, MainTypes, MainPlaces, Stopping, AtRest, hostVars,
         timeVars, queueVars, netVars, procVars, modeVars, modemVars, Services
<1>9. CASE requestGetProfile(o)
  <2>1. nfault' \in 0 .. MaxFaults /\ clean' \in BOOLEAN
    BY <1>1, <1>3, <1>9 DEF requestGetProfile, askVars
  <2> QED BY <1>9, <2>1 DEF requestGetProfile, MainTypes, MainPlaces, Stopping, AtRest, hostVars, timeVars,
         queueVars, netVars, procVars, modeVars, modemVars, Services
<1>10. CASE requestSetProfile(o)
  <2>1. nfault' \in 0 .. MaxFaults /\ clean' \in BOOLEAN
    BY <1>1, <1>3, <1>10 DEF requestSetProfile, askVars
  <2> QED BY <1>10, <2>1 DEF requestSetProfile, MainTypes, MainPlaces, Stopping, AtRest, hostVars, timeVars,
         queueVars, netVars, procVars, modeVars, modemVars, Services
<1>11. CASE Register0(o)
  BY <1>3, <1>4, <1>5, <1>11 DEF Register0, MainTypes, MainPlaces, Stopping, AtRest, timeVars, queueVars,
     netVars, procVars, modeVars, modemVars, Services
<1>12. CASE NetworkChanged(o)
  <2>1. sigq' \in Seq(SignalNames)
    BY <1>3, <1>4, <1>12 DEF NetworkChanged, MainTypes
  <2>2. backoff' = backoff \/ backoff' = FALSE
    BY <1>12 DEF NetworkChanged
  <2>3. backoff' \in BOOLEAN
    BY <2>2, Zenon DEF MainTypes
  <2> QED BY <1>5, <1>12, <2>1, <2>3 DEF NetworkChanged, MainTypes, MainPlaces, Stopping, AtRest, netVars,
         procVars, modeVars,
             modemVars, Services
<1>13. CASE CheckRegister(o)
  BY <1>3, <1>5, <1>13 DEF CheckRegister, MainTypes, MainPlaces, Stopping, AtRest, timeVars, queueVars,
     netVars, procVars, modeVars, modemVars, Services
<1>14. ASSUME NEW f \in Families, NEW here, NEW retry, NEW address, NEW next,
              requestSetupDataCall(f, o, here, retry, address, next),
              here \in {"setup", "setup_auth", "setup6"},
              {retry, address, next} \subseteq {"setup_auth", "address", "setup6", "address6", "backoff"},
              "v4" \in Families \/ {retry, address, next} \subseteq {"address6", "backoff"},
              "v6" \in Families \/ {retry, address, next} \subseteq {"setup_auth", "address", "backoff"}
       PROVE  MainTypes'
  <2>1. nfault' \in 0 .. MaxFaults /\ clean' \in BOOLEAN
    BY <1>1, <1>3, <1>14 DEF requestSetupDataCall, askVars
  <2>2. call' \in [Families -> Status]
    BY <1>14 DEF requestSetupDataCall, MainTypes, Status
  <2>3. handle' \in [Families -> BOOLEAN]
    BY <1>14 DEF requestSetupDataCall, KeepHandle, MainTypes
  <2>4. late' \subseteq {"start", "stop"} \X Families
    BY <1>14 DEF requestSetupDataCall, MayRunLate, MainTypes
  <2>5. reconf' \in BOOLEAN
    <3>1. reconf' = (reconf /\ ~(o = "ok" /\ f = "v4"))
      BY <1>14 DEF requestSetupDataCall
    <3> QED BY <3>1, Zenon
  <2>6. pc' \in {retry, address, next}
    BY <1>14 DEF requestSetupDataCall
  <2>7. /\ pc' \in MainPlaces /\ pc' # "signal" /\ pc' # "event"
        /\ pc' \in {"setup_auth", "address", "learn", "compare", "hangup"} => "v4" \in Families
        /\ pc' \in {"setup6", "address6"} => "v6" \in Families
    BY <1>14, <2>6 DEF MainPlaces
  <2>8. UNCHANGED <<ps, conn, addr, raw, oldProfile, timeVars, queueVars, netVars, procVars, attached, pin,
                    mprofile, ip, held, hup, nstop>>
    BY <1>14 DEF requestSetupDataCall
  <2>9. pc \notin Stopping \cup AtRest
    BY <1>14 DEF requestSetupDataCall, Stopping, AtRest
  <2> QED BY <2>1, <2>2, <2>3, <2>4, <2>5, <2>7, <2>8, <2>9 DEF MainTypes, timeVars, queueVars, netVars,
         procVars,
             modeVars, Services
<1>15. AfterV4 \in {"setup6", "backoff"} /\ (AfterV4 = "setup6" => "v6" \in Families)
  BY DEF AfterV4
<1>16. CASE SetupV4(o)
  <2>1. "v4" \in Families
    BY <1>16 DEF SetupV4
  <2>2. CASE requestSetupDataCall("v4", o, "setup", "setup_auth", "address", AfterV4)
    BY <1>14, <1>15, <2>1, <2>2
  <2>3. CASE requestSetupDataCall("v4", o, "setup_auth", AfterV4, "address", AfterV4)
    BY <1>14, <1>15, <2>1, <2>3
  <2> QED BY <1>16, <2>2, <2>3 DEF SetupV4
<1>17. ASSUME NEW value, Address(o, value)
       PROVE  /\ value \in 0 .. 2
              /\ nfault' \in 0 .. MaxFaults /\ clean' \in BOOLEAN
  BY <1>1, <1>3, <1>17 DEF Address, MainTypes, askVars
<1>18. CASE AddressV4(o)
  <2>1. addr' \in 0 .. 2 /\ nfault' \in 0 .. MaxFaults /\ clean' \in BOOLEAN
    BY <1>17, <1>18 DEF AddressV4
  <2>2. conn' \in [Families -> Status]
    BY <1>18 DEF AddressV4, MainTypes, Status
  <2> QED BY <1>18, <1>15, <2>1, <2>2 DEF AddressV4, MainTypes, MainPlaces, Stopping, AtRest, timeVars,
         queueVars,
             netVars, procVars, modeVars, modemVars, Services
<1>19. CASE SetupV6(o)
  <2>1. "v6" \in Families
    BY <1>19 DEF SetupV6, requestSetupDataCall, MainTypes
  <2>2. CASE requestSetupDataCall("v6", o, "setup6", "backoff", "address6", "backoff")
    BY <1>14, <2>1, <2>2
  <2>3. CASE UNCHANGED <<askVars, ps, handle, addr, raw, oldProfile, modemVars>>
    <3>1. conn' \in [Families -> Status]
      BY <1>19, <2>3 DEF SetupV6, MainTypes, Mirrored, requestSetupDataCall
    <3> QED BY <1>19, <2>3, <3>1 DEF SetupV6, MainTypes, MainPlaces, Stopping, AtRest, askVars, timeVars,
           queueVars,
               netVars, procVars, modeVars, modemVars, Services, requestSetupDataCall
  <2> QED BY <1>19, <2>2, <2>3 DEF SetupV6
<1>20. CASE AddressV6(o)
  <2>1. nfault' \in 0 .. MaxFaults /\ clean' \in BOOLEAN
    BY <1>1, <1>3, <1>20 DEF AddressV6, askVars
  <2>2. conn' \in [Families -> Status]
    BY <1>20 DEF AddressV6, MainTypes, Status
  <2> QED BY <1>20, <2>1, <2>2 DEF AddressV6, MainTypes, MainPlaces, Stopping, AtRest, timeVars, queueVars,
         netVars,
             procVars, modeVars, modemVars, Services
<1>21. ASSUME NEW f \in Families PROVE Queried(f, o) \in Status /\ Forget(f, o) \in [Families -> BOOLEAN]
  BY DEF Queried, Forget, MainTypes, Status
<1>22. CASE QueryV4(o)
  <2>1. nfault' \in 0 .. MaxFaults /\ clean' \in BOOLEAN
    BY <1>1, <1>3, <1>22 DEF QueryV4, askVars
  <2>2. conn' \in [Families -> Status] /\ handle' \in [Families -> BOOLEAN]
    <3>1. Down \in Status
      BY DEF Status
    <3> QED BY <1>22, <1>21, <3>1 DEF QueryV4, MainTypes
  <2>3. pc' \in {"learn", "compare", "query6"} /\ (pc' # "query6" => "v4" \in Families)
    BY <1>22 DEF QueryV4
  <2> QED BY <1>22, <2>1, <2>2, <2>3 DEF QueryV4, MainTypes, MainPlaces, Stopping, AtRest, timeVars,
         queueVars, netVars,
             procVars, modeVars, modemVars, Services
<1>23. CASE Learn(o)
  <2>1. addr' \in 0 .. 2 /\ nfault' \in 0 .. MaxFaults /\ clean' \in BOOLEAN
    BY <1>17, <1>23 DEF Learn
  <2>2. conn' \in [Families -> Status]
    BY <1>23 DEF Learn, MainTypes, Status
  <2> QED BY <1>23, <2>1, <2>2 DEF Learn, MainTypes, MainPlaces, Stopping, AtRest, timeVars, queueVars,
         netVars,
             procVars, modeVars, modemVars, Services
<1>24. CASE check_ipv4_address(o)
  <2>1. addr' \in 0 .. 2 /\ nfault' \in 0 .. MaxFaults /\ clean' \in BOOLEAN
    BY <1>3, <1>17, <1>24 DEF check_ipv4_address, askVars, MainTypes
  <2>2. pc' \in {"query6", "hangup"}
    BY <1>24 DEF check_ipv4_address
  <2> QED BY <1>24, <2>1, <2>2 DEF check_ipv4_address, MainTypes, MainPlaces, Stopping, AtRest, timeVars,
         queueVars,
             netVars, procVars, modeVars, modemVars, Services
<1>25. ASSUME NEW f \in Families, Deactivate(f, o)
       PROVE  /\ nfault' \in 0 .. MaxFaults /\ clean' \in BOOLEAN
              /\ handle' \in [Families -> BOOLEAN] /\ call' \in [Families -> Status]
              /\ late' \subseteq {"start", "stop"} \X Families
  <2>1. nfault' \in 0 .. MaxFaults /\ clean' \in BOOLEAN
    BY <1>1, <1>3, <1>25 DEF Deactivate, askVars
  <2>2. handle' \in [Families -> BOOLEAN]
    BY <1>25 DEF Deactivate, MainTypes
  <2>3. call' \in [Families -> Status]
    BY <1>25 DEF Deactivate, MainTypes, Status
  <2>4. late' \subseteq {"start", "stop"} \X Families
    BY <1>25 DEF Deactivate, MayRunLate, MainTypes
  <2> QED BY <2>1, <2>2, <2>3, <2>4
<1>26. CASE Hangup(o)
  <2>1. "v4" \in Families
    BY <1>26 DEF Hangup, MainTypes
  <2>2. conn' \in [Families -> Status]
    BY <1>26, <2>1 DEF Hangup, MainTypes, Status
  <2>3. Deactivate("v4", o)
    BY <1>26 DEF Hangup
  <2> QED BY <1>26, <1>25, <2>1, <2>2, <2>3 DEF Hangup, MainTypes, MainPlaces, Stopping, AtRest, timeVars,
         queueVars,
             netVars, procVars, modeVars, Services
<1>27. CASE QueryV6(o)
  <2>1. nfault' \in 0 .. MaxFaults /\ clean' \in BOOLEAN
    BY <1>1, <1>3, <1>27 DEF QueryV6, askVars
  <2>2. conn' \in [Families -> Status] /\ handle' \in [Families -> BOOLEAN]
    BY <1>27, <1>21 DEF QueryV6, MainTypes, Mirrored
  <2> QED BY <1>27, <2>1, <2>2 DEF QueryV6, MainTypes, MainPlaces, Stopping, AtRest, timeVars, queueVars,
         netVars,
             procVars, modeVars, modemVars, Services
<1>28. ASSUME NEW f, NEW here, NEW next \in {"stop6", "stoplink"}, StopCall(f, o, here, next)
       PROVE  MainTypes'
  <2>1. CASE HangsUp(f)
    <3>1. f \in Families /\ Deactivate(f, o)
      BY <1>28, <2>1 DEF StopCall, HangsUp
    <3> QED BY <1>25, <1>28, <3>1 DEF StopCall, MainTypes, MainPlaces, Stopping, AtRest, timeVars,
           queueVars, netVars,
               procVars, modeVars, Services
  <2>2. CASE ~HangsUp(f)
    BY <1>28, <2>2 DEF StopCall, MainTypes, MainPlaces, Stopping, AtRest, askVars, timeVars, queueVars,
       netVars, procVars,
       modeVars, Services
  <2> QED BY <2>1, <2>2
<1>29. CASE StopCall("v4", o, "stop", "stop6")
  BY <1>29, <1>28
<1>30. CASE StopCall("v6", o, "stop6", "stoplink")
  BY <1>30, <1>28
<1>31. CASE \E s \in clients : ReleaseClient(s, o)
  <2>1. PICK s \in clients : ReleaseClient(s, o)
    BY <1>31
  <2>2. nfault' \in 0 .. MaxFaults /\ clean' \in BOOLEAN
    BY <1>1, <2>1 DEF ReleaseClient
  <2>3. clients' \subseteq clients /\ held' \subseteq held
    BY <2>1 DEF ReleaseClient, Released
  <2>4. pc' = pc /\ UNCHANGED <<hostVars, timeVars, queueVars, netVars, modeVars, gStay, reader,
          quitSent, leaked, attached, pin, mprofile, call, ip, reconf, late, hup, nstop>>
    BY <2>1 DEF ReleaseClient
  <2> QED BY <2>2, <2>3, <2>4 DEF MainTypes, hostVars, timeVars, queueVars, netVars, modeVars, Services
<1> QED BY <1>6, <1>7, <1>8, <1>9, <1>10, <1>11, <1>12, <1>13, <1>18, <1>19, <1>20, <1>22,
           <1>23, <1>24, <1>26, <1>27, <1>29, <1>30, <1>31, <1>16 DEF Request

\* What usbnet_link_change() leaves in the interface.
LEMMA LinkChangeKeepsTypes ==
  ASSUME MainTypes, NEW l \in SUBSET Families, usbnet_link_change(l)
  PROVE  /\ link' \subseteq Families \cup {"never"} /\ iface' \in 0 .. 2 /\ addr' \in 0 .. 2
         /\ started' \in 0 .. 2 /\ passedOver' \in BOOLEAN
<1>1. addr' \in 0 .. 2
  BY DEF usbnet_link_change, MainTypes
<1>2. link' \subseteq Families \cup {"never"} /\ iface' \in 0 .. 2 /\ started' \in 0 .. 2
  BY <1>1 DEF usbnet_link_change, Configured, MainTypes
<1>3. passedOver' = passedOver \/ passedOver' = FALSE
  BY DEF usbnet_link_change
<1>4. passedOver' \in BOOLEAN
  BY <1>3, Zenon DEF MainTypes
<1> QED BY <1>1, <1>2, <1>4

\* A step that asks the modem for nothing keeps the types.
LEMMA PlainStepsKeepTypes ==
  ASSUME MainTypes,
         \/ BootFails \/ Boot \/ Poll \/ PollTimeout \/ ReadSignal \/ ReadEvent \/ SkipV4 \/ Backoff
         \/ Settle \/ StopLink \/ DeInit \/ Quit \/ Join \/ Again
         \/ ReaderStep \/ Clock \/ Signal \/ ModemStep \/ Replug \/ UNCHANGED vars
  PROVE  MainTypes'
<1> USE DEF askVars, hostVars, timeVars, queueVars, netVars, modeVars, procVars, modemVars
<1>1. \A S : \A q \in Seq(S), x \in S :
        /\ Append(q, x) \in Seq(S) /\ Append(q, x) # <<>> /\ <<>> \in Seq(S)
        /\ q # <<>> => Head(q) \in S /\ Tail(q) \in Seq(S)
  BY QueueHas
<1>2. /\ nfault \in 0 .. MaxFaults /\ nstop \in 0 .. MaxStops
      /\ nfault < MaxFaults => nfault + 1 \in 0 .. MaxFaults
      /\ nstop < MaxStops => nstop + 1 \in 0 .. MaxStops
  BY BoundsAssumption DEF MainTypes
<1>3. /\ "START" \in SignalNames /\ "STOP" \in SignalNames /\ "CHECK" \in SignalNames
      /\ "DEVICE_DISCONNECTED" \in EventNames /\ "NETWORK_STATE_CHANGED" \in EventNames
      /\ "DATA_CALL_LIST_CHANGED" \in EventNames /\ "MODEM_REPORT_RESET" \in EventNames
      /\ sigq \in Seq(SignalNames) /\ evq \in Seq(EventNames)
      /\ pc = "signal" => sigq # <<>>
      /\ pc = "event" => evq # <<>>
  BY DEF SignalNames, EventNames, MainTypes
<1>4. \A q \in Seq(EventNames), x \in EventNames : Append(q, x) \in Seq(EventNames) /\ Append(q, x) # <<>>
  BY <1>1
<1>5. \A q \in Seq(SignalNames), x \in SignalNames : Append(q, x) \in Seq(SignalNames) /\ Append(q, x) # <<>>
  BY <1>1
<1>6. <<>> \in Seq(SignalNames) /\ <<>> \in Seq(EventNames)
  BY <1>1, <1>3
<1>7. ASSUME NEW e \in EventNames, Tell(e) PROVE evq' \in Seq(EventNames) /\ (evq # <<>> => evq' # <<>>)
  BY <1>4, <1>3, <1>7 DEF Tell
<1>8. CASE BootFails
  BY <1>8 DEF BootFails, MainTypes, MainPlaces, Stopping, AtRest, Services
<1>9. CASE Boot
  <2>1. conn' \in [Families -> Status] /\ nfault' \in 0 .. MaxFaults /\ clean' \in BOOLEAN
    BY <1>2, <1>9 DEF Boot, MainTypes, Status
  <2>2. clients' \subseteq Services
    BY <1>9 DEF Boot
  <2> QED BY <1>6, <1>9, <2>1, <2>2 DEF Boot, StayedIn, MainTypes, MainPlaces, Stopping, AtRest, Services
<1>10. CASE Poll
  <2>1. evReady' = (evq # <<>>)
    BY <1>10 DEF Poll
  <2>2. evReady' \in BOOLEAN
    BY <2>1, Zenon
  <2> QED BY <1>10, <2>1, <2>2 DEF Poll, MainTypes, MainPlaces, Stopping, AtRest, Services
<1>11. CASE PollTimeout
  <2>1. <<"CHECK">> = Append(<<>>, "CHECK")
    OBVIOUS
  <2>2. sigq' \in Seq(SignalNames) /\ sigq' # <<>>
    BY <1>5, <1>3, <1>6, <1>11, <2>1 DEF PollTimeout
  <2> QED BY <1>11, <2>1, <2>2 DEF PollTimeout, MainTypes, MainPlaces, Stopping, AtRest, Services
<1>12. CASE ReadSignal
  <2>1. sigq' \in Seq(SignalNames) /\ evq' \in Seq(EventNames)
    BY <1>1, <1>3, <1>6, <1>12 DEF ReadSignal
  <2>2. alarm' \in BOOLEAN /\ pc' \in {"event", "loop", "setup", "query", "register", "stop"}
    BY <1>12 DEF ReadSignal, Back
  <2>3. (pc' = "event" => evReady) /\ (pc' = "stop" \/ evq' = evq)
    BY <1>12 DEF ReadSignal, Back
  <2>4. evReady => evq # <<>>
    BY <1>12 DEF ReadSignal, MainTypes, Stopping, AtRest
  <2> QED BY <1>12, <2>1, <2>2, <2>3, <2>4 DEF ReadSignal, MainTypes, MainPlaces, Stopping, AtRest, Services
<1>13. CASE ReadEvent
  <2>1. sigq' \in Seq(SignalNames) /\ evq' \in Seq(EventNames)
    BY <1>1, <1>5, <1>3, <1>6, <1>13 DEF ReadEvent
  <2>2. pc' \in {"quit", "reregister", "loop"}
    BY <1>13 DEF ReadEvent
  <2>3. backoff' = backoff \/ backoff' = (backoff \/ AnyUp)
    BY <1>13 DEF ReadEvent
  <2>4. backoff' \in BOOLEAN
    BY <2>3, Zenon DEF MainTypes
  <2>5. quitSent' \in BOOLEAN /\ gStay' \in BOOLEAN
    BY <1>13 DEF ReadEvent, MainTypes
  <2>9. evReady' \in BOOLEAN
    BY <1>13, Zenon DEF ReadEvent
  <2> QED BY <1>13, <2>1, <2>2, <2>3, <2>4, <2>5, <2>9 DEF ReadEvent, MainTypes, MainPlaces, Stopping,
         AtRest, Services
<1>14. CASE SkipV4
  BY <1>14 DEF SkipV4, AfterV4, MainTypes, MainPlaces, Stopping, AtRest, Services
<1>15. CASE Backoff
  <2>1. backoff' = TRUE \/ backoff' = (backoff /\ ~AnyUp)
    BY <1>15 DEF Backoff
  <2>2. backoff' \in BOOLEAN
    BY <2>1, Zenon DEF MainTypes
  <2>3. alarm' \in BOOLEAN
    BY <1>15 DEF Backoff, MainTypes
  <2> QED BY <1>15, <2>1, <2>2, <2>3 DEF Backoff, Back, MainTypes, MainPlaces, Stopping, AtRest, Services
<1>16. CASE Settle
  <2>1. /\ link' \subseteq Families \cup {"never"} /\ iface' \in 0 .. 2 /\ addr' \in 0 .. 2
        /\ started' \in 0 .. 2 /\ passedOver' \in BOOLEAN
    <3>1. {} \in SUBSET Families /\ {f \in Families : conn[f] = Up} \in SUBSET Families
      OBVIOUS
    <3> QED BY <1>16, <3>1, LinkChangeKeepsTypes DEF Settle, MainTypes
  <2>2. sigq' \in Seq(SignalNames)
    BY <1>5, <1>3, <1>16 DEF Settle
  <2> QED BY <1>16, <2>1, <2>2 DEF Settle, Back, MainTypes, MainPlaces, Stopping, AtRest, Services
<1>17. CASE StopLink
  <2>1. /\ link' \subseteq Families \cup {"never"} /\ iface' \in 0 .. 2 /\ addr' \in 0 .. 2
        /\ started' \in 0 .. 2 /\ passedOver' \in BOOLEAN
    <3>1. {} \in SUBSET Families
      OBVIOUS
    <3> QED BY <1>17, <3>1, LinkChangeKeepsTypes DEF StopLink
  <2> QED BY <1>17, <2>1 DEF StopLink, MainTypes, MainPlaces, Stopping, AtRest, Services
<1>18. CASE Quit
  <2>1. /\ link' \subseteq Families \cup {"never"} /\ iface' \in 0 .. 2 /\ addr' \in 0 .. 2
        /\ started' \in 0 .. 2 /\ passedOver' \in BOOLEAN
    <3>1. {} \in SUBSET Families
      OBVIOUS
    <3> QED BY <1>18, <3>1, LinkChangeKeepsTypes DEF Quit
  <2> QED BY <1>18, <2>1 DEF Quit, MainTypes, MainPlaces, Stopping, AtRest, Services
<1>19. CASE DeInit
  BY <1>19 DEF DeInit, MainTypes, MainPlaces, Stopping, AtRest, Services
<1>20. CASE Join
  <2>9. evReady' \in BOOLEAN /\ quitSent' \in BOOLEAN
    BY <1>20, Zenon DEF Join
  <2> QED BY <1>20, <2>9 DEF Join, MainTypes, MainPlaces, Stopping, AtRest, Services
<1>21. CASE Again
  <2>1. alarm' \in BOOLEAN
    BY <1>21, Zenon DEF Again
  <2> QED BY <1>21, <2>1 DEF Again, MainTypes, MainPlaces, Stopping, AtRest, Services
<1>22. CASE ReaderLeaves
  <2>1. evq' \in Seq(EventNames) /\ (evq # <<>> => evq' # <<>>)
    BY <1>4, <1>3, <1>22 DEF ReaderLeaves
  <2> QED BY <1>22, <2>1 DEF ReaderLeaves, MainTypes, MainPlaces, Stopping, AtRest, Services
<1>23. CASE LeakedReaderQuits
  <2>9. quitSent' \in BOOLEAN
    BY <1>23, Zenon DEF LeakedReaderQuits
  <2> QED BY <1>23, <2>9 DEF LeakedReaderQuits, MainTypes, MainPlaces, Stopping, AtRest, Services
<1>24. CASE AlarmFires
  <2>1. sigq' \in Seq(SignalNames) /\ (sigq # <<>> => sigq' # <<>>)
    BY <1>5, <1>3, <1>24 DEF AlarmFires
  <2>9. alarm' \in BOOLEAN /\ backoff' \in BOOLEAN
    BY <1>24, Zenon DEF AlarmFires
  <2> QED BY <1>24, <2>1, <2>9 DEF AlarmFires, MainTypes, MainPlaces, Stopping, AtRest, Services
<1>25. CASE BackoffOver
  <2>9. backoff' \in BOOLEAN
    BY <1>25, Zenon DEF BackoffOver
  <2> QED BY <1>25, <2>9 DEF BackoffOver, MainTypes, MainPlaces, Stopping, AtRest, Services
<1>26. CASE Signal
  <2>1. sigq' \in Seq(SignalNames) /\ (sigq # <<>> => sigq' # <<>>)
    BY <1>5, <1>3, <1>26 DEF Signal
  <2>9. gStay' \in BOOLEAN
    BY <1>26, Zenon DEF Signal
  <2> QED BY <1>2, <1>26, <2>1, <2>9 DEF Signal, MainTypes, MainPlaces, Stopping, AtRest, Services
<1>27. CASE Attach
  <2>1. evq' \in Seq(EventNames) /\ (evq # <<>> => evq' # <<>>)
    BY <1>3, <1>7, <1>27 DEF Attach
  <2> QED BY <1>27, <2>1 DEF Attach, MainTypes, MainPlaces, Stopping, AtRest, Services
<1>28. CASE NewAddress
  <2>1. evq' \in Seq(EventNames) /\ (evq # <<>> => evq' # <<>>)
    BY <1>3, <1>7, <1>28 DEF NewAddress
  <2>2. ip' \in 1 .. 2
    BY <1>28 DEF NewAddress, MainTypes
  <2> QED BY <1>2, <1>28, <2>1, <2>2 DEF NewAddress, Env, MainTypes, MainPlaces, Stopping, AtRest, Services
<1>29. CASE Reconfigure
  <2>1. evq' \in Seq(EventNames) /\ (evq # <<>> => evq' # <<>>)
    BY <1>3, <1>7, <1>29 DEF Reconfigure
  <2>9. reconf' \in BOOLEAN /\ clean' \in BOOLEAN
    BY <1>29, Zenon DEF Reconfigure
  <2> QED BY <1>2, <1>29, <2>1, <2>9 DEF Reconfigure, Env, MainTypes, MainPlaces, Stopping, AtRest, Services
<1>30. CASE Unplug
  <2>1. call' \in [Families -> Status]
    BY <1>30 DEF Unplug, Status
  <2>9. hup' \in BOOLEAN /\ attached' \in BOOLEAN /\ reconf' \in BOOLEAN
    BY <1>30, Zenon DEF Unplug
  <2> QED BY <1>2, <1>30, <2>1, <2>9 DEF Unplug, Env, MainTypes, MainPlaces, Stopping, AtRest, Services
<1>31. CASE Reset
  <2>1. evq' \in Seq(EventNames) /\ (evq # <<>> => evq' # <<>>)
    BY <1>3, <1>7, <1>31 DEF Reset
  <2>2. call' \in [Families -> Status]
    BY <1>31 DEF Reset, Status
  <2>9. reconf' \in BOOLEAN
    BY <1>31, Zenon DEF Reset
  <2> QED BY <1>2, <1>31, <2>1, <2>2, <2>9 DEF Reset, Env, MainTypes, MainPlaces, Stopping, AtRest, Services
<1>32. CASE \E f \in Families : Suspend(f)
  <2>0. PICK f \in Families : Suspend(f)
    BY <1>32
  <2>1. evq' \in Seq(EventNames) /\ (evq # <<>> => evq' # <<>>)
    BY <1>3, <1>7, <2>0 DEF Suspend
  <2>2. call' \in [Families -> Status]
    BY <2>0 DEF Suspend, MainTypes, Status
  <2>9. clean' \in BOOLEAN
    BY <2>0, Zenon DEF Suspend
  <2> QED BY <1>2, <2>0, <2>1, <2>2, <2>9 DEF Suspend, Env, MainTypes, MainPlaces, Stopping, AtRest,
         Services
<1>33. CASE \E d \in BOOLEAN : DropCalls(d)
  <2>0. PICK d \in BOOLEAN : DropCalls(d)
    BY <1>33
  <2>1. evq' \in Seq(EventNames) /\ (evq # <<>> => evq' # <<>>)
    BY <1>3, <1>7, <2>0 DEF DropCalls
  <2>2. call' \in [Families -> Status]
    BY <2>0 DEF DropCalls, Status
  <2>3. attached' = (attached /\ ~d)
    BY <2>0 DEF DropCalls
  <2>4. attached' \in BOOLEAN
    BY <2>3, Zenon
  <2> QED BY <1>2, <2>0, <2>1, <2>2, <2>3, <2>4 DEF DropCalls, Env, MainTypes, MainPlaces, Stopping, AtRest,
         Services
<1>34. CASE \E x \in late : RunLate(x)
  <2>0. PICK x \in late : RunLate(x)
    BY <1>34
  <2>1. evq' \in Seq(EventNames) /\ (evq # <<>> => evq' # <<>>)
    BY <1>3, <1>7, <2>0 DEF RunLate
  <2>2. call' \in [Families -> Status]
    BY <2>0 DEF RunLate, MainTypes, Status
  <2> QED BY <2>0, <2>1, <2>2 DEF RunLate, MainTypes, MainPlaces, Stopping, AtRest, Services
<1>35. CASE Replug
  <2>9. hup' \in BOOLEAN
    BY <1>35, Zenon DEF Replug
  <2> QED BY <1>35, <2>9 DEF Replug, MainTypes, MainPlaces, Stopping, AtRest, Services
<1>36. CASE UNCHANGED vars
  BY <1>36 DEF vars, MainTypes, MainPlaces, Stopping, AtRest, Services
<1> QED BY <1>8, <1>9, <1>10, <1>11, <1>12, <1>13, <1>14, <1>15, <1>16, <1>17, <1>18, <1>19, <1>20, <1>21,
       <1>22, <1>23, <1>24, <1>25, <1>26, <1>27, <1>28, <1>29, <1>30, <1>31, <1>32, <1>33, <1>34, <1>35,
       <1>36 DEF ReaderStep, Clock, ModemStep

\* Every step keeps the types.
LEMMA StepsKeepTypes ==
  ASSUME MainTypes, [Next]_vars
  PROVE  MainTypes'
<1>1. ASSUME NEW o \in Outcomes, Request(o) PROVE MainTypes'
  BY <1>1, RequestsKeepTypes
<1>2. CASE Next
  BY <1>1, <1>2, PlainStepsKeepTypes DEF Next, MainStep, Ended
<1>3. CASE UNCHANGED vars
  BY <1>3, PlainStepsKeepTypes
<1> QED BY <1>2, <1>3

-----------------------------------------------------------------------------
(* The main loop: rounds *)

\* What no request does: it touches neither the reader nor the events, adds no
\* SIG_EVENT_STOP, gives out no client id and enters neither the stop nor the
\* end of a round; it dials only a modem in which the manager has a client.
LEMMA RequestsFrame ==
  ASSUME MainTypes, NEW o \in Outcomes, Request(o)
  PROVE  /\ UNCHANGED <<Families, ops, hup, evq, gStay, reader, quitSent, nstop>>
         /\ sigq' = sigq \/ sigq' = Append(sigq, "CHECK") \/ sigq' = Append(sigq, "START")
         /\ held' \subseteq held
         /\ clean' => clean
         /\ pc \notin AtRest /\ pc' \notin AtRest
         /\ pc' \in Stopping => pc \in Stopping
         /\ NoCalls => NoCalls' \/ held # {}
<1> USE DEF hostVars, timeVars, queueVars, netVars, modeVars, procVars, modemVars, NoCalls, Stopping, AtRest
<1>1. \A s : Ask(s, o) => (clean' => clean)
  BY AskDoes
<1>2. UNCHANGED askVars => (clean' => clean)
  BY DEF askVars
<1>3. Registered(o) => Ask("nas", o)
  BY DEF Registered, requestRegistrationState1, requestRegistrationState2
<1>4. \A f : Ask(Wds(f), o) /\ o = "ok" => held # {}
  <2>1. \A s : Ask(s, "ok") => s = "ctl" \/ s \in held
    BY DEF Ask, Revoked
  <2> QED BY <2>1 DEF Wds
<1>5. \A f : Deactivate(f, o) /\ Families' = Families => (clean' => clean) /\ (NoCalls => NoCalls')
  <2>1. ASSUME NEW f, Deactivate(f, o) PROVE clean' => clean
    BY <1>1, <1>2, <2>1 DEF Deactivate
  <2>2. ASSUME NEW f, Deactivate(f, o), NoCalls, Families' = Families PROVE NoCalls'
    BY <2>2 DEF Deactivate
  <2> QED BY <2>1, <2>2
<1>6. CASE requestSetEthMode(o)
  BY <1>1, <1>2, <1>6 DEF requestSetEthMode
<1>7. CASE requestGetSIMStatus(o)
  BY <1>1, <1>7 DEF requestGetSIMStatus
<1>8. CASE requestEnterSimPin(o)
  BY <1>1, <1>8 DEF requestEnterSimPin
<1>9. CASE requestGetProfile(o)
  BY <1>1, <1>2, <1>9 DEF requestGetProfile
<1>10. CASE requestSetProfile(o)
  BY <1>1, <1>2, <1>10 DEF requestSetProfile
<1>11. CASE Register0(o)
  BY <1>1, <1>3, <1>11 DEF Register0
<1>12. CASE NetworkChanged(o)
  BY <1>1, <1>3, <1>12 DEF NetworkChanged
<1>13. CASE CheckRegister(o)
  BY <1>1, <1>3, <1>13 DEF CheckRegister
<1>14. CASE SetupV4(o)
  <2>1. CASE \E f, here, retry, address, next :
               /\ requestSetupDataCall(f, o, here, retry, address, next)
               /\ {here, retry, address, next} \cap (Stopping \cup AtRest) = {}
    <3>1. PICK f, here, retry, address, next :
            /\ requestSetupDataCall(f, o, here, retry, address, next)
            /\ here \notin Stopping \cup AtRest /\ retry \notin Stopping \cup AtRest
            /\ address \notin Stopping \cup AtRest /\ next \notin Stopping \cup AtRest
      BY <2>1
    <3>2. clean' => clean
      BY <1>1, <1>2, <3>1 DEF requestSetupDataCall
    <3>3. NoCalls => NoCalls' \/ held # {}
      BY <1>4, <3>1 DEF requestSetupDataCall, Refuses
    <3> QED BY <3>1, <3>2, <3>3 DEF requestSetupDataCall
  <2> QED BY <1>14, <2>1 DEF SetupV4, AfterV4
<1>15. CASE AddressV4(o)
  BY <1>1, <1>2, <1>15 DEF AddressV4, Address, AfterV4
<1>16. CASE SetupV6(o)
  <2>1. CASE \E f, here, retry, address, next :
               /\ requestSetupDataCall(f, o, here, retry, address, next)
               /\ {here, retry, address, next} \cap (Stopping \cup AtRest) = {}
    <3>1. PICK f, here, retry, address, next :
            /\ requestSetupDataCall(f, o, here, retry, address, next)
            /\ here \notin Stopping \cup AtRest /\ retry \notin Stopping \cup AtRest
            /\ address \notin Stopping \cup AtRest /\ next \notin Stopping \cup AtRest
      BY <2>1
    <3>2. clean' => clean
      BY <1>1, <1>2, <3>1 DEF requestSetupDataCall
    <3>3. NoCalls => NoCalls' \/ held # {}
      BY <1>4, <3>1 DEF requestSetupDataCall, Refuses
    <3> QED BY <3>1, <3>2, <3>3 DEF requestSetupDataCall
  <2>2. CASE ~\E f, here, retry, address, next :
               /\ requestSetupDataCall(f, o, here, retry, address, next)
               /\ {here, retry, address, next} \cap (Stopping \cup AtRest) = {}
    BY <1>2, <1>16, <2>2 DEF SetupV6
  <2> QED BY <2>1, <2>2
<1>17. CASE AddressV6(o)
  BY <1>1, <1>2, <1>17 DEF AddressV6
<1>18. CASE QueryV4(o)
  BY <1>1, <1>2, <1>18 DEF QueryV4
<1>19. CASE Learn(o)
  BY <1>1, <1>2, <1>19 DEF Learn, Address
<1>20. CASE check_ipv4_address(o)
  BY <1>1, <1>2, <1>20 DEF check_ipv4_address, Address
<1>21. CASE Hangup(o)
  BY <1>5, <1>21 DEF Hangup
<1>22. CASE QueryV6(o)
  BY <1>1, <1>2, <1>22 DEF QueryV6
<1>23. CASE StopCall("v4", o, "stop", "stop6")
  BY <1>5, <1>2, <1>23 DEF StopCall
<1>24. CASE StopCall("v6", o, "stop6", "stoplink")
  BY <1>5, <1>2, <1>24 DEF StopCall
<1>25. CASE \E s \in clients : ReleaseClient(s, o)
  BY <1>1, <1>25 DEF ReleaseClient, Released
<1> QED BY <1>6, <1>7, <1>8, <1>9, <1>10, <1>11, <1>12, <1>13, <1>14, <1>15, <1>16, <1>17, <1>18, <1>19,
       <1>20, <1>21, <1>22, <1>23, <1>24, <1>25 DEF Request


\* Every step keeps the rounds apart.
LEMMA StepsKeepRounds ==
  ASSUME MainTypes, RoundsApart, clean => late = {}, [Next]_vars
  PROVE  RoundsApart'
<1> USE DEF askVars, hostVars, timeVars, queueVars, netVars, modeVars, procVars, modemVars, RoundsApart, Lost
<1>1. /\ "START" \in SignalNames /\ "STOP" \in SignalNames /\ "CHECK" \in SignalNames
      /\ "DEVICE_DISCONNECTED" \in EventNames /\ "NETWORK_STATE_CHANGED" \in EventNames
      /\ "DATA_CALL_LIST_CHANGED" \in EventNames /\ "MODEM_REPORT_RESET" \in EventNames
      /\ sigq \in Seq(SignalNames) /\ evq \in Seq(EventNames)
      /\ pc = "signal" => sigq # <<>>
      /\ pc = "event" => evq # <<>>
  BY DEF SignalNames, EventNames, MainTypes
<1>2. /\ \A x \in SignalNames : \A y : Has(Append(sigq, x), y) <=> Has(sigq, y) \/ y = x
      /\ sigq # <<>> => Has(sigq, Head(sigq)) /\ \A y : Has(Tail(sigq), y) => Has(sigq, y)
  BY <1>1, QueueHas
<1>3. /\ \A x \in EventNames : \A y : Has(Append(evq, x), y) <=> Has(evq, y) \/ y = x
      /\ evq # <<>> => Has(evq, Head(evq)) /\ \A y : Has(Tail(evq), y) => Has(evq, y)
  BY <1>1, QueueHas
<1>4. /\ Has(Append(sigq, "CHECK"), "STOP") => Has(sigq, "STOP")
      /\ Has(Append(sigq, "START"), "STOP") => Has(sigq, "STOP")
  BY <1>2, <1>1
<1>5. \A y : ~Has(<<>>, y)
  BY <1>1, QueueHas
<1>6. ~Has(<<"CHECK">>, "STOP")
  BY DEF Has
<1>7. ASSUME NEW x \in EventNames, Tell(x)
      PROVE  \A y : Has(evq', y) => Has(evq, y) \/ y = x
  BY <1>3, <1>7 DEF Tell
<1>8. ASSUME NEW o \in Outcomes, Request(o) PROVE RoundsApart'
  <2>1. Lost => Lost'
    BY <1>8, RequestsFrame
  <2>2. Has(sigq', "STOP") => Has(sigq, "STOP")
    BY <1>8, <1>4, RequestsFrame
  <2>3. /\ UNCHANGED <<hup, evq, gStay, reader, quitSent>>
        /\ pc \notin AtRest /\ pc' \notin AtRest /\ (pc' \in Stopping => pc \in Stopping)
    BY <1>8, RequestsFrame
  <2> QED BY <2>1, <2>2, <2>3 DEF AtRest
<1>9. CASE BootFails
  BY <1>9 DEF BootFails, Stopping, AtRest, NoCalls
<1>10. CASE Boot
  BY <1>5, <1>10 DEF Boot, Stopping, AtRest, StayedIn, NoCalls
<1>11. CASE Poll
  BY <1>11 DEF Poll, Stopping, AtRest, NoCalls
<1>12. CASE PollTimeout
  BY <1>6, <1>12 DEF PollTimeout, Stopping, AtRest, NoCalls
<1>13. CASE ReadSignal
  BY <1>2, <1>1, <1>5, <1>13 DEF ReadSignal, Stopping, AtRest, Back, NoCalls
<1>14. CASE ReadEvent
  <2>1. (Lost => Lost') /\ UNCHANGED <<hup, reader>>
    BY <1>14 DEF ReadEvent, NoCalls
  <2>2. /\ Has(evq', "MODEM_REPORT_RESET") => Has(evq, "MODEM_REPORT_RESET")
        /\ Has(evq', "DEVICE_DISCONNECTED") => Has(evq, "DEVICE_DISCONNECTED") /\ UNCHANGED gStay
    BY <1>3, <1>1, <1>5, <1>14 DEF ReadEvent, Leaves
  <2>3. Has(sigq', "STOP") => Has(sigq, "STOP") /\ UNCHANGED gStay
    BY <1>4, <1>5, <1>14 DEF ReadEvent
  <2>4. /\ pc = "event" /\ pc' \in {"quit", "reregister", "loop"}
        /\ (gStay' /\ ~gStay) \/ (quitSent' /\ ~quitSent) => pc' = "quit"
        /\ gStay' = gStay \/ gStay' = TRUE
    BY <1>14 DEF ReadEvent
  <2> QED BY <1>14, <2>1, <2>2, <2>3, <2>4 DEF ReadEvent, Stopping, AtRest
<1>15. CASE SkipV4
  BY <1>15 DEF SkipV4, Stopping, AtRest, AfterV4, NoCalls
<1>16. CASE Backoff
  BY <1>16 DEF Backoff, Stopping, AtRest, Back, NoCalls
<1>17. CASE Settle
  BY <1>2, <1>1, <1>17 DEF Settle, Stopping, AtRest, Back, NoCalls
<1>18. CASE StopLink
  BY <1>18 DEF StopLink, Stopping, AtRest, NoCalls
<1>19. CASE DeInit
  BY <1>19 DEF DeInit, Stopping, AtRest, NoCalls
<1>20. CASE Quit
  BY <1>20 DEF Quit, Stopping, AtRest, NoCalls
<1>21. CASE Join
  BY <1>21 DEF Join, Stopping, AtRest, NoCalls
<1>22. CASE Again
  BY <1>22 DEF Again, Stopping, AtRest, NoCalls
<1>23. CASE ReaderLeaves
  BY <1>3, <1>1, <1>23 DEF ReaderLeaves, Stopping, AtRest, Listening, NoCalls
<1>24. CASE LeakedReaderQuits
  BY <1>24 DEF LeakedReaderQuits, Stopping, AtRest, NoCalls
<1>25. CASE AlarmFires
  BY <1>2, <1>1, <1>25 DEF AlarmFires, Stopping, AtRest, NoCalls
<1>26. CASE BackoffOver
  BY <1>26 DEF BackoffOver, Stopping, AtRest, NoCalls
<1>27. CASE Signal
  BY <1>2, <1>1, <1>27 DEF Signal, Stopping, AtRest, NoCalls
<1>28. CASE Attach
  <2>1. Lost => Lost'
    BY <1>28 DEF Attach, NoCalls
  <2>2. \A y : Has(evq', y) => Has(evq, y) \/ y = "NETWORK_STATE_CHANGED"
    BY <1>1, <1>7, <1>28 DEF Attach
  <2> QED BY <1>28, <2>1, <2>2 DEF Attach, Stopping, AtRest
<1>29. CASE NewAddress
  <2>1. Lost => Lost'
    BY <1>29 DEF NewAddress, Env, NoCalls
  <2>2. \A y : Has(evq', y) => Has(evq, y) \/ y = "DATA_CALL_LIST_CHANGED"
    BY <1>1, <1>7, <1>29 DEF NewAddress
  <2> QED BY <1>29, <2>1, <2>2 DEF NewAddress, Env
<1>30. CASE Reconfigure
  <2>1. Lost => Lost'
    BY <1>30 DEF Reconfigure, Env, NoCalls
  <2>2. \A y : Has(evq', y) => Has(evq, y) \/ y = "DATA_CALL_LIST_CHANGED"
    BY <1>1, <1>7, <1>30 DEF Reconfigure
  <2> QED BY <1>30, <2>1, <2>2 DEF Reconfigure, Env
<1>31. CASE Unplug
  <2>1. Lost'
    BY <1>31 DEF Unplug, Env, NoCalls
  <2> QED BY <1>31, <2>1 DEF Unplug, Env
<1>32. CASE Reset
  <2>1. Lost'
    BY <1>32 DEF Reset, Env, NoCalls
  <2>2. \A y : Has(evq', y) => Has(evq, y) \/ y = "MODEM_REPORT_RESET"
    BY <1>1, <1>7, <1>32 DEF Reset
  <2> QED BY <1>32, <2>1, <2>2 DEF Reset, Env
<1>33. CASE \E f \in Families : Suspend(f)
  <2>0. PICK f \in Families : Suspend(f)
    BY <1>33
  <2>1. Lost => Lost'
    BY <2>0 DEF Suspend, Env, NoCalls
  <2>2. \A y : Has(evq', y) => Has(evq, y) \/ y = "DATA_CALL_LIST_CHANGED"
    BY <1>1, <1>7, <2>0 DEF Suspend
  <2> QED BY <2>0, <2>1, <2>2 DEF Suspend, Env
<1>34. CASE \E d \in BOOLEAN : DropCalls(d)
  <2>0. PICK d \in BOOLEAN : DropCalls(d)
    BY <1>34
  <2>1. Lost => Lost'
    BY <2>0 DEF DropCalls, Env, NoCalls
  <2>2. \A y : Has(evq', y) => Has(evq, y) \/ y \in {"NETWORK_STATE_CHANGED", "DATA_CALL_LIST_CHANGED"}
    BY <1>1, <1>7, <2>0 DEF DropCalls
  <2> QED BY <2>0, <2>1, <2>2 DEF DropCalls, Env
<1>35. CASE \E x \in late : RunLate(x)
  <2>0. PICK x \in late : RunLate(x)
    BY <1>35
  <2>1. Lost => Lost'
    BY <2>0 DEF RunLate, NoCalls
  <2>2. \A y : Has(evq', y) => Has(evq, y) \/ y = "DATA_CALL_LIST_CHANGED"
    BY <1>1, <1>7, <2>0 DEF RunLate
  <2> QED BY <2>0, <2>1, <2>2 DEF RunLate
<1>36. CASE Replug
  BY <1>36 DEF Replug, NoCalls
<1>37. CASE UNCHANGED vars
  BY <1>37 DEF vars, NoCalls
<1> QED BY <1>8, <1>9, <1>10, <1>11, <1>12, <1>13, <1>14, <1>15, <1>16, <1>17, <1>18, <1>19, <1>20, <1>21,
       <1>22, <1>23, <1>24, <1>25, <1>26, <1>27, <1>28, <1>29, <1>30, <1>31, <1>32, <1>33, <1>34, <1>35,
       <1>36, <1>37 DEF Next, MainStep, ReaderStep, Clock, ModemStep, Ended


-----------------------------------------------------------------------------
(* The main loop: the calls of the modem *)

\* A request that leaves the manager clean was answered, or it is a call that
\* the modem refused.
LEMMA CleanRequests ==
  ASSUME MainTypes, NEW o \in Outcomes, Request(o), clean'
  PROVE  /\ clean
         /\ \/ o = "ok"
            \/ /\ pc \in {"setup", "setup_auth", "setup6"} /\ o = "err"
               /\ UNCHANGED <<call, handle, conn, late, held, reconf, clients, addr, link, iface>>
               /\ pc' \in {"setup_auth", "setup6", "backoff"}
<1> USE DEF hostVars, timeVars, queueVars, netVars, modeVars, procVars, modemVars
<1>1. \A s : Ask(s, o) => o = "ok"
  BY AskDoes
<1>2. clean
  BY RequestsFrame
<1>3. Registered(o) => Ask("nas", o)
  BY DEF Registered, requestRegistrationState1, requestRegistrationState2
<1>4. ASSUME NEW value, Address(o, value) PROVE o = "ok"
  BY <1>1, <1>4 DEF Address
<1>5. \A f : Deactivate(f, o) => o = "ok"
  BY <1>1 DEF Deactivate
<1>6. ASSUME NEW f, NEW here \in {"setup", "setup_auth", "setup6"},
             NEW retry \in {"setup_auth", "setup6", "backoff"},
             NEW next \in {"setup6", "backoff"}, NEW address,
             requestSetupDataCall(f, o, here, retry, address, next)
      PROVE  \/ o = "ok"
             \/ /\ pc \in {"setup", "setup_auth", "setup6"} /\ o = "err"
                /\ UNCHANGED <<call, handle, conn, late, held, reconf, clients, addr, link, iface>>
                /\ pc' \in {"setup_auth", "setup6", "backoff"}
  <2>1. CASE o = "ok"
    BY <2>1
  <2>2. CASE o # "ok"
    <3>1. o = "err"
      BY <1>1, <1>6, <2>2 DEF requestSetupDataCall
    <3>2. reconf' = (reconf /\ TRUE)
      BY <1>6, <3>1 DEF requestSetupDataCall
    <3>3. reconf' = reconf
      BY <3>2, Zenon DEF MainTypes
    <3>4. pc' \in {"setup_auth", "setup6", "backoff"}
      BY <1>6, <3>1 DEF requestSetupDataCall, Ret
    <3> QED BY <1>6, <3>1, <3>3, <3>4 DEF requestSetupDataCall, MayRunLate
  <2> QED BY <2>1, <2>2
<1>7. CASE SetupV4(o)
  BY <1>2, <1>6, <1>7 DEF SetupV4, AfterV4
<1>8. CASE SetupV6(o)
  BY <1>2, <1>6, <1>8 DEF SetupV6
<1>9. CASE ~SetupV4(o) /\ ~SetupV6(o)
  BY <1>1, <1>2, <1>3, <1>4, <1>5, <1>9 DEF Request, requestSetEthMode, requestGetSIMStatus,
     requestEnterSimPin, requestGetProfile, requestSetProfile, Register0, NetworkChanged, CheckRegister,
     AddressV4, AddressV6, QueryV4, Learn, check_ipv4_address, Hangup, QueryV6, StopCall, ReleaseClient
<1> QED BY <1>7, <1>8, <1>9


\* With what a request changes nothing of, it keeps the calls known.
LEMMA CallsCarry ==
  ASSUME CallsKnown,
         UNCHANGED <<Families, ops, conn, handle, call, held, clients, late, gStay>>,
         pc \notin {"address", "address6", "stop6", "stoplink", "deinit"} \cup AtRest,
         pc' \notin {"address", "address6", "stop6", "stoplink", "deinit"} \cup AtRest
  PROVE  CallsKnown'
BY DEF CallsKnown, NoCalls, Dialled, Mirrored, AddressOf, Stopping, AtRest

\* A request keeps the calls known: a call that is dialled gets its handle
\* before it is reported, one that is hung up loses both, and the stop leaves
\* none behind.
LEMMA RequestsKeepCalls ==
  ASSUME MainTypes, CallsKnown, StatusKnown, NEW o \in Outcomes, Request(o), clean'
  PROVE  CallsKnown'
<1> USE DEF hostVars, timeVars, queueVars, netVars, modeVars, procVars, modemVars
<1>1. /\ Families \subseteq {"v4", "v6"} /\ ops \in {"qmi", "mbim"}
      /\ conn \in [Families -> Status] /\ call \in [Families -> Status] /\ handle \in [Families -> BOOLEAN]
      /\ late = {} /\ ~reconf
      /\ \A f \in Families : call[f] \in {Down, Up}
  BY DEF MainTypes, CallsKnown, StatusKnown
<1>2. clean
  BY CleanRequests
<1>3. CASE o # "ok"
  BY <1>3, CleanRequests, CallsCarry, RequestsFrame DEF AtRest
<1>4. CASE requestSetEthMode(o)
  BY <1>4, CallsCarry DEF requestSetEthMode, AtRest
<1>5. CASE requestGetSIMStatus(o)
  BY <1>5, CallsCarry DEF requestGetSIMStatus, AtRest
<1>6. CASE requestEnterSimPin(o)
  BY <1>6, CallsCarry DEF requestEnterSimPin, AtRest
<1>7. CASE requestGetProfile(o)
  BY <1>7, CallsCarry DEF requestGetProfile, AtRest
<1>8. CASE requestSetProfile(o)
  BY <1>8, CallsCarry DEF requestSetProfile, AtRest
<1>9. CASE Register0(o)
  BY <1>9, CallsCarry DEF Register0, AtRest
<1>10. CASE NetworkChanged(o)
  BY <1>10, CallsCarry DEF NetworkChanged, AtRest
<1>11. CASE CheckRegister(o)
  BY <1>11, CallsCarry DEF CheckRegister, AtRest
<1>12. CASE check_ipv4_address(o)
  BY <1>12, CallsCarry DEF check_ipv4_address, AtRest
<1>13. ASSUME NEW f \in Families, NEW here \in {"setup", "setup_auth", "setup6"}, NEW retry, NEW next,
             requestSetupDataCall(f, o, here, retry, AddressOf(f), next), o = "ok", ~(f = "v6" /\ Mirrored)
      PROVE  CallsKnown'
  <2>1. /\ pc = here /\ pc' = AddressOf(f) /\ late' = late
        /\ call' = [g \in Families |-> IF g = f \/ ops = "mbim" THEN Up ELSE call[g]]
        /\ handle' = [handle EXCEPT ![f] = TRUE]
        /\ UNCHANGED <<Families, ops, conn, held, clients, gStay>>
    BY <1>13 DEF requestSetupDataCall, MayRunLate, KeepHandle, Ret
  <2>2. \A g \in Families : Dialled(g) => g = f \/ call'[g] = call[g]
    BY <1>1, <1>13, <2>1 DEF Dialled, Mirrored
  <2> QED BY <1>1, <1>13, <2>1, <2>2 DEF CallsKnown, NoCalls, Dialled, Mirrored, AddressOf, Stopping, AtRest
<1>14. CASE SetupV4(o) /\ o = "ok"
  <2>1. "v4" \in Families /\ AddressOf("v4") = "address"
    BY <1>14 DEF SetupV4, AddressOf
  <2> QED BY <1>13, <1>14, <2>1 DEF SetupV4
<1>15. CASE AddressV4(o) /\ o = "ok"
  <2>1. conn' = [conn EXCEPT !["v4"] = Up]
    BY <1>15 DEF AddressV4, Ret
  <2>2. /\ pc = "address" /\ pc' \in {"setup6", "backoff"} /\ "v4" \in Families
        /\ UNCHANGED <<Families, ops, handle, call, held, clients, late, gStay>>
    BY <1>15 DEF AddressV4, AfterV4, MainTypes
  <2> QED BY <1>1, <2>1, <2>2 DEF CallsKnown, NoCalls, Dialled, Mirrored, AddressOf, Stopping, AtRest
<1>16. CASE SetupV6(o) /\ o = "ok"
  <2>1. "v6" \in Families /\ AddressOf("v6") = "address6"
    BY <1>16 DEF SetupV6, requestSetupDataCall, MainTypes, AddressOf
  <2>2. CASE conn["v6"] # Up /\ ~Mirrored
    BY <1>13, <1>16, <2>1, <2>2 DEF SetupV6
  <2>3. CASE conn["v6"] = Up \/ Mirrored
    <3>1. /\ pc = "setup6" /\ pc' = "backoff"
          /\ conn' = conn \/ (Mirrored /\ conn' = [conn EXCEPT !["v6"] = conn["v4"]])
          /\ UNCHANGED <<Families, ops, handle, call, held, clients, late, gStay>>
      BY <1>16, <2>3 DEF SetupV6
    <3> QED BY <1>1, <2>1, <2>3, <3>1 DEF CallsKnown, NoCalls, Dialled, Mirrored, AddressOf, Stopping,
           AtRest
  <2> QED BY <2>2, <2>3
<1>17. CASE AddressV6(o) /\ o = "ok"
  <2>1. conn' = [conn EXCEPT !["v6"] = Up]
    BY <1>17 DEF AddressV6, Ret
  <2>2. /\ pc = "address6" /\ pc' = "backoff" /\ "v6" \in Families
        /\ UNCHANGED <<Families, ops, handle, call, held, clients, late, gStay>>
    BY <1>17 DEF AddressV6, MainTypes
  <2> QED BY <1>1, <2>1, <2>2 DEF CallsKnown, NoCalls, Dialled, Mirrored, AddressOf, Stopping, AtRest
<1>18. o = "ok" => \A f : Queried(f, o) = call[f]
  BY <1>1 DEF Queried
<1>19. CASE QueryV4(o) /\ o = "ok"
  <2>1. /\ pc = "query" /\ pc' \in {"learn", "compare", "query6"}
        /\ UNCHANGED <<Families, ops, call, held, clients, late, gStay>>
    BY <1>19 DEF QueryV4
  <2>2. CASE "v4" \in Families /\ conn["v4"] # Down
    <3>1. /\ conn' = [conn EXCEPT !["v4"] = call["v4"]]
          /\ handle' = IF call["v4"] = Down THEN [handle EXCEPT !["v4"] = FALSE] ELSE handle
      BY <1>18, <1>19, <2>2 DEF QueryV4, Forget, Ret
    <3> QED BY <1>1, <2>1, <2>2, <3>1 DEF CallsKnown, NoCalls, Dialled, Mirrored, AddressOf, Stopping,
           AtRest
  <2>3. CASE ~("v4" \in Families /\ conn["v4"] # Down)
    BY <1>19, <2>1, <2>3, CallsCarry DEF QueryV4, AtRest
  <2> QED BY <2>2, <2>3
<1>20. CASE Learn(o) /\ o = "ok"
  <2>1. conn' = conn
    BY <1>20 DEF Learn, Ret
  <2> QED BY <1>20, <2>1, CallsCarry DEF Learn, AtRest
<1>21. ASSUME NEW f \in Families, Deactivate(f, o), o = "ok"
      PROVE  /\ late' = late
             /\ \/ ops = "qmi" /\ ~handle[f] /\ UNCHANGED <<handle, call>>
                \/ /\ handle' = [handle EXCEPT ![f] = FALSE]
                   /\ call' = [g \in Families |-> IF g = f \/ ops = "mbim" THEN Down ELSE call[g]]
  BY <1>21 DEF Deactivate, MayRunLate
<1>22. CASE Hangup(o) /\ o = "ok"
  <2>1. /\ pc = "hangup" /\ pc' = "query6" /\ "v4" \in Families
        /\ conn' = [conn EXCEPT !["v4"] = Down] /\ Deactivate("v4", o)
        /\ UNCHANGED <<Families, ops, held, clients, gStay>>
    BY <1>22 DEF Hangup, MainTypes
  <2>2. ops = "qmi" => handle["v4"]
    BY <2>1 DEF CallsKnown, StatusKnown, Stopping, AtRest
  <2>3. /\ late' = late /\ handle' = [handle EXCEPT !["v4"] = FALSE]
        /\ call' = [g \in Families |-> IF g = "v4" \/ ops = "mbim" THEN Down ELSE call[g]]
    BY <1>21, <1>22, <2>1, <2>2
  <2>4. CASE ops = "qmi"
    <3>1. \A f \in Families :
            \/ f = "v4" /\ call'[f] = Down /\ conn'[f] = Down
            \/ f = "v6" /\ call'[f] = call[f] /\ conn'[f] = conn[f] /\ handle'[f] = handle[f]
      BY <1>1, <2>1, <2>3, <2>4
    <3>2. \A f \in Families : call'[f] \in {Down, Up}
      BY <1>1, <3>1
    <3> QED BY <1>1, <2>1, <2>3, <2>4, <3>1, <3>2 DEF CallsKnown, NoCalls, Dialled, Mirrored, AddressOf,
           Stopping, AtRest, Up, Down
  <2>5. CASE ops = "mbim"
    <3>1. \A f \in Families : call'[f] = Down
      BY <2>3, <2>5
    <3> QED BY <1>1, <2>1, <2>3, <2>5, <3>1 DEF CallsKnown, NoCalls, Dialled, Mirrored, AddressOf, Stopping,
           AtRest, Up, Down
  <2> QED BY <1>1, <2>4, <2>5
<1>23. CASE QueryV6(o) /\ o = "ok"
  <2>1. /\ pc = "query6" /\ pc' = "settle"
        /\ UNCHANGED <<Families, ops, call, held, clients, late, gStay>>
    BY <1>23 DEF QueryV6
  <2>2. CASE "v6" \in Families /\ conn["v6"] # Down /\ ~Mirrored
    <3>1. /\ conn' = [conn EXCEPT !["v6"] = call["v6"]]
          /\ handle' = IF call["v6"] = Down THEN [handle EXCEPT !["v6"] = FALSE] ELSE handle
      BY <1>18, <1>23, <2>2 DEF QueryV6, Forget
    <3> QED BY <1>1, <2>1, <2>2, <3>1 DEF CallsKnown, NoCalls, Dialled, Mirrored, AddressOf, Stopping,
           AtRest
  <2>3. CASE ~("v6" \in Families /\ conn["v6"] # Down /\ ~Mirrored)
    <3>1. /\ handle' = handle
          /\ conn' = conn \/ (Mirrored /\ "v6" \in Families /\ conn' = [conn EXCEPT !["v6"] = conn["v4"]])
      BY <1>23, <2>3 DEF QueryV6
    <3> QED BY <1>1, <2>1, <2>3, <3>1 DEF CallsKnown, NoCalls, Dialled, Mirrored, AddressOf, Stopping,
           AtRest
  <2> QED BY <2>2, <2>3
<1>24. CASE StopCall("v4", o, "stop", "stop6") /\ o = "ok"
  <2>1. /\ pc = "stop" /\ pc' = "stop6" /\ UNCHANGED <<Families, ops, conn, held, clients, gStay>>
    BY <1>24 DEF StopCall
  <2>2. CASE HangsUp("v4")
    <3>1. "v4" \in Families /\ conn["v4"] = Up /\ Deactivate("v4", o)
      BY <1>24, <2>2 DEF StopCall, HangsUp
    <3>2. ops = "qmi" => handle["v4"]
      BY <2>1, <3>1 DEF CallsKnown, Stopping, AtRest
    <3>3. /\ late' = late /\ handle' = [handle EXCEPT !["v4"] = FALSE]
          /\ call' = [g \in Families |-> IF g = "v4" \/ ops = "mbim" THEN Down ELSE call[g]]
      BY <1>21, <1>24, <3>1, <3>2
    <3>4. CASE ops = "qmi"
      <4>1. \A f \in Families :
              \/ f = "v4" /\ call'[f] = Down
              \/ f = "v6" /\ call'[f] = call[f] /\ handle'[f] = handle[f]
        BY <1>1, <2>1, <3>3, <3>4
      <4>2. \A f \in Families : call'[f] \in {Down, Up}
        BY <1>1, <4>1
      <4> QED BY <1>1, <2>1, <3>1, <3>3, <3>4, <4>1, <4>2 DEF CallsKnown, NoCalls, Dialled, Mirrored,
             AddressOf, Stopping, AtRest, Up, Down
    <3>5. CASE ops = "mbim"
      <4>1. \A f \in Families : call'[f] = Down
        BY <3>3, <3>5
      <4> QED BY <1>1, <2>1, <3>1, <3>3, <3>5, <4>1 DEF CallsKnown, NoCalls, Dialled, Mirrored, AddressOf,
             Stopping, AtRest, Up, Down
    <3> QED BY <1>1, <3>4, <3>5
  <2>3. CASE ~HangsUp("v4")
    <3>1. UNCHANGED <<handle, call, late>> /\ ("v4" \in Families => conn["v4"] # Up)
      BY <1>24, <2>3 DEF StopCall, HangsUp
    <3> QED BY <1>1, <2>1, <3>1 DEF CallsKnown, NoCalls, Dialled, Mirrored, AddressOf, Stopping, AtRest
  <2> QED BY <2>2, <2>3
<1>25. CASE StopCall("v6", o, "stop6", "stoplink") /\ o = "ok"
  <2>1. /\ pc = "stop6" /\ pc' = "stoplink" /\ UNCHANGED <<Families, ops, conn, held, clients, gStay>>
    BY <1>25 DEF StopCall
  <2>2. CASE HangsUp("v6")
    <3>1. "v6" \in Families /\ conn["v6"] = Up /\ Deactivate("v6", o) /\ ~Mirrored
      BY <1>25, <2>2 DEF StopCall, HangsUp
    <3>2. NoCalls' /\ late' = late
      BY <1>1, <1>21, <1>25, <2>1, <3>1 DEF CallsKnown, NoCalls, Dialled, Mirrored, AddressOf, Stopping,
         AtRest
    <3>3. \A f \in Families : call'[f] = Down /\ call'[f] \in {Down, Up} /\ call'[f] # Up
      BY <2>1, <3>2 DEF NoCalls, Down, Up
    <3> QED BY <1>1, <2>1, <3>2, <3>3 DEF CallsKnown, Dialled, Mirrored, AddressOf, Stopping, AtRest
  <2>3. CASE ~HangsUp("v6")
    <3>1. UNCHANGED <<handle, call, late>> /\ ("v6" \in Families => conn["v6"] # Up \/ Mirrored)
      BY <1>25, <2>3 DEF StopCall, HangsUp
    <3>2. NoCalls
      BY <1>1, <2>1, <3>1 DEF CallsKnown, NoCalls, Dialled, Mirrored, AddressOf, Stopping, AtRest
    <3> QED BY <1>1, <2>1, <3>1, <3>2 DEF CallsKnown, NoCalls, Dialled, Mirrored, AddressOf, Stopping,
           AtRest
  <2> QED BY <2>2, <2>3
<1>26. CASE (\E s \in clients : ReleaseClient(s, o)) /\ o = "ok"
  <2>1. PICK s \in clients : ReleaseClient(s, o)
    BY <1>26
  <2>2. /\ pc = "deinit" /\ UNCHANGED <<pc, Families, ops, conn, handle, call, late, gStay>>
    BY <2>1 DEF ReleaseClient
  <2>3. held \subseteq clients \cup {"wds6"}
    BY DEF CallsKnown
  <2>4. held' \subseteq clients' \cup {"wds6"}
    <3>1. /\ clients' = IF ops = "qmi" THEN clients \ {s} ELSE {}
          /\ held' = IF ops = "mbim" THEN {} ELSE held \ Released(s)
      BY <1>26, <2>1 DEF ReleaseClient
    <3>2. CASE ops = "qmi"
      BY <2>3, <3>1, <3>2 DEF Released
    <3> QED BY <1>1, <3>1, <3>2
  <2> QED BY <1>1, <2>2, <2>4 DEF CallsKnown, NoCalls, Dialled, Mirrored, AddressOf, Stopping, AtRest
<1> QED BY <1>3, <1>4, <1>5, <1>6, <1>7, <1>8, <1>9, <1>10, <1>11, <1>12, <1>14, <1>15, <1>16, <1>17, <1>19,
       <1>20, <1>22, <1>23, <1>24, <1>25, <1>26 DEF Request


\* The other steps keep the calls known: a new round starts only on a modem
\* that has no call, because it was lost with the device or the reset.
LEMMA PlainStepsKeepCalls ==
  ASSUME MainTypes, RoundsApart, CallsKnown, clean, clean',
         \/ BootFails \/ Boot \/ Poll \/ PollTimeout \/ ReadSignal \/ ReadEvent \/ SkipV4 \/ Backoff
         \/ Settle \/ StopLink \/ DeInit \/ Quit \/ Join \/ Again
         \/ ReaderStep \/ Clock \/ Signal \/ ModemStep \/ Replug \/ UNCHANGED vars
  PROVE  CallsKnown'
<1> USE DEF askVars, hostVars, timeVars, queueVars, netVars, modeVars, procVars, modemVars
<1>1. late = {} /\ call \in [Families -> Status] /\ Up # Down /\ Unknow # Up
  BY DEF CallsKnown, MainTypes, Up, Down, Unknow
<1>2. ASSUME UNCHANGED <<pc, Families, ops, conn, handle, held, clients, late, call>>, gStay' => gStay
      PROVE  CallsKnown'
  BY <1>2 DEF CallsKnown, NoCalls, Dialled, Mirrored, AddressOf
<1>3. ASSUME UNCHANGED <<pc, Families, ops, conn, handle, clients, gStay>>,
             held' \subseteq held, late' = {}, call' = [f \in Families |-> Down]
      PROVE  CallsKnown'
  BY <1>1, <1>3 DEF CallsKnown, NoCalls, Dialled, Mirrored, AddressOf
<1>4. evq # <<>> => Has(evq, Head(evq))
  <2>1. evq \in Seq(EventNames) /\ "DEVICE_DISCONNECTED" \in EventNames
    BY DEF MainTypes, EventNames
  <2> QED BY <2>1, QueueHas
<1>5. CASE BootFails
  BY <1>5 DEF BootFails, CallsKnown, NoCalls, Dialled, Mirrored, AddressOf, Stopping, AtRest
<1>6. CASE Boot
  <2>1. /\ pc = "boot" /\ pc' = "ethmode" /\ conn' = [f \in Families |-> Unknow]
        /\ held' \subseteq clients' /\ UNCHANGED <<Families, ops, handle, call, late, gStay>>
    BY <1>6 DEF Boot, StayedIn
  <2>2. \A f \in Families : call[f] = Down
    BY <2>1 DEF CallsKnown, NoCalls
  <2> QED BY <1>1, <2>1, <2>2 DEF CallsKnown, NoCalls, Dialled, Mirrored, AddressOf, Stopping, AtRest
<1>7. CASE Poll
  BY <1>7, CallsCarry DEF Poll, AtRest
<1>8. CASE PollTimeout
  BY <1>8, CallsCarry DEF PollTimeout, AtRest
<1>9. CASE ReadSignal
  <2>1. pc = "signal" /\ pc' \in {"event", "loop", "setup", "query", "register", "stop"}
    BY <1>9 DEF ReadSignal, Back
  <2> QED BY <1>9, <2>1, CallsCarry DEF ReadSignal, AtRest
<1>10. CASE ReadEvent
  <2>1. /\ pc = "event" /\ pc' \in {"quit", "reregister", "loop"}
        /\ UNCHANGED <<Families, ops, conn, handle, held, clients, late, call>>
    BY <1>10 DEF ReadEvent
  <2>2. CASE pc' # "quit"
    BY <1>10, <2>1, <2>2, CallsCarry DEF ReadEvent, AtRest
  <2>3. CASE pc' = "quit"
    <3>1. gStay' => Lost
      BY <1>4, <1>10, <2>3 DEF ReadEvent, RoundsApart, MainTypes
    <3>2. gStay' => NoCalls
      BY <3>1 DEF Lost
    <3> QED BY <2>1, <2>3, <3>2 DEF CallsKnown, NoCalls, Dialled, Mirrored, AddressOf, Stopping, AtRest
  <2> QED BY <2>2, <2>3
<1>11. CASE SkipV4
  <2>1. pc = "setup" /\ pc' \in {"setup6", "backoff"}
    BY <1>11 DEF SkipV4, AfterV4
  <2> QED BY <1>11, <2>1, CallsCarry DEF SkipV4, AtRest
<1>12. CASE Backoff
  BY <1>12, CallsCarry DEF Backoff, Back, AtRest
<1>13. CASE Settle
  BY <1>13, CallsCarry DEF Settle, Back, AtRest
<1>14. CASE StopLink
  BY <1>14 DEF StopLink, CallsKnown, NoCalls, Dialled, Mirrored, AddressOf, Stopping, AtRest
<1>15. CASE DeInit
  BY <1>15 DEF DeInit, CallsKnown, NoCalls, Dialled, Mirrored, AddressOf, Stopping, AtRest
<1>16. CASE Quit
  BY <1>16 DEF Quit, CallsKnown, NoCalls, Dialled, Mirrored, AddressOf, Stopping, AtRest
<1>17. CASE Join
  BY <1>17 DEF Join, CallsKnown, NoCalls, Dialled, Mirrored, AddressOf, Stopping, AtRest
<1>18. CASE Again
  BY <1>18 DEF Again, CallsKnown, NoCalls, Dialled, Mirrored, AddressOf, Stopping, AtRest
<1>19. CASE ReaderLeaves
  BY <1>2, <1>19 DEF ReaderLeaves
<1>20. CASE LeakedReaderQuits
  BY <1>2, <1>20 DEF LeakedReaderQuits
<1>21. CASE AlarmFires
  BY <1>2, <1>21 DEF AlarmFires
<1>22. CASE BackoffOver
  BY <1>2, <1>22 DEF BackoffOver
<1>23. CASE Signal
  BY <1>2, <1>23 DEF Signal
<1>24. CASE Attach
  BY <1>2, <1>24 DEF Attach
<1>25. CASE NewAddress
  BY <1>2, <1>25 DEF NewAddress, Env
<1>26. CASE Reconfigure
  BY <1>26, Zenon DEF Reconfigure
<1>27. CASE Unplug
  BY <1>3, <1>27 DEF Unplug, Env
<1>28. CASE Reset
  BY <1>3, <1>28 DEF Reset, Env
<1>29. CASE \E f \in Families : Suspend(f)
  BY <1>29, Zenon DEF Suspend
<1>30. CASE \E d \in BOOLEAN : DropCalls(d)
  BY <1>1, <1>3, <1>30 DEF DropCalls, Env
<1>31. CASE \E x \in late : RunLate(x)
  BY <1>1, <1>31
<1>32. CASE Replug
  BY <1>2, <1>32 DEF Replug
<1>33. CASE UNCHANGED vars
  BY <1>2, <1>33 DEF vars
<1> QED BY <1>5, <1>6, <1>7, <1>8, <1>9, <1>10, <1>11, <1>12, <1>13, <1>14, <1>15, <1>16, <1>17, <1>18,
       <1>19, <1>20, <1>21, <1>22, <1>23, <1>24, <1>25, <1>26, <1>27, <1>28, <1>29, <1>30, <1>31, <1>32,
       <1>33 DEF ReaderStep, Clock, ModemStep


-----------------------------------------------------------------------------
(* The main loop: the status *)

\* With what a step changes nothing of, it keeps the status known.
LEMMA StatusCarry ==
  ASSUME StatusKnown,
         UNCHANGED <<Families, conn, addr, reconf>>,
         pc \notin {"hangup", "query6", "settle"} \cup Stopping \cup AtRest,
         pc' \notin {"setup_auth", "address", "learn", "compare", "query6", "settle", "hangup",
                     "boot"}
  PROVE  StatusKnown'
BY DEF StatusKnown

\* A request keeps the status known: an address that changed, or a call that
\* went, is taken back before the loop waits again.
LEMMA RequestsKeepStatus ==
  ASSUME MainTypes, CallsKnown, StatusKnown, NEW o \in Outcomes, Request(o), clean'
  PROVE  StatusKnown'
<1> USE DEF hostVars, timeVars, queueVars, netVars, modeVars, procVars, modemVars
<1>1. /\ Families \subseteq {"v4", "v6"} /\ ops \in {"qmi", "mbim"}
      /\ conn \in [Families -> Status] /\ call \in [Families -> Status] /\ handle \in [Families -> BOOLEAN]
      /\ reconf \in BOOLEAN /\ ~reconf
      /\ \A f \in Families : call[f] \in {Down, Up}
      /\ Up # Down /\ Unknow # Up /\ Unknow # Down
  BY DEF MainTypes, CallsKnown, StatusKnown, Up, Down, Unknow
<1>2. CASE o # "ok"
  <2>1. /\ pc \in {"setup", "setup_auth", "setup6"} /\ pc' \in {"setup_auth", "setup6", "backoff"}
        /\ UNCHANGED <<Families, conn, addr, reconf>>
    BY <1>2, CleanRequests, RequestsFrame
  <2>2. pc' = "setup_auth" => "v4" \in Families /\ conn["v4"] # Up
    <3>1. o = "err"
      BY <1>2, CleanRequests
    <3>2. SetupV4(o) \/ SetupV6(o)
      BY <2>1 DEF Request, requestSetEthMode, requestGetSIMStatus, requestEnterSimPin, requestGetProfile,
         requestSetProfile, Register0, NetworkChanged, CheckRegister, AddressV4, AddressV6, QueryV4, Learn,
         check_ipv4_address, Hangup, QueryV6, StopCall, ReleaseClient
    <3>3. SetupV6(o) => pc' = "backoff"
      BY <3>1 DEF SetupV6, requestSetupDataCall, Ret
    <3> QED BY <3>2, <3>3 DEF SetupV4
  <2> QED BY <2>1, <2>2 DEF StatusKnown, Stopping, AtRest
<1>3. CASE requestSetEthMode(o)
  BY <1>3, StatusCarry DEF requestSetEthMode, Stopping, AtRest
<1>4. CASE requestGetSIMStatus(o)
  BY <1>4, StatusCarry DEF requestGetSIMStatus, Stopping, AtRest
<1>5. CASE requestEnterSimPin(o)
  BY <1>5, StatusCarry DEF requestEnterSimPin, Stopping, AtRest
<1>6. CASE requestGetProfile(o)
  BY <1>6, StatusCarry DEF requestGetProfile, Stopping, AtRest
<1>7. CASE requestSetProfile(o)
  BY <1>7, StatusCarry DEF requestSetProfile, Stopping, AtRest
<1>8. CASE Register0(o)
  BY <1>8, StatusCarry DEF Register0, Stopping, AtRest
<1>9. CASE NetworkChanged(o)
  BY <1>9, StatusCarry DEF NetworkChanged, Stopping, AtRest
<1>10. CASE CheckRegister(o)
  BY <1>10, StatusCarry DEF CheckRegister, Stopping, AtRest
<1>11. ASSUME o = "ok", NEW value, Address(o, value), "v4" \in Families, ops = "qmi" => handle["v4"]
      PROVE  value = ip /\ value # 0
  BY <1>1, <1>11 DEF Address, MainTypes
<1>12. CASE SetupV4(o) /\ o = "ok"
  <2>1. /\ "v4" \in Families /\ conn["v4"] # Up /\ pc \in {"setup", "setup_auth"} /\ pc' = "address"
        /\ UNCHANGED <<Families, conn, addr>> /\ reconf' = FALSE
    BY <1>1, <1>12 DEF SetupV4, requestSetupDataCall, Ret
  <2> QED BY <2>1 DEF StatusKnown, Stopping, AtRest
<1>13. CASE AddressV4(o) /\ o = "ok"
  <2>1. conn' = [conn EXCEPT !["v4"] = Up]
    BY <1>13 DEF AddressV4, Ret
  <2>2. /\ pc = "address" /\ pc' \in {"setup6", "backoff"} /\ "v4" \in Families
        /\ UNCHANGED <<Families, reconf>>
    BY <1>13 DEF AddressV4, AfterV4, MainTypes
  <2>3. ops = "qmi" => handle["v4"]
    BY <2>2 DEF CallsKnown, AddressOf, Stopping, AtRest
  <2>4. addr' # 0
    BY <1>11, <1>13, <2>2, <2>3 DEF AddressV4
  <2> QED BY <1>1, <2>1, <2>2, <2>4 DEF StatusKnown, Stopping, AtRest
<1>14. CASE SetupV6(o) /\ o = "ok"
  <2>1. "v6" \in Families
    BY <1>14 DEF SetupV6, requestSetupDataCall, MainTypes
  <2>2. /\ pc = "setup6" /\ pc' \in {"address6", "backoff"}
        /\ UNCHANGED <<Families, addr>> /\ reconf' = FALSE
    <3>1. CASE requestSetupDataCall("v6", o, "setup6", "backoff", "address6", "backoff")
      BY <1>1, <1>14, <3>1 DEF requestSetupDataCall, Ret
    <3> QED BY <1>1, <1>14, <3>1 DEF SetupV6
  <2>3. "v4" \in Families => conn'["v4"] = conn["v4"]
    BY <1>1, <1>14, <2>1 DEF SetupV6, requestSetupDataCall
  <2> QED BY <1>1, <2>2, <2>3 DEF StatusKnown, Stopping, AtRest
<1>15. CASE AddressV6(o) /\ o = "ok"
  <2>1. /\ pc = "address6" /\ pc' = "backoff" /\ "v6" \in Families
        /\ UNCHANGED <<Families, addr, reconf>>
        /\ conn' = [conn EXCEPT !["v6"] = Up]
    BY <1>15 DEF AddressV6, Ret, MainTypes
  <2>2. "v4" \in Families => conn'["v4"] = conn["v4"]
    BY <1>1, <2>1
  <2> QED BY <1>1, <2>1, <2>2 DEF StatusKnown, Stopping, AtRest
<1>16. o = "ok" => \A f : Queried(f, o) = call[f]
  BY <1>1 DEF Queried
<1>17. CASE QueryV4(o) /\ o = "ok"
  <2>1. pc = "query" /\ UNCHANGED <<Families, addr, reconf>>
    BY <1>17 DEF QueryV4
  <2>2. CASE "v4" \in Families /\ conn["v4"] # Down
    <3>1. /\ conn' = [conn EXCEPT !["v4"] = call["v4"]] /\ conn'["v4"] = call["v4"]
          /\ pc' = IF call["v4"] = Up THEN (IF addr = 0 THEN "learn" ELSE "compare") ELSE "query6"
      BY <1>1, <1>16, <1>17, <2>2 DEF QueryV4, Ret
    <3>2. call["v4"] = Up => conn["v4"] = Up
      BY <2>1, <2>2 DEF CallsKnown, Dialled, AddressOf
    <3>3. conn["v4"] = Up => addr # 0
      BY <2>1, <2>2 DEF StatusKnown, Stopping, AtRest
    <3> QED BY <1>1, <2>1, <2>2, <3>1, <3>2, <3>3 DEF StatusKnown, Stopping, AtRest
  <2>3. CASE ~("v4" \in Families /\ conn["v4"] # Down)
    <3>1. conn' = conn /\ pc' = "query6"
      BY <1>17, <2>3 DEF QueryV4
    <3> QED BY <1>1, <2>1, <2>3, <3>1 DEF StatusKnown, Stopping, AtRest
  <2> QED BY <2>2, <2>3
<1>18. ~Learn(o)
  BY DEF Learn, StatusKnown
<1>19. CASE check_ipv4_address(o) /\ o = "ok"
  <2>1. /\ pc = "compare" /\ "v4" \in Families /\ conn["v4"] = Up
        /\ UNCHANGED <<Families, conn, reconf>>
    BY <1>19 DEF check_ipv4_address, MainTypes, StatusKnown
  <2>2. ops = "qmi" => handle["v4"]
    BY <2>1 DEF CallsKnown, Stopping, AtRest
  <2>3. addr # 0
    BY <2>1 DEF StatusKnown, Stopping, AtRest
  <2>4. addr' # 0 /\ ((pc' = "query6" /\ addr' = addr) \/ pc' = "hangup")
    BY <1>11, <1>19, <2>1, <2>2, <2>3 DEF check_ipv4_address, SameAddress
  <2> QED BY <1>1, <2>1, <2>4 DEF StatusKnown, Stopping, AtRest
<1>20. CASE Hangup(o) /\ o = "ok"
  <2>1. /\ pc = "hangup" /\ pc' = "query6" /\ "v4" \in Families
        /\ conn' = [conn EXCEPT !["v4"] = Down] /\ UNCHANGED <<Families, addr, reconf>>
    BY <1>20 DEF Hangup, MainTypes
  <2>2. conn'["v4"] = Down
    BY <1>1, <2>1
  <2> QED BY <1>1, <2>1, <2>2 DEF StatusKnown, Stopping, AtRest
<1>21. CASE QueryV6(o) /\ o = "ok"
  <2>1. /\ pc = "query6" /\ pc' = "settle"
        /\ UNCHANGED <<Families, addr, reconf>>
    BY <1>21 DEF QueryV6
  <2>2. "v4" \in Families => conn["v4"] # Unknow
    BY <2>1 DEF StatusKnown
  <2>3. /\ "v4" \in Families => conn'["v4"] = conn["v4"]
        /\ "v6" \in Families => conn'["v6"] # Unknow
    <3>1. CASE "v6" \in Families /\ conn["v6"] # Down /\ ~Mirrored
      <4>1. conn' = [conn EXCEPT !["v6"] = call["v6"]]
        BY <1>16, <1>21, <3>1 DEF QueryV6
      <4> QED BY <1>1, <3>1, <4>1
    <3>2. CASE ~("v6" \in Families /\ conn["v6"] # Down /\ ~Mirrored)
      <4>1. \/ conn' = conn /\ ("v6" \in Families => conn["v6"] = Down)
            \/ Mirrored /\ conn' = [conn EXCEPT !["v6"] = conn["v4"]]
        BY <1>21, <3>2 DEF QueryV6
      <4> QED BY <1>1, <2>2, <4>1 DEF Mirrored
    <3> QED BY <3>1, <3>2
  <2> QED BY <1>1, <2>1, <2>2, <2>3 DEF StatusKnown, Stopping, AtRest
<1>22. CASE StopCall("v4", o, "stop", "stop6")
  BY <1>22 DEF StopCall, StatusKnown, Stopping, AtRest
<1>23. CASE StopCall("v6", o, "stop6", "stoplink")
  BY <1>23 DEF StopCall, StatusKnown, Stopping, AtRest
<1>24. CASE \E s \in clients : ReleaseClient(s, o)
  <2>1. pc = "deinit" /\ UNCHANGED <<pc, Families, conn, addr, reconf>>
    BY <1>24 DEF ReleaseClient
  <2> QED BY <2>1 DEF StatusKnown, Stopping, AtRest
<1> QED BY <1>2, <1>3, <1>4, <1>5, <1>6, <1>7, <1>8, <1>9, <1>10, <1>12, <1>13, <1>14, <1>15, <1>17, <1>18,
       <1>19, <1>20, <1>21, <1>22, <1>23, <1>24 DEF Request

\* The other steps keep the status known: the end of CHECK forgets an address
\* only with its call.
LEMMA PlainStepsKeepStatus ==
  ASSUME MainTypes, CallsKnown, StatusKnown, clean, clean',
         \/ BootFails \/ Boot \/ Poll \/ PollTimeout \/ ReadSignal \/ ReadEvent \/ SkipV4 \/ Backoff
         \/ Settle \/ StopLink \/ DeInit \/ Quit \/ Join \/ Again
         \/ ReaderStep \/ Clock \/ Signal \/ ModemStep \/ Replug \/ UNCHANGED vars
  PROVE  StatusKnown'
<1> USE DEF askVars, hostVars, timeVars, queueVars, netVars, modeVars, procVars, modemVars
<1>1. /\ late = {} /\ conn \in [Families -> Status] /\ Up # Down /\ Unknow # Up /\ Unknow # Down
  BY DEF CallsKnown, MainTypes, Up, Down, Unknow
<1>2. ASSUME UNCHANGED <<pc, Families, conn, addr>>, reconf' => reconf
      PROVE  StatusKnown'
  BY <1>2 DEF StatusKnown
<1>3. CASE BootFails
  BY <1>3 DEF BootFails, StatusKnown, Stopping, AtRest
<1>4. CASE Boot
  <2>1. /\ pc = "boot" /\ pc' = "ethmode" /\ conn' = [f \in Families |-> Unknow]
        /\ UNCHANGED <<Families, addr, reconf>>
    BY <1>4 DEF Boot, StayedIn
  <2> QED BY <1>1, <2>1 DEF StatusKnown, Stopping, AtRest
<1>5. CASE Poll
  BY <1>5, StatusCarry DEF Poll, Stopping, AtRest
<1>6. CASE PollTimeout
  BY <1>6, StatusCarry DEF PollTimeout, Stopping, AtRest
<1>7. CASE ReadSignal
  <2>1. pc = "signal" /\ pc' \in {"event", "loop", "setup", "query", "register", "stop"}
    BY <1>7 DEF ReadSignal, Back
  <2> QED BY <1>7, <2>1, StatusCarry DEF ReadSignal, Stopping, AtRest
<1>8. CASE ReadEvent
  BY <1>8, StatusCarry DEF ReadEvent, Stopping, AtRest
<1>9. CASE SkipV4
  BY <1>9, StatusCarry DEF SkipV4, AfterV4, Stopping, AtRest
<1>10. CASE Backoff
  BY <1>10, StatusCarry DEF Backoff, Back, Stopping, AtRest
<1>11. CASE Settle
  <2>1. pc = "settle" /\ pc' \in {"event", "loop"} /\ UNCHANGED <<Families, conn, reconf>>
    BY <1>11 DEF Settle, Back
  <2>2. \A f \in Families : conn[f] = Up \/ conn[f] = Down
    BY <1>1, <2>1 DEF StatusKnown, Status
  <2>3. "v4" \in Families /\ conn["v4"] = Up => addr # 0
    BY <1>1, <2>1 DEF StatusKnown, Stopping, AtRest
  <2>4. PICK l : /\ usbnet_link_change(l)
                 /\ "v4" \in l <=> "v4" \in Families /\ conn["v4"] = Up
    <3>1. CASE \A f \in Families : conn[f] = Down
      <4>1. usbnet_link_change({})
        BY <1>11, <3>1 DEF Settle
      <4> QED BY <1>1, <3>1, <4>1
    <3>2. CASE ~\A f \in Families : conn[f] = Down
      <4>1. usbnet_link_change({f \in Families : conn[f] = Up})
        BY <1>11, <2>2, <3>2 DEF Settle, AnyUp
      <4> QED BY <4>1
    <3> QED BY <3>1, <3>2
  <2>5. "v4" \in Families /\ conn["v4"] = Up => addr' # 0
    BY <2>3, <2>4 DEF usbnet_link_change
  <2> QED BY <2>1, <2>5 DEF StatusKnown, Stopping, AtRest
<1>12. CASE StopLink
  BY <1>12 DEF StopLink, usbnet_link_change, StatusKnown, Stopping, AtRest
<1>13. CASE Quit
  BY <1>13 DEF Quit, usbnet_link_change, StatusKnown, Stopping, AtRest
<1>14. CASE DeInit
  BY <1>14 DEF DeInit, StatusKnown, Stopping, AtRest
<1>15. CASE Join
  BY <1>15 DEF Join, StatusKnown, Stopping, AtRest
<1>16. CASE Again
  BY <1>16 DEF Again, StatusKnown, Stopping, AtRest
<1>17. CASE ReaderLeaves
  BY <1>2, <1>17 DEF ReaderLeaves
<1>18. CASE LeakedReaderQuits
  BY <1>2, <1>18 DEF LeakedReaderQuits
<1>19. CASE AlarmFires
  BY <1>2, <1>19 DEF AlarmFires
<1>20. CASE BackoffOver
  BY <1>2, <1>20 DEF BackoffOver
<1>21. CASE Signal
  BY <1>2, <1>21 DEF Signal
<1>22. CASE Attach
  BY <1>2, <1>22 DEF Attach
<1>23. CASE NewAddress
  BY <1>2, <1>23 DEF NewAddress, Env
<1>24. CASE Reconfigure
  BY <1>24, Zenon DEF Reconfigure
<1>25. CASE Unplug
  BY <1>2, <1>25 DEF Unplug, Env
<1>26. CASE Reset
  BY <1>2, <1>26 DEF Reset, Env
<1>27. CASE \E f \in Families : Suspend(f)
  BY <1>27, Zenon DEF Suspend
<1>28. CASE \E d \in BOOLEAN : DropCalls(d)
  BY <1>2, <1>28 DEF DropCalls, Env
<1>29. CASE \E x \in late : RunLate(x)
  BY <1>1, <1>29
<1>30. CASE Replug
  BY <1>2, <1>30 DEF Replug
<1>31. CASE UNCHANGED vars
  BY <1>2, <1>31 DEF vars
<1> QED BY <1>3, <1>4, <1>5, <1>6, <1>7, <1>8, <1>9, <1>10, <1>11, <1>12, <1>13, <1>14, <1>15, <1>16, <1>17,
       <1>18, <1>19, <1>20, <1>21, <1>22, <1>23, <1>24, <1>25, <1>26, <1>27, <1>28, <1>29, <1>30, <1>31 DEF
       ReaderStep, Clock, ModemStep

-----------------------------------------------------------------------------
(* The main loop: the status *)

\* What is in a queue is its head or is left behind it.
LEMMA TailHas ==
  ASSUME NEW S, NEW q \in Seq(S), q # <<>>, NEW y, Has(q, y), y # Head(q)
  PROVE  Has(Tail(q), y)
<1>1. /\ Head(q) = q[1] /\ Len(q) \in Nat /\ Len(Tail(q)) = Len(q) - 1
      /\ \A i \in 1 .. Len(Tail(q)) : Tail(q)[i] = q[i + 1]
  BY HeadTailProperties, LenProperties
<1>2. PICK i \in 1 .. Len(q) : q[i] = y
  BY DEF Has
<1>3. i # 1
  BY <1>1, <1>2
<1>4. i - 1 \in 1 .. Len(Tail(q)) /\ (i - 1) + 1 = i
  BY <1>1, <1>2, <1>3
<1>5. Tail(q)[i - 1] = y
  BY <1>1, <1>2, <1>4
<1> QED BY <1>4, <1>5 DEF Has

\* With what a step changes nothing of, it keeps the address known: the news
\* are still there, or it stops working.
LEMMA AddressCarry ==
  ASSUME AddressKnown,
         UNCHANGED <<Families, ops, addr, link, iface, started, passedOver, ip>>,
         "v4" \in Families => conn'["v4"] = conn["v4"],
         "v4" \in link => "v4" \in Families,
         Working => News' \/ ~News, reader' = "running" => reader = "running",
         hup => hup' \/ reader' # "running",
         pc \notin {"learn", "hangup", "query6", "settle"} \cup Stopping \cup AtRest,
         pc' \notin {"setup_auth", "address", "learn", "compare", "hangup", "join", "again", "boot"}
  PROVE  AddressKnown'
BY DEF AddressKnown, Working

\* A request keeps the address known, whatever its outcome: an address is taken
\* over only by a call that was not reported yet, and a check that is answered
\* with another one hangs the call up.
LEMMA RequestsKeepAddress ==
  ASSUME MainTypes, AddressKnown, NEW o \in Outcomes, Request(o)
  PROVE  AddressKnown'
<1> USE DEF hostVars, timeVars, queueVars, netVars, modeVars, procVars, modemVars
<1>1. /\ Families \subseteq {"v4", "v6"} /\ ops \in {"qmi", "mbim"} /\ conn \in [Families -> Status]
      /\ ip # 0 /\ Up # Down /\ ("v4" \in link => "v4" \in Families)
  BY DEF MainTypes, Up, Down
<1>2. UNCHANGED <<Families, ops, reader, hup, evq>>
  BY RequestsFrame
<1>3. \A x : Has(sigq, x) => Has(sigq', x)
  <2>1. sigq' = sigq \/ sigq' = Append(sigq, "CHECK") \/ sigq' = Append(sigq, "START")
    BY RequestsFrame
  <2>2. \A x \in SignalNames : \A y : Has(sigq, y) => Has(Append(sigq, x), y)
    BY QueueHas DEF MainTypes
  <2> QED BY <2>1, <2>2 DEF SignalNames
<1>4. ASSUME UNCHANGED <<conn, addr, link, iface, started, passedOver, ip>>,
             pc \in {"ethmode", "sim", "enterpin", "profile", "setprofile", "register0", "reregister",
                     "register"},
             pc' \in {"sim", "enterpin", "profile", "setprofile", "register0", "loop", "query"},
             pc = "register" => pc' = "query"
      PROVE  AddressKnown'
  <2>1. News => News'
    BY <1>2, <1>3, <1>4 DEF News
  <2> QED BY <1>1, <1>2, <1>4, <2>1, AddressCarry DEF Stopping, AtRest
<1>5. CASE requestSetEthMode(o) \/ requestGetSIMStatus(o) \/ requestEnterSimPin(o)
  BY <1>4, <1>5 DEF requestSetEthMode, requestGetSIMStatus, requestEnterSimPin
<1>6. CASE requestGetProfile(o) \/ requestSetProfile(o)
  BY <1>4, <1>6 DEF requestGetProfile, requestSetProfile
<1>7. CASE Register0(o) \/ NetworkChanged(o) \/ CheckRegister(o)
  BY <1>4, <1>7 DEF Register0, NetworkChanged, CheckRegister
<1>8. ASSUME NEW value, Address(o, value), Ret(o) = "0"
      PROVE  /\ ops = "mbim" => value = ip
             /\ ops = "qmi" /\ reader = "running" => value \in {0, ip}
  <2>1. CASE ops = "qmi" /\ ~handle["v4"]
    BY <1>8, <2>1 DEF Address
  <2>2. CASE ~(ops = "qmi" /\ ~handle["v4"])
    <3>1. Ask("wds", o) /\ (o = "ok" => value = ip) /\ (o # "ok" /\ ops = "qmi" => value = 0)
      BY <1>8, <2>2 DEF Address
    <3>2. ops = "mbim" => o = "ok"
      BY <1>8 DEF Ret, Outcomes
    <3> QED BY <1>1, <3>1, <3>2
  <2> QED BY <2>1, <2>2
<1>9. CASE SetupV4(o)
  <2>1. /\ "v4" \in Families /\ conn["v4"] # Up /\ pc \in {"setup", "setup_auth"}
        /\ UNCHANGED <<conn, addr, link, iface, started, passedOver, ip>>
        /\ pc' \in {"setup_auth", "address", "setup6", "backoff"}
    BY <1>9 DEF SetupV4, requestSetupDataCall, AfterV4
  <2> QED BY <1>2, <2>1 DEF AddressKnown, Working, Stopping, AtRest
<1>10. CASE AddressV4(o)
  <2>1. PICK value \in 0 .. 2 : Address(o, value) /\ addr' = value
    BY <1>10 DEF AddressV4
  <2>2. /\ pc = "address" /\ pc' \in {"setup6", "backoff"} /\ "v4" \in Families /\ conn["v4"] # Up
        /\ UNCHANGED <<link, iface, started, passedOver, ip>>
    BY <1>10 DEF AddressV4, AfterV4, MainTypes, AddressKnown
  <2>3. conn'["v4"] = Up => Ret(o) = "0"
    BY <1>10, <2>2 DEF AddressV4
  <2>4. "v4" \notin link \/ passedOver
    BY <2>2 DEF AddressKnown, Working, Stopping, AtRest
  <2> QED BY <1>1, <1>2, <1>8, <2>1, <2>2, <2>3, <2>4 DEF AddressKnown, Working, Stopping, AtRest
<1>11. ASSUME UNCHANGED <<addr, link, iface, started, passedOver, ip>>, pc \in {"setup6", "address6"},
              pc' \in {"address6", "backoff"}, "v4" \in Families => conn'["v4"] = conn["v4"]
       PROVE  AddressKnown'
  <2>1. News => News'
    BY <1>2, <1>3, <1>11 DEF News
  <2> QED BY <1>1, <1>2, <1>11, <2>1, AddressCarry DEF Stopping, AtRest
<1>12. CASE SetupV6(o)
  <2>1. CASE conn["v6"] = Up \/ Mirrored
    <3>1. /\ "v4" \in Families => conn'["v4"] = conn["v4"]
          /\ pc = "setup6" /\ pc' \in {"address6", "backoff"}
          /\ UNCHANGED <<addr, link, iface, started, passedOver, ip>>
      BY <1>1, <1>12, <2>1 DEF SetupV6, requestSetupDataCall
    <3> QED BY <1>11, <3>1
  <2>2. CASE ~(conn["v6"] = Up \/ Mirrored)
    BY <1>11, <1>12, <2>2 DEF SetupV6, requestSetupDataCall
  <2> QED BY <2>1, <2>2
<1>13. CASE AddressV6(o)
  <2>1. /\ pc = "address6" /\ pc' = "backoff" /\ UNCHANGED <<addr, link, iface, started, passedOver, ip>>
        /\ conn' = conn \/ conn' = [conn EXCEPT !["v6"] = Up]
    BY <1>13 DEF AddressV6
  <2> QED BY <1>1, <1>11, <2>1
<1>14. CASE QueryV4(o)
  <2>1. pc = "query" /\ UNCHANGED <<addr, link, iface, started, passedOver, ip>>
    BY <1>14 DEF QueryV4
  <2>2. \/ pc' \in {"learn", "compare"} /\ conn'["v4"] = Up /\ (pc' = "learn" <=> addr = 0)
        \/ pc' = "query6" /\ ("v4" \in Families => conn'["v4"] # Up)
    <3>1. CASE "v4" \in Families /\ conn["v4"] # Down
      <4>1. conn'["v4"] = IF Ret(o) = "0" THEN Queried("v4", o) ELSE Down
        BY <1>1, <1>14, <3>1 DEF QueryV4
      <4> QED BY <1>1, <1>14, <3>1, <4>1 DEF QueryV4
    <3>2. CASE ~("v4" \in Families /\ conn["v4"] # Down)
      BY <1>1, <1>14, <3>2 DEF QueryV4
    <3> QED BY <3>1, <3>2
  <2> QED BY <1>1, <1>2, <2>1, <2>2 DEF AddressKnown, Working, News, Stopping, AtRest
<1>15. CASE Learn(o)
  <2>1. PICK value \in 0 .. 2 : Address(o, value) /\ addr' = value
    BY <1>15 DEF Learn
  <2>2. /\ pc = "learn" /\ "v4" \in Families /\ conn["v4"] = Up /\ addr = 0
        /\ UNCHANGED <<link, iface, started, passedOver, ip>>
        /\ \/ Ret(o) = "0" /\ pc' = "compare" /\ conn' = conn
           \/ Ret(o) # "0" /\ pc' = "query6" /\ conn' = [conn EXCEPT !["v4"] = Down]
    BY <1>15 DEF Learn, MainTypes, AddressKnown
  <2>3. "v4" \in link /\ ~passedOver => started = 0
    BY <2>2 DEF AddressKnown, Working, Stopping, AtRest
  <2>4. CASE Ret(o) = "0"
    BY <1>1, <1>2, <1>8, <2>1, <2>2, <2>3, <2>4 DEF AddressKnown, Working, News, Stopping, AtRest
  <2>5. CASE Ret(o) # "0"
    <3>1. conn'["v4"] = Down
      BY <1>1, <2>2, <2>5
    <3> QED BY <1>1, <1>2, <2>2, <2>5, <3>1 DEF AddressKnown, Working, Stopping, AtRest
  <2> QED BY <2>4, <2>5
<1>16. CASE check_ipv4_address(o)
  <2>1. /\ pc = "compare" /\ "v4" \in Families /\ conn["v4"] = Up
        /\ UNCHANGED <<conn, link, iface, started, passedOver, ip>>
    BY <1>16 DEF check_ipv4_address, MainTypes, AddressKnown
  <2>2. CASE ops = "mbim"
    <3>1. pc' = "query6" /\ addr' = addr
      BY <1>16, <2>2 DEF check_ipv4_address
    <3> QED BY <1>1, <1>2, <2>1, <2>2, <3>1 DEF AddressKnown, Working, Stopping, AtRest
  <2>3. CASE ops = "qmi"
    <3>1. PICK value \in 0 .. 2 :
            /\ Address(o, value) /\ addr' = value
            /\ \/ pc' = "query6" /\ Ret(o) = "0" /\ value = addr
               \/ pc' = "hangup"
      BY <1>16, <2>3 DEF check_ipv4_address, SameAddress
    <3>2. CASE pc' = "hangup"
      BY <1>1, <1>2, <2>1, <2>3, <3>2 DEF AddressKnown, Working, Stopping, AtRest
    <3>3. CASE pc' = "query6" /\ Ret(o) = "0" /\ value = addr
      BY <1>1, <1>2, <1>8, <2>1, <2>3, <3>1, <3>3 DEF AddressKnown, Working, Stopping, AtRest
    <3> QED BY <3>1, <3>2, <3>3
  <2> QED BY <1>1, <2>2, <2>3
<1>17. CASE Hangup(o)
  <2>1. /\ pc = "hangup" /\ pc' = "query6" /\ "v4" \in Families
        /\ conn' = [conn EXCEPT !["v4"] = Down]
        /\ UNCHANGED <<addr, link, iface, started, passedOver, ip>>
    BY <1>17 DEF Hangup, MainTypes
  <2>2. conn'["v4"] # Up
    BY <1>1, <2>1
  <2> QED BY <1>1, <1>2, <2>1, <2>2 DEF AddressKnown, Working, Stopping, AtRest
<1>18. CASE QueryV6(o)
  <2>1. /\ pc = "query6" /\ pc' = "settle"
        /\ UNCHANGED <<addr, link, iface, started, passedOver, ip>>
    BY <1>18 DEF QueryV6
  <2>2. "v4" \in Families => conn'["v4"] = conn["v4"]
    <3>1. conn' = conn \/ \E c : conn' = [conn EXCEPT !["v6"] = c]
      BY <1>18 DEF QueryV6
    <3> QED BY <1>1, <3>1
  <2>3. News => News'
    BY <1>2, <1>3, <2>1 DEF News
  <2> QED BY <1>1, <1>2, <2>1, <2>2, <2>3 DEF AddressKnown, Working, Stopping, AtRest
<1>19. CASE \/ StopCall("v4", o, "stop", "stop6") \/ StopCall("v6", o, "stop6", "stoplink")
            \/ \E s \in clients : ReleaseClient(s, o)
  <2>1. pc' \in {"stop6", "stoplink", "deinit"}
    BY <1>19 DEF StopCall, ReleaseClient
  <2> QED BY <2>1 DEF AddressKnown, Working, Stopping
<1> QED BY <1>5, <1>6, <1>7, <1>9, <1>10, <1>12, <1>13, <1>14, <1>15, <1>16, <1>17, <1>18, <1>19 DEF Request

\* The other steps keep the address known: usbnet_link_change() at the end of
\* CHECK starts the interface with the address that is reported, and a modem
\* with a new address tells the loop so.
LEMMA PlainStepsKeepAddress ==
  ASSUME MainTypes, RoundsApart, AddressKnown,
         \/ BootFails \/ Boot \/ Poll \/ PollTimeout \/ ReadSignal \/ ReadEvent \/ SkipV4 \/ Backoff
         \/ Settle \/ StopLink \/ DeInit \/ Quit \/ Join \/ Again
         \/ ReaderStep \/ Clock \/ Signal \/ ModemStep \/ Replug \/ UNCHANGED vars
  PROVE  AddressKnown'
<1> USE DEF askVars, hostVars, timeVars, queueVars, netVars, modeVars, procVars, modemVars
<1>1. /\ Families \subseteq {"v4", "v6"} /\ ops \in {"qmi", "mbim"} /\ conn \in [Families -> Status]
      /\ ip # 0 /\ Up # Down /\ Unknow # Up /\ ("v4" \in link => "v4" \in Families)
  BY DEF MainTypes, Up, Down, Unknow
<1>2. \A x \in SignalNames : \A y : Has(Append(sigq, x), y) <=> Has(sigq, y) \/ y = x
  BY QueueHas DEF MainTypes
<1>3. \A x \in EventNames : \A y : Has(Append(evq, x), y) <=> Has(evq, y) \/ y = x
  BY QueueHas DEF MainTypes
<1>4. /\ \A x : Has(<<x>>, x)
      /\ {"START", "STOP", "CHECK"} = SignalNames
      /\ {"DEVICE_DISCONNECTED", "NETWORK_STATE_CHANGED", "DATA_CALL_LIST_CHANGED",
          "MODEM_REPORT_RESET"} = EventNames
  BY DEF Has, SignalNames, EventNames
\* a step beside the loop
<1>5. ASSUME UNCHANGED <<pc, Families, ops, conn, addr, link, iface, started, passedOver, ip>>,
             Working => News' \/ ~News, reader' = "running" => reader = "running",
             hup => hup' \/ reader' # "running"
      PROVE  AddressKnown'
  BY <1>5 DEF AddressKnown, Working
<1>6. ASSUME NEW e \in EventNames, Tell(e) PROVE Has(evq, "DATA_CALL_LIST_CHANGED") => Has(evq', "DATA_CALL_LIST_CHANGED")
  BY <1>3, <1>6 DEF Tell
<1>7. CASE BootFails
  BY <1>7 DEF BootFails, AddressKnown, Working, AtRest
<1>8. CASE Boot
  <2>1. /\ pc = "boot" /\ pc' = "ethmode" /\ \A f \in Families : conn'[f] = Unknow
        /\ UNCHANGED <<Families, ops, addr, link, iface, started, passedOver>>
    BY <1>8 DEF Boot, StayedIn
  <2>2. "v4" \notin link
    BY <2>1 DEF AddressKnown
  <2> QED BY <1>1, <2>1, <2>2 DEF AddressKnown, Working
<1>9. CASE Poll
  <2>1. pc = "loop" /\ pc' \in {"signal", "event"} /\ (News => News')
    BY <1>9 DEF Poll, News
  <2> QED BY <1>1, <1>9, <2>1, AddressCarry DEF Poll, Stopping, AtRest
<1>10. CASE PollTimeout
  <2>1. pc = "loop" /\ pc' = "loop" /\ News'
    BY <1>4, <1>10 DEF PollTimeout, News
  <2> QED BY <1>1, <1>10, <2>1, AddressCarry DEF PollTimeout, Stopping, AtRest
<1>11. CASE ReadSignal
  <2>1. pc = "signal" /\ sigq # <<>> /\ sigq \in Seq(SignalNames)
    BY <1>11 DEF ReadSignal, MainTypes
  <2>2. CASE Head(sigq) = "CHECK"
    <3>1. pc' \in {"query", "register"}
      BY <1>11, <2>2 DEF ReadSignal
    <3> QED BY <1>1, <1>11, <2>1, <3>1, AddressCarry DEF ReadSignal, News, Stopping, AtRest
  <2>3. CASE Head(sigq) = "STOP"
    <3>1. pc' = "stop"
      BY <1>11, <2>3 DEF ReadSignal
    <3> QED BY <3>1 DEF AddressKnown, Working, Stopping
  <2>4. CASE Head(sigq) = "START"
    <3>1. pc' \in {"event", "loop", "setup"} /\ sigq' = Tail(sigq) /\ evq' = evq
      BY <1>11, <2>4 DEF ReadSignal, Back
    <3>2. Has(sigq, "CHECK") => Has(sigq', "CHECK")
      BY <2>1, <2>4, <3>1, TailHas
    <3>3. News => News'
      BY <2>1, <3>1, <3>2 DEF News
    <3> QED BY <1>1, <1>11, <2>1, <3>1, <3>3, AddressCarry DEF ReadSignal, Stopping, AtRest
  <2> QED BY <1>11, <2>2, <2>3, <2>4 DEF ReadSignal
<1>12. CASE ReadEvent
  <2>1. pc = "event" /\ evq # <<>> /\ evq \in Seq(EventNames) /\ pc' \in {"quit", "reregister", "loop"}
    BY <1>12 DEF ReadEvent, MainTypes
  <2>2. CASE pc' = "quit"
    BY <2>2 DEF AddressKnown, Working, AtRest
  <2>3. CASE pc' = "reregister"
    <3>1. Head(evq) = "NETWORK_STATE_CHANGED" /\ evq' = Tail(evq) /\ sigq' = sigq
      BY <1>12, <2>3 DEF ReadEvent, Leaves
    <3>2. Has(evq, "DATA_CALL_LIST_CHANGED") => Has(evq', "DATA_CALL_LIST_CHANGED")
      BY <2>1, <3>1, TailHas
    <3>3. News => News'
      BY <2>1, <3>1, <3>2 DEF News
    <3> QED BY <1>1, <1>12, <2>1, <2>3, <3>3, AddressCarry DEF ReadEvent, Stopping, AtRest
  <2>4. CASE pc' = "loop"
    <3>1. sigq' = Append(sigq, "CHECK")
      BY <1>12, <2>4 DEF ReadEvent
    <3>2. News'
      BY <1>2, <1>4, <3>1 DEF News
    <3> QED BY <1>1, <1>12, <2>1, <2>4, <3>2, AddressCarry DEF ReadEvent, Stopping, AtRest
  <2> QED BY <2>1, <2>2, <2>3, <2>4
<1>13. CASE SkipV4
  <2>1. pc = "setup" /\ pc' \in {"setup6", "backoff"} /\ UNCHANGED <<sigq, evq>>
    BY <1>13 DEF SkipV4, AfterV4
  <2>2. News => News'
    BY <2>1 DEF News
  <2> QED BY <1>1, <1>13, <2>1, <2>2, AddressCarry DEF SkipV4, Stopping, AtRest
<1>14. CASE Backoff
  <2>1. pc = "backoff" /\ pc' \in {"event", "loop"} /\ UNCHANGED <<sigq, evq>>
    BY <1>14 DEF Backoff, Back
  <2>2. News => News'
    BY <2>1 DEF News
  <2> QED BY <1>1, <1>14, <2>1, <2>2, AddressCarry DEF Backoff, Stopping, AtRest
<1>15. CASE Settle
  <2>1. /\ pc = "settle" /\ pc' \in {"event", "loop"}
        /\ UNCHANGED <<Families, ops, conn, ip, reader, hup, evq>>
    BY <1>15 DEF Settle, Back
  <2>2. News => News'
    BY <1>2, <1>4, <1>15, <2>1 DEF Settle, News
  <2>3. "v4" \in link /\ ~passedOver => \/ conn["v4"] = Up /\ started \in {0, addr}
                                        \/ conn["v4"] # Up
    BY <2>1 DEF AddressKnown, Working, Stopping, AtRest
  <2>4. /\ ops = "mbim" /\ "v4" \in Families /\ conn["v4"] = Up => addr # 0
        /\ ops = "mbim" /\ "v4" \in link /\ ~passedOver => iface = started /\ started # 0
        /\ ops = "qmi" /\ "v4" \in Families /\ reader = "running" /\ ~hup =>
             (conn["v4"] = Up => addr \in {0, ip} \/ News)
    BY <2>1 DEF AddressKnown, Working, Stopping, AtRest
  <2>5. CASE \E l : usbnet_link_change(l) /\ ("v4" \in l <=> "v4" \in Families /\ conn["v4"] = Up)
    <3>1. PICK l : usbnet_link_change(l) /\ ("v4" \in l <=> "v4" \in Families /\ conn["v4"] = Up)
      BY <2>5
    <3>2. link' = l /\ addr' \in {0, addr} /\ ("v4" \in Families /\ conn["v4"] = Up => addr' = addr)
      BY <3>1 DEF usbnet_link_change
    <3>3. "v4" \in link' /\ ~passedOver' =>
            started' \in {0, addr'} /\ (ops = "mbim" => iface' = started' /\ started' # 0)
      <4>1. CASE l = link
        BY <2>3, <2>4, <3>1, <3>2, <4>1 DEF usbnet_link_change
      <4>2. CASE l # link
        BY <2>4, <3>1, <3>2, <4>2 DEF usbnet_link_change, Configured
      <4> QED BY <4>1, <4>2
    <3> QED BY <2>1, <2>2, <2>4, <3>1, <3>2, <3>3 DEF AddressKnown, Working
  <2>6. CASE ~\E l : usbnet_link_change(l) /\ ("v4" \in l <=> "v4" \in Families /\ conn["v4"] = Up)
    <3>1. passedOver' /\ addr' = addr
      <4>1. ~\A f \in Families : conn[f] = Down
        BY <1>1, <1>15, <2>6 DEF Settle
      <4>2. ~AnyUp
        BY <1>15, <2>6, <4>1 DEF Settle
      <4> QED BY <1>15, <4>1, <4>2 DEF Settle
    <3> QED BY <2>1, <2>2, <2>4, <3>1 DEF AddressKnown, Working
  <2> QED BY <2>5, <2>6
<1>16. CASE StopLink
  BY <1>16 DEF StopLink, AddressKnown, Working, Stopping
<1>17. CASE Quit
  BY <1>17 DEF Quit, usbnet_link_change, AddressKnown, Working, AtRest
<1>18. CASE DeInit
  BY <1>18 DEF DeInit, AddressKnown, Working, AtRest
<1>19. CASE Join
  BY <1>19 DEF Join, AddressKnown, Working, AtRest
<1>20. CASE Again
  BY <1>20 DEF Again, AddressKnown, Working, AtRest
<1>21. CASE ReaderLeaves
  <2>1. News => News'
    BY <1>3, <1>4, <1>21 DEF ReaderLeaves, News
  <2> QED BY <1>5, <1>21, <2>1 DEF ReaderLeaves
<1>22. CASE LeakedReaderQuits
  <2>1. News => News'
    BY <1>22 DEF LeakedReaderQuits, News
  <2> QED BY <1>5, <1>22, <2>1 DEF LeakedReaderQuits
<1>23. CASE AlarmFires
  <2>1. News => News'
    BY <1>2, <1>4, <1>23 DEF AlarmFires, News
  <2> QED BY <1>5, <1>23, <2>1 DEF AlarmFires
<1>24. CASE BackoffOver
  <2>1. News => News'
    BY <1>24 DEF BackoffOver, News
  <2> QED BY <1>5, <1>24, <2>1 DEF BackoffOver
<1>25. CASE Signal
  <2>1. News => News'
    BY <1>2, <1>4, <1>25 DEF Signal, News
  <2> QED BY <1>5, <1>25, <2>1 DEF Signal
<1>26. CASE Attach
  <2>1. News => News'
    BY <1>4, <1>6, <1>26 DEF Attach, News
  <2> QED BY <1>5, <1>26, <2>1 DEF Attach
<1>27. CASE NewAddress
  <2>1. UNCHANGED <<pc, Families, ops, conn, addr, link, iface, started, passedOver, reader, hup, sigq>>
    BY <1>27 DEF NewAddress, Env
  <2>2. Working /\ reader = "running" => News'
    <3>1. Working => Listening
      BY DEF Working, Listening, Stopping, AtRest
    <3> QED BY <1>3, <1>4, <1>27, <3>1 DEF NewAddress, Tell, News
  <2> QED BY <2>1, <2>2 DEF AddressKnown, Working
<1>28. CASE Reconfigure
  <2>1. News => News'
    BY <1>4, <1>6, <1>28 DEF Reconfigure, Env, News
  <2> QED BY <1>5, <1>28, <2>1 DEF Reconfigure, Env
<1>29. CASE Unplug
  <2>1. News => News'
    BY <1>29 DEF Unplug, Env, News
  <2> QED BY <1>5, <1>29, <2>1 DEF Unplug, Env
<1>30. CASE Reset
  <2>1. News => News'
    BY <1>4, <1>6, <1>30 DEF Reset, Env, News
  <2> QED BY <1>5, <1>30, <2>1 DEF Reset, Env
<1>31. ASSUME NEW f \in Families, Suspend(f) PROVE AddressKnown'
  <2>1. News => News'
    BY <1>4, <1>6, <1>31 DEF Suspend, Env, News
  <2> QED BY <1>5, <1>31, <2>1 DEF Suspend, Env
<1>32. ASSUME NEW d \in BOOLEAN, DropCalls(d) PROVE AddressKnown'
  <2>1. News => News'
    BY <1>4, <1>6, <1>32 DEF DropCalls, Env, News
  <2> QED BY <1>5, <1>32, <2>1 DEF DropCalls, Env
<1>33. ASSUME NEW x \in late, RunLate(x) PROVE AddressKnown'
  <2>1. News => News'
    BY <1>4, <1>6, <1>33 DEF RunLate, News
  <2> QED BY <1>5, <1>33, <2>1 DEF RunLate
<1>34. CASE Replug
  <2>1. News => News'
    BY <1>34 DEF Replug, News
  <2> QED BY <1>5, <1>34, <2>1 DEF Replug
<1>35. CASE UNCHANGED vars
  <2>1. News => News'
    BY <1>35 DEF vars, News
  <2> QED BY <1>5, <1>35, <2>1 DEF vars
<1> QED BY <1>7, <1>8, <1>9, <1>10, <1>11, <1>12, <1>13, <1>14, <1>15, <1>16, <1>17, <1>18, <1>19, <1>20,
       <1>21, <1>22, <1>23, <1>24, <1>25, <1>26, <1>27, <1>28, <1>29, <1>30, <1>31, <1>32, <1>33, <1>34,
       <1>35 DEF ReaderStep, Clock, ModemStep

-----------------------------------------------------------------------------
(* The main loop: the invariant and what it gives *)

\* The program starts in the invariant, also on a modem that holds a call.
LEMMA MainInvariantStarts ==
  Init => MainInv
<1> SUFFICES ASSUME Init PROVE MainInv
  OBVIOUS
<1>1. PICK m \in Setups :
        /\ Families = m.families /\ ops = m.ops /\ ethRaw = m.raw
        /\ attached = m.attached /\ pin = m.pin /\ mprofile = m.profile
        /\ call = [f \in Families |-> m.call]
  BY DEF Init
<1>2. /\ m.families \in {{"v4"}, {"v6"}, {"v4", "v6"}} /\ m.ops \in {"qmi", "mbim"}
      /\ m.raw \in BOOLEAN /\ m.attached \in BOOLEAN /\ m.pin \in BOOLEAN
      /\ m.call \in {"connected", "disconnected"}
  BY SetupsAssumption
<1>3. Families \subseteq {"v4", "v6"} /\ call \in [Families -> Status] /\ conn \in [Families -> Status]
  BY <1>1, <1>2 DEF Init, Status, Up, Down, Unknow
<1>4. clean \in BOOLEAN /\ (clean => NoCalls)
  <2>1. clean = NoCalls
    BY DEF Init, NoCalls
  <2> QED BY <2>1, Zenon DEF NoCalls
<1>5. <<>> \in Seq(SignalNames) /\ <<>> \in Seq(EventNames)
  OBVIOUS
<1>6. MainTypes
  <2>1. /\ ps \in BOOLEAN /\ raw \in BOOLEAN /\ backoff \in BOOLEAN /\ alarm \in BOOLEAN
        /\ evReady \in BOOLEAN /\ gStay \in BOOLEAN /\ quitSent \in BOOLEAN /\ hup \in BOOLEAN
        /\ reconf \in BOOLEAN /\ passedOver \in BOOLEAN
    BY Zenon DEF Init
  <2>2. attached \in BOOLEAN /\ pin \in BOOLEAN /\ ethRaw \in BOOLEAN
    BY <1>1, <1>2
  <2>3. handle \in [Families -> BOOLEAN]
    <3>1. handle = [f \in Families |-> FALSE]
      BY DEF Init
    <3> QED BY <3>1, Zenon
  <2>4. nfault \in 0 .. MaxFaults /\ nstop \in 0 .. MaxStops
    BY BoundsAssumption DEF Init
  <2> QED BY <1>1, <1>2, <1>3, <1>4, <1>5, <2>1, <2>2, <2>3, <2>4 DEF Init, MainTypes, MainPlaces, Stopping,
             AtRest
<1>7. RoundsApart
  <2>1. \A y : ~Has(<<>>, y)
    BY <1>5, QueueHas DEF Has
  <2> QED BY <2>1 DEF Init, RoundsApart, Stopping
<1>8. ASSUME clean PROVE CallsKnown
  <2>1. /\ \A f \in Families : call[f] = Down /\ conn[f] = Unknow
        /\ pc = "boot" /\ late = {} /\ held = {} /\ NoCalls
    BY <1>4, <1>8 DEF Init, NoCalls
  <2> QED BY <2>1 DEF CallsKnown, Dialled, AddressOf, Stopping, AtRest, Up, Down, Unknow
<1>9. StatusKnown
  BY DEF Init, StatusKnown, AtRest
<1>10. AddressKnown
  BY DEF Init, AddressKnown, Working, AtRest
<1> QED BY <1>6, <1>7, <1>8, <1>9, <1>10 DEF MainInv

\* A manager whose exchange failed stays unclean.
LEMMA CleanWasClean ==
  ASSUME MainTypes, [Next]_vars, clean'
  PROVE  clean
<1> USE DEF askVars, modemVars
<1>1. \A o \in Outcomes : Request(o) => clean
  BY RequestsFrame
<1>2. CASE BootFails \/ Boot
  BY <1>2 DEF BootFails, Boot
<1>3. CASE Poll \/ PollTimeout \/ ReadSignal \/ ReadEvent \/ SkipV4 \/ Backoff \/ Settle
  BY <1>3 DEF Poll, PollTimeout, ReadSignal, ReadEvent, SkipV4, Backoff, Settle
<1>4. CASE StopLink \/ DeInit \/ Quit \/ Join \/ Again
  BY <1>4 DEF StopLink, DeInit, Quit, Join, Again
<1>5. CASE ReaderStep \/ Clock \/ Signal \/ Replug
  BY <1>5 DEF ReaderStep, ReaderLeaves, LeakedReaderQuits, Clock, AlarmFires, BackoffOver, Signal, Replug
<1>6. CASE ModemStep
  BY <1>6 DEF ModemStep, Attach, NewAddress, Reconfigure, Unplug, Reset, Suspend, DropCalls, RunLate
<1>7. CASE UNCHANGED vars
  BY <1>7 DEF vars
<1> QED BY <1>1, <1>2, <1>3, <1>4, <1>5, <1>6, <1>7 DEF Next, MainStep, Ended

\* Every step of the program, the reader, the clock and the modem keeps it.
LEMMA MainInvariantKept ==
  MainInv /\ [Next]_vars => MainInv'
<1> SUFFICES ASSUME MainInv, [Next]_vars PROVE MainInv'
  OBVIOUS
<1>1. MainTypes /\ RoundsApart /\ AddressKnown /\ (clean => CallsKnown /\ StatusKnown)
  BY DEF MainInv
<1>2. MainTypes'
  BY <1>1, StepsKeepTypes
<1>3. RoundsApart'
  <2>1. clean => late = {}
    BY <1>1 DEF CallsKnown
  <2> QED BY <1>1, <2>1, StepsKeepRounds
<1>4. ASSUME clean' PROVE CallsKnown' /\ StatusKnown'
  <2>1. clean /\ CallsKnown /\ StatusKnown
    BY <1>1, <1>4, CleanWasClean
  <2>2. ASSUME NEW o \in Outcomes, Request(o) PROVE CallsKnown' /\ StatusKnown'
    BY <1>1, <1>4, <2>1, <2>2, RequestsKeepCalls, RequestsKeepStatus
  <2>3. CASE \/ BootFails \/ Boot \/ Poll \/ PollTimeout \/ ReadSignal \/ ReadEvent \/ SkipV4 \/ Backoff
             \/ Settle \/ StopLink \/ DeInit \/ Quit \/ Join \/ Again
             \/ ReaderStep \/ Clock \/ Signal \/ ModemStep \/ Replug \/ UNCHANGED vars
    BY <1>1, <1>4, <2>1, <2>3, PlainStepsKeepCalls, PlainStepsKeepStatus
  <2> QED BY <2>2, <2>3 DEF Next, MainStep, Ended
<1>5. AddressKnown'
  <2>1. ASSUME NEW o \in Outcomes, Request(o) PROVE AddressKnown'
    BY <1>1, <2>1, RequestsKeepAddress
  <2>2. CASE \/ BootFails \/ Boot \/ Poll \/ PollTimeout \/ ReadSignal \/ ReadEvent \/ SkipV4 \/ Backoff
             \/ Settle \/ StopLink \/ DeInit \/ Quit \/ Join \/ Again
             \/ ReaderStep \/ Clock \/ Signal \/ ModemStep \/ Replug \/ UNCHANGED vars
    BY <1>1, <2>2, PlainStepsKeepAddress
  <2> QED BY <2>1, <2>2 DEF Next, MainStep, Ended
<1> QED BY <1>2, <1>3, <1>4, <1>5 DEF MainInv

\* In every reachable state of quectel-CM's main loop the invariant holds: an
\* interface that shows IPv4 was started for the address that is reported, or
\* a check is about to take it back; and as long as every exchange was
\* answered, each call that is up in the modem is one qmi_main() has a handle
\* of and reports as connected.
THEOREM MainInvariant == Spec => []MainInv
BY MainInvariantStarts, MainInvariantKept, PTL DEF Spec

\* SIG_EVENT_STOP in qmi_main(), requestDeactivateDefaultPDP() for both
\* families, then QmiWwanDeInit(): a manager that was stopped and answered
\* leaves no call up in the modem, and of its client ids only the IPv6 one,
\* for every set of modems, with any number of faults and signals.
THEOREM StopsCleanUp == Spec => []StopCleansUp
<1>1. ASSUME MainInv PROVE StopCleansUp
  <2>1. MainTypes /\ (clean => CallsKnown)
    BY <1>1 DEF MainInv
  <2>2. TypeOK
    <3>1. {ps, raw, backoff, alarm, evReady, gStay, quitSent, attached, pin, hup, reconf, clean,
           passedOver} \subseteq BOOLEAN
      BY <2>1, Zenon DEF MainTypes
    <3> QED BY <2>1, <3>1 DEF MainTypes, TypeOK, Status
  <2>3. StopHangsUp
    BY <2>1 DEF StopHangsUp, CallsKnown, NoCalls
  <2>4. StopReleasesClients
    BY <2>1 DEF StopReleasesClients, CallsKnown
  <2> QED BY <2>2, <2>3, <2>4 DEF StopCleansUp
<1> QED BY <1>1, MainInvariant, PTL

\* requestSetupDataCall(), requestQueryDataCall(), check_ipv4_address() and
\* usbnet_link_change(): whenever qmi_main() waits in poll(), a call it reports
\* as connected has a handle if every exchange was answered; and, whether it
\* was or not, an interface that shows IPv4 was started for the address that
\* is reported, carries it over MBIM, and over QMI is the modem's own as long
\* as nothing waits to be read.
THEOREM CallsAreKnown == Spec => []CallIsKnown
<1>1. ASSUME MainInv PROVE CallIsKnown
  <2>1. MainTypes /\ AddressKnown /\ (clean => CallsKnown)
    BY <1>1 DEF MainInv
  <2>2. ConnectedHasHandle
    BY <2>1 DEF ConnectedHasHandle, CallsKnown, Stopping, AtRest
  <2>3. ASSUME Shown
        PROVE  /\ started \in {0, addr} /\ (ops = "mbim" => iface = addr)
               /\ ops = "qmi" /\ NothingWaits => started \in {0, ip}
    <3>1. /\ pc = "loop" /\ "v4" \in link /\ ~passedOver /\ conn["v4"] = Up /\ Working
          /\ "v4" \in Families
      BY <2>1, <2>3 DEF Shown, Working, Stopping, AtRest, MainTypes
    <3>2. started \in {0, addr} /\ (ops = "mbim" => iface = started /\ started # 0)
      BY <2>1, <3>1 DEF AddressKnown
    <3>3. ASSUME ops = "qmi", NothingWaits PROVE addr \in {0, ip}
      <4>1. ~News
        <5>1. Len(evq) = 0 /\ Len(sigq) = 0
          BY <3>3 DEF NothingWaits
        <5> QED BY <3>1, <5>1 DEF News, Has
      <4> QED BY <2>1, <3>1, <3>3, <4>1 DEF AddressKnown, NothingWaits
    <3> QED BY <3>2, <3>3
  <2> QED BY <2>2, <2>3 DEF CallIsKnown, InterfaceFresh
<1> QED BY <1>1, MainInvariant, PTL
=============================================================================
