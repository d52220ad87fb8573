----------------------------- MODULE MbimProofs -----------------------------
(***************************************************************************)
(* The manager over MBIM, for any number of faults, changes and signals:   *)
(* a command works with its own answer, and a manager that was told to     *)
(* stop and whose commands were answered in time leaves no call.           *)
(***************************************************************************)
EXTENDS Mbim, FiniteSetTheorems, SequenceTheorems, TLAPS

-----------------------------------------------------------------------------
(* The inductive invariant *)

Asked == [id : Nat \ {0}, op : Commands]
Messages == [id : Nat, op : Commands \cup {"none"}, ok : BOOLEAN,
             kind : Kinds \cup {"none"}, value : Values]
EventNames == {"NET", "CALL", "DISCONNECTED"}

MbimTypes ==
  /\ step \in Commands \cup {"loop", "joining", "ended"}
  /\ why \in {"init", "net", "check"} /\ mpc \in {"ready", "waiting", "woken"}
  /\ opens \in 0 .. 10 /\ ps \in BOOLEAN /\ conn \in {Down, Up, Unknow}
  /\ old \in [Kinds -> Values] /\ modem \in [Kinds -> {"yes", "no"}]
  /\ events \in Seq(EventNames) /\ reader \in {"running", "closing", "done"}
  /\ stopAsked \in BOOLEAN /\ waitQuit \in BOOLEAN /\ quitSent \in BOOLEAN
  /\ opened \in BOOLEAN /\ hangup \in BOOLEAN /\ clean \in BOOLEAN
  /\ nfault \in 0 .. MaxFaults /\ nchange \in 0 .. MaxChanges /\ nstop \in 0 .. MaxStops
  /\ request \in Asked \cup {NULL} /\ response \in Messages
  /\ fromModem \in Seq(Messages)
  /\ pending \in SUBSET Asked /\ IsFiniteSet(pending)

\* Commands that the modem never refuses.
NeverRefused == Commands \ {"connect", "attach", "ip"}
Fits(m) == /\ m.op \in NeverRefused => m.ok
           /\ mpc # "ready" /\ m.id = request.id => m.op = step

\* A command is registered while it waits, and what has its id is its answer.
Exchanges ==
  /\ mpc = "ready" => request = NULL /\ response = NoAnswer
  /\ mpc # "ready" => step \in Commands /\ request \in Asked /\ request.op = step
  /\ mpc = "waiting" => response = NoAnswer
  /\ Answered => response.op = step /\ (step \in NeverRefused => response.ok)
  /\ \A r \in pending : mpc # "ready" /\ r.id = request.id => r.op = step
  /\ \A i \in 1 .. Len(fromModem) : Fits(fromModem[i])

\* A stop reaches the main loop and the reader; the last event is the reader's.
Leaving ==
  /\ waitQuit = stopAsked
  /\ \A i \in 1 .. Len(events) : events[i] = "DISCONNECTED" => reader = "done"

NoCall == modem["call"] = "no" /\ ~opened

\* While every command was answered, at most one is on its way, and the answer
\* to the last one says that the modem has closed.
InTime ==
  /\ ~hangup
  /\ \A r \in pending : r = request
  /\ mpc # "waiting" => pending = {}
  /\ \A i \in 1 .. Len(fromModem) : fromModem[i].id # 0 =>
       /\ mpc = "waiting" /\ fromModem[i].id = request.id /\ pending = {}
       /\ step = "close" => NoCall
       /\ \A j \in 1 .. Len(fromModem) : fromModem[j].id # 0 => i = j
  /\ mpc = "woken" => Answered
  /\ step = "close" /\ Answered => NoCall
  /\ step \in {"joining", "ended"} => NoCall
  /\ quitSent => step \in {"joining", "ended"}
  /\ reader # "running" => /\ step \in Commands => mpc = "ready"
                           /\ stopAsked \/ step \in {"joining", "ended"}

MbimInv == MbimTypes /\ Exchanges /\ Leaving /\ (clean => InTime)

-----------------------------------------------------------------------------
(* Ids and messages *)

\* TransactionId++: while finitely many messages are on their way there is an
\* id that none of them carries, and NextId is one (mbim_send_command).
LEMMA FreshId ==
  ASSUME MbimTypes
  PROVE  /\ NextId \in Nat \ {0}
         /\ \A r \in pending : r.id # NextId
         /\ \A i \in 1 .. Len(fromModem) : fromModem[i].id # NextId
<1> DEFINE S == ToSet(fromModem) \cup pending
           f == [m \in S |-> m.id]
           g == [i \in 1 .. Len(fromModem) |-> fromModem[i]]
<1>1. IsFiniteSet(ToSet(fromModem))
  <2>1. Len(fromModem) \in Nat /\ DOMAIN fromModem = 1 .. Len(fromModem)
    BY DEF MbimTypes
  <2>2. g \in Surjection(1 .. Len(fromModem), ToSet(fromModem))
    BY <2>1 DEF Surjection, ToSet
  <2>3. IsFiniteSet(1 .. Len(fromModem))
    BY <2>1, FS_Interval
  <2> QED BY <2>2, <2>3, FS_Surjection
<1>2. IsFiniteSet(S)
  BY <1>1, FS_Union DEF MbimTypes
<1>3. f \in Surjection(S, Live)
  BY DEF Surjection, Live
<1>4. IsFiniteSet(Live)
  BY <1>2, <1>3, FS_Surjection
<1> DEFINE n == Cardinality(Live)
<1>5. n \in Nat
  BY <1>4, FS_CardinalityType
<1>6. \E i \in 1 .. (n + 1) : i \notin Live
  <2>1. SUFFICES ASSUME 1 .. (n + 1) \in SUBSET Live PROVE FALSE
    OBVIOUS
  <2>2. Cardinality(1 .. (n + 1)) <= n
    BY <2>1, <1>4, FS_Subset
  <2>3. Cardinality(1 .. (n + 1)) = n + 1
    <3>1. 1 \in Int /\ n + 1 \in Int /\ ~(1 > n + 1)
      BY <1>5
    <3>2. Cardinality(1 .. (n + 1)) = (n + 1) - 1 + 1
      BY <3>1, FS_Interval
    <3> QED BY <3>2, <1>5
  <2> QED BY <2>2, <2>3, <1>5
<1>7. NextId \in 1 .. (n + 1) /\ NextId \notin Live
  BY <1>6 DEF NextId
<1>8. NextId \in Nat \ {0}
  BY <1>5, <1>7
<1>9. \A r \in pending : r.id # NextId
  BY <1>7 DEF Live
<1>10. \A i \in 1 .. Len(fromModem) : fromModem[i].id # NextId
  <2>1. \A i \in 1 .. Len(fromModem) : fromModem[i] \in ToSet(fromModem)
    BY DEF ToSet, MbimTypes
  <2> QED BY <2>1, <1>7 DEF Live
<1> QED BY <1>8, <1>9, <1>10

\* A finite set as a sequence (SequencesExt).
LEMMA SetAsSeq ==
  ASSUME NEW M, NEW S \in SUBSET M, IsFiniteSet(S)
  PROVE  /\ SetToSeq(S) \in Seq(M) /\ Len(SetToSeq(S)) \in Nat
         /\ \A i \in 1 .. Len(SetToSeq(S)) : SetToSeq(S)[i] \in S
<1>1. Cardinality(S) \in Nat /\ Bijection(1 .. Cardinality(S), S) # {}
  BY FS_CardinalityType DEF ExistsBijection
<1>2. \E f \in [1 .. Cardinality(S) -> S] : IsInjective(f)
  BY <1>1 DEF Bijection, Injection
<1>3. SetToSeq(S) \in [1 .. Cardinality(S) -> S]
  BY <1>2 DEF SetToSeq
<1> QED BY <1>1, <1>3

\* Three sequences, the second of at most one element.
LEMMA Joined ==
  ASSUME NEW M, NEW s \in Seq(M), NEW t \in Seq(M), NEW u \in Seq(M), Len(t) <= 1
  PROVE  /\ (s \o t) \o u \in Seq(M)
         /\ \A i \in 1 .. Len((s \o t) \o u) :
              \/ i \in 1 .. Len(s) /\ ((s \o t) \o u)[i] = s[i]
              \/ Len(t) = 1 /\ i = Len(s) + 1 /\ ((s \o t) \o u)[i] = t[1]
              \/ \E j \in 1 .. Len(u) : ((s \o t) \o u)[i] = u[j]
<1> DEFINE a == s \o t
           b == a \o u
<1>1. Len(s) \in Nat /\ Len(t) \in Nat /\ Len(u) \in Nat
  OBVIOUS
<1>2. /\ a \in Seq(M) /\ Len(a) = Len(s) + Len(t)
      /\ \A i \in 1 .. Len(s) + Len(t) : a[i] = IF i <= Len(s) THEN s[i] ELSE t[i - Len(s)]
  BY ConcatProperties
<1> HIDE DEF a
<1>3. /\ b \in Seq(M) /\ Len(b) = Len(a) + Len(u)
      /\ \A i \in 1 .. Len(a) + Len(u) : b[i] = IF i <= Len(a) THEN a[i] ELSE u[i - Len(a)]
  BY <1>2, ConcatProperties
<1> HIDE DEF b
<1>4. ASSUME NEW i \in 1 .. Len(b)
      PROVE  \/ i \in 1 .. Len(s) /\ b[i] = s[i]
             \/ Len(t) = 1 /\ i = Len(s) + 1 /\ b[i] = t[1]
             \/ \E j \in 1 .. Len(u) : b[i] = u[j]
  <2>0. i \in 1 .. Len(a) + Len(u) /\ i \in Nat
    BY <1>1, <1>2, <1>3
  <2>1. CASE i <= Len(s)
    BY <2>0, <2>1, <1>1, <1>2, <1>3
  <2>2. CASE i > Len(s) /\ i <= Len(a)
    <3>0. Len(a) = Len(s) + Len(t) /\ i \in Nat
      BY <2>0, <1>2
    <3>1. i = Len(s) + 1 /\ Len(t) = 1
      <4>1. \A x, y, z \in Nat : z <= 1 /\ x > y /\ x <= y + z => x = y + 1 /\ z = 1
        OBVIOUS
      <4>2. Len(t) <= 1 /\ i > Len(s) /\ i <= Len(s) + Len(t)
        BY <2>2, <3>0
      <4> QED BY <4>1, <4>2, <1>1, <3>0
    <3>2. i - Len(s) = 1 /\ i \in 1 .. Len(s) + Len(t)
      BY <3>1, <1>1
    <3>3. b[i] = a[i] /\ a[i] = t[i - Len(s)]
      BY <2>0, <2>2, <3>2, <1>1, <1>2, <1>3
    <3> QED BY <3>1, <3>2, <3>3
  <2>3. CASE i > Len(a)
    <3>1. i - Len(a) \in 1 .. Len(u)
      BY <2>0, <2>3, <1>1, <1>2
    <3>2. b[i] = u[i - Len(a)]
      BY <2>0, <2>3, <1>1, <1>2, <1>3
    <3> QED BY <3>1, <3>2
  <2> QED BY <2>0, <2>1, <2>2, <2>3, <1>1, <1>2
<1>5. b = (s \o t) \o u
  BY DEF a, b
<1> QED BY <1>3, <1>4, <1>5

\* What the modem sends of a change: what it had sent before, the answer, and
\* indications (the modem's side of mbim_recv_command).
LEMMA InformDoes ==
  ASSUME MbimTypes, NEW after \in [Kinds -> {"yes", "no"}],
         NEW first \in Seq(Messages), Len(first) <= 1
  PROVE  /\ Inform(modem, after, first) \in Seq(Messages)
         /\ \A i \in 1 .. Len(Inform(modem, after, first)) :
              \/ i \in 1 .. Len(fromModem) /\ Inform(modem, after, first)[i] = fromModem[i]
              \/ /\ Len(first) = 1 /\ i = Len(fromModem) + 1
                 /\ Inform(modem, after, first)[i] = first[1]
              \/ /\ Inform(modem, after, first)[i].id = 0
                 /\ Inform(modem, after, first)[i].op = "none"
<1> DEFINE K == {x \in Kinds : modem[x] # after[x]}
           n(k) == [NoAnswer EXCEPT !.kind = k, !.value = after[k]]
           I == {n(k) : k \in K}
           b == SetToSeq(I)
<1>1. IsFiniteSet(I)
  <2>1. IsFiniteSet(Kinds)
    <3>1. Kinds = {"register"} \cup {"packet"} \cup {"call"}
      BY DEF Kinds
    <3> QED BY <3>1, FS_Singleton, FS_Union
  <2>2. IsFiniteSet(K)
    BY <2>1, FS_Subset
  <2> HIDE DEF K, n
  <2>3. [k \in K |-> n(k)] \in Surjection(K, I)
    BY DEF Surjection
  <2> QED BY <2>2, <2>3, FS_Surjection
<1>2. \A m \in I : m \in Messages /\ m.id = 0 /\ m.op = "none"
  <2>1. ASSUME NEW k \in Kinds PROVE n(k) \in Messages /\ n(k).id = 0 /\ n(k).op = "none"
    <3>1. after[k] \in Values /\ k \in Kinds \cup {"none"}
      BY DEF Values
    <3> QED BY <3>1 DEF NoAnswer, Messages
  <2> HIDE DEF n
  <2> QED BY <2>1
<1>3. Inform(modem, after, first) = (fromModem \o first) \o b
  BY DEF Inform
<1> HIDE DEF I
<1>4. b \in Seq(Messages) /\ \A i \in 1 .. Len(b) : b[i] \in I
  BY <1>1, <1>2, SetAsSeq
<1>5. fromModem \in Seq(Messages)
  BY DEF MbimTypes
<1> HIDE DEF b
<1>6. /\ (fromModem \o first) \o b \in Seq(Messages)
      /\ \A i \in 1 .. Len((fromModem \o first) \o b) :
           \/ i \in 1 .. Len(fromModem) /\ ((fromModem \o first) \o b)[i] = fromModem[i]
           \/ /\ Len(first) = 1 /\ i = Len(fromModem) + 1
              /\ ((fromModem \o first) \o b)[i] = first[1]
           \/ \E j \in 1 .. Len(b) : ((fromModem \o first) \o b)[i] = b[j]
  BY <1>4, <1>5, Joined
<1> QED BY <1>2, <1>3, <1>4, <1>6

-----------------------------------------------------------------------------
(* Requests *)

\* Whatever a request function does next: closing leads to the end, and nothing
\* else does but a command of mbim_init that failed.
LEMMA GoesOn ==
  ASSUME MbimTypes, NEW ok \in BOOLEAN, GoOn(ok)
  PROVE  /\ step' \in Commands \cup {"loop", "joining", "ended"}
         /\ why' \in {"init", "net", "check"} /\ ps' \in BOOLEAN
         /\ conn' \in {Down, Up, Unknow} /\ old' \in [Kinds -> Values] /\ opens' = opens
         /\ step \in Commands
         /\ step = "close" => step' = "joining"
         /\ step' = "joining" => step = "close"
         /\ step' = "ended" => ~ok /\ step \in NeverRefused \ {"close"}
<1> DEFINE Goal == /\ step' \in Commands \cup {"loop", "joining", "ended"}
                   /\ why' \in {"init", "net", "check"} /\ ps' \in BOOLEAN
                   /\ conn' \in {Down, Up, Unknow} /\ old' \in [Kinds -> Values] /\ opens' = opens
                   /\ step \in Commands
                   /\ step = "close" => step' = "joining"
                   /\ step' = "joining" => step = "close"
                   /\ step' = "ended" => ~ok /\ step \in NeverRefused \ {"close"}
<1>0. \A k \in Kinds : Learned(k) \in [Kinds -> Values]
  BY DEF MbimTypes, Learned, Messages
<1>1. /\ why \in {"init", "net", "check"} /\ ps \in BOOLEAN
      /\ conn \in {Down, Up, Unknow} /\ old \in [Kinds -> Values]
  BY DEF MbimTypes
<1>2. ASSUME NEW next, Initial(ok, step, next), next \in Commands,
             step \in NeverRefused \ {"close"}, next # "close"
      PROVE  Goal
  BY <1>1, <1>2 DEF Initial, Then, Commands, Starting, NeverRefused
<1>3. ASSUME NEW b \in BOOLEAN, AfterRegistration(b)
      PROVE  step' \in {"query", "connect", "loop"} /\ ps' \in BOOLEAN
  BY <1>3 DEF AfterRegistration, Then, Loop
<1>4. CASE mbim_open_device(ok)
  <2>1. step = "open" /\ Initial(ok, step, "caps")
    BY <1>4 DEF mbim_open_device, Initial
  <2> QED BY <2>1, <1>2 DEF Commands, Starting, NeverRefused
<1>5. CASE mbim_device_caps_query(ok)
  <2>1. step = "caps" /\ Initial(ok, step, "services")
    BY <1>5 DEF mbim_device_caps_query, Initial
  <2> QED BY <2>1, <1>2 DEF Commands, Starting, NeverRefused
<1>6. CASE mbim_device_services_query(ok)
  <2>1. step = "services" /\ Initial(ok, step, "radio")
    BY <1>6 DEF mbim_device_services_query, Initial
  <2> QED BY <2>1, <1>2 DEF Commands, Starting, NeverRefused
<1>7. CASE mbim_set_radio_state(ok)
  <2>1. step = "radio" /\ Initial(ok, step, "sim")
    BY <1>7 DEF mbim_set_radio_state, Initial
  <2> QED BY <2>1, <1>2 DEF Commands, Starting, NeverRefused
<1>8. CASE requestGetSIMStatus(ok)
  BY <1>8, <1>1 DEF requestGetSIMStatus, Then, Commands, Starting
<1>9. CASE mbim_register_state_query(ok)
  <2>1. /\ step = "register" /\ old' \in [Kinds -> Values]
        /\ UNCHANGED <<why, opens, conn>>
    BY <1>9, <1>0, <1>1 DEF mbim_register_state_query, Kinds
  <2>2. step' \in {"packet", "query", "connect", "loop"} /\ ps' \in BOOLEAN
    BY <1>9, <1>3 DEF mbim_register_state_query, Then
  <2> QED BY <2>1, <2>2, <1>1 DEF Commands, Starting
<1>10. CASE mbim_packet_service_query(ok)
  <2>1. /\ step = "packet" /\ old' \in [Kinds -> Values]
        /\ UNCHANGED <<why, opens, conn>>
    BY <1>10, <1>0, <1>1 DEF mbim_packet_service_query, Kinds
  <2>2. step' \in {"attach", "query", "connect", "loop"} /\ ps' \in BOOLEAN
    BY <1>10, <1>3 DEF mbim_packet_service_query, Then
  <2> QED BY <2>1, <2>2, <1>1 DEF Commands, Starting
<1>11. CASE mbim_packet_service_set(ok)
  <2>1. /\ step = "attach" /\ old' \in [Kinds -> Values]
        /\ UNCHANGED <<why, opens, conn>>
    BY <1>11, <1>0, <1>1 DEF mbim_packet_service_set, Kinds
  <2>2. step' \in {"query", "connect", "loop"} /\ ps' \in BOOLEAN
    BY <1>11, <1>3 DEF mbim_packet_service_set
  <2> QED BY <2>1, <2>2, <1>1 DEF Commands, Starting
<1>12. ASSUME NEW s, mbim_set_connect(ok, s)
       PROVE  /\ step = s /\ old' \in [Kinds -> Values]
              /\ UNCHANGED <<why, opens, ps, conn>>
  BY <1>12, <1>0, <1>1 DEF mbim_set_connect, Kinds
<1>13. CASE requestSetupDataCall(ok)
  <2>1. mbim_set_connect(ok, "connect") /\ step' \in {"ip", "loop"}
    BY <1>13 DEF requestSetupDataCall, Then
  <2> QED BY <2>1, <1>1, <1>12 DEF Commands, Starting
<1>14. CASE mbim_ip_config(ok)
  <2>1. /\ step = "ip" /\ step' \in {"connect", "loop"} /\ conn' \in {Up, Down}
        /\ UNCHANGED <<why, opens, ps, old>>
    BY <1>14 DEF mbim_ip_config, Then
  <2> QED BY <2>1, <1>1 DEF Commands, Starting
<1>15. CASE requestQueryDataCall(ok)
  <2>1. /\ step = "query" /\ old' \in [Kinds -> Values] /\ conn' \in {Up, Down}
        /\ UNCHANGED <<why, opens, ps>>
    BY <1>15, <1>0, <1>1 DEF requestQueryDataCall, Kinds
  <2>2. step' \in {"loop", "ip", "connect"}
    BY <1>15 DEF requestQueryDataCall, Then
  <2> QED BY <2>1, <2>2, <1>1 DEF Commands, Starting
<1>16. CASE requestDeactivateDefaultPDP(ok)
  <2>1. mbim_set_connect(ok, "deactivate") /\ step' = "close"
    BY <1>16 DEF requestDeactivateDefaultPDP, Then
  <2> QED BY <2>1, <1>1, <1>12 DEF Commands, Starting
<1>17. CASE mbim_close_device(ok)
  BY <1>17, <1>1 DEF mbim_close_device, Then, Commands, Starting
<1> QED
  BY <1>4, <1>5, <1>6, <1>7, <1>8, <1>9, <1>10, <1>11, <1>13, <1>14, <1>15, <1>16, <1>17
     DEF GoOn

-----------------------------------------------------------------------------
(* The main thread *)

LEMMA Sends ==
  ASSUME MbimInv, mbim_send_command
  PROVE  MbimInv'
<1>0. MbimTypes /\ Exchanges /\ Leaving /\ (clean => InTime)
  BY DEF MbimInv
<1>1. /\ step \in Commands /\ mpc = "ready" /\ reader = "running"
      /\ request' = [id |-> NextId, op |-> step] /\ response' = NoAnswer
      /\ mpc' = "waiting" /\ pending' = (IF hangup THEN pending ELSE pending \cup {request'})
      /\ UNCHANGED <<step, why, opens, ps, conn, old, events, stopAsked, reader, waitQuit,
                     quitSent, modem, opened, fromModem, hangup, clean, nfault, nchange, nstop>>
  BY DEF mbim_send_command, Open, hostVars, readerVars, countVars
<1>2. /\ NextId \in Nat \ {0} /\ \A r \in pending : r.id # NextId
      /\ \A i \in 1 .. Len(fromModem) : fromModem[i].id # NextId
  BY <1>0, FreshId
<1>3. request' \in Asked /\ request'.id = NextId /\ request'.op = step
  BY <1>1, <1>2 DEF Asked
<1>4. NoAnswer \in Messages
  BY DEF NoAnswer, Messages, Values
<1>5. MbimTypes'
  <2>1. IsFiniteSet(pending') /\ pending' \in SUBSET Asked
    BY <1>0, <1>1, <1>3, FS_AddElement DEF MbimTypes
  <2> QED BY <2>1, <1>0, <1>1, <1>3, <1>4 DEF MbimTypes
<1>6. Exchanges'
  <2>1. \A r \in pending' : r.id = request'.id => r.op = step
    BY <1>1, <1>2, <1>3
  <2>2. \A i \in 1 .. Len(fromModem) : Fits(fromModem[i])'
    BY <1>0, <1>1, <1>2, <1>3 DEF Exchanges, Fits
  <2> QED BY <2>1, <2>2, <1>1, <1>3 DEF Exchanges, Answered
<1>7. Leaving'
  BY <1>0, <1>1 DEF Leaving
<1>8. ASSUME clean' PROVE InTime'
  <2>1. InTime /\ pending = {} /\ step \notin {"joining", "ended"}
    BY <1>0, <1>1, <1>8 DEF InTime, Commands, Starting
  <2>2. \A i \in 1 .. Len(fromModem) : fromModem[i].id = 0
    BY <2>1, <1>1 DEF InTime
  <2>3. ~Answered'
    BY <1>1 DEF Answered
  <2>4. pending' = {request'}
    BY <2>1, <1>1 DEF InTime
  <2> QED BY <2>1, <2>2, <2>3, <2>4, <1>1 DEF InTime
<1> QED BY <1>5, <1>6, <1>7, <1>8 DEF MbimInv

\* A request function that is back leaves the exchange ready.
LEMMA BackInTime ==
  ASSUME MbimInv, mpc = "woken", GoOn(Ok), QuitAfterClose, mpc' = "ready", response' = NoAnswer,
         UNCHANGED <<pending, modem, opened, fromModem, hangup, reader, stopAsked>>,
         clean
  PROVE  InTime'
<1>0. MbimTypes /\ Exchanges /\ InTime
  BY DEF MbimInv
<1>1. Ok \in BOOLEAN
  BY <1>0 DEF Ok, Answered, MbimTypes, Messages
<1>2. /\ step \in Commands /\ (step = "close" => step' = "joining")
      /\ step' = "joining" => step = "close"
      /\ step' = "ended" => ~Ok /\ step \in NeverRefused \ {"close"}
  BY <1>0, <1>1, GoesOn
<1>3. Answered /\ pending = {} /\ reader = "running" /\ ~quitSent
  BY <1>0, <1>2 DEF InTime, Commands, Starting, MbimTypes
<1>4. step' # "ended"
  BY <1>0, <1>2, <1>3 DEF Exchanges, Ok
<1>5. step' = "joining" => NoCall
  BY <1>0, <1>2, <1>3 DEF InTime
<1>6. \A i \in 1 .. Len(fromModem) : fromModem[i].id = 0
  BY <1>0 DEF InTime
<1>7. quitSent' => step' \in {"joining", "ended"}
  BY <1>2, <1>3 DEF QuitAfterClose
<1>8. ~Answered'
  BY DEF Answered
<1> QED BY <1>0, <1>3, <1>4, <1>5, <1>6, <1>7, <1>8 DEF InTime, NoCall

LEMMA Returns ==
  ASSUME MbimInv, Return \/ Timeout \/ Refused
  PROVE  MbimInv'
<1>0. MbimTypes /\ Exchanges /\ Leaving /\ (clean => InTime)
  BY DEF MbimInv
<1>1. NoAnswer \in Messages
  BY DEF NoAnswer, Messages, Values
<1>2. /\ mpc' = "ready" /\ request' = NULL /\ response' = NoAnswer
      /\ QuitAfterClose
      /\ UNCHANGED <<events, stopAsked, reader, waitQuit, pending, modem, opened, fromModem,
                     hangup, nchange, nstop>>
  <2>1. mpc = "ready" => request = NULL /\ response = NoAnswer
    BY <1>0 DEF Exchanges
  <2>2. CASE Return
    BY <2>2 DEF Return, Done, modemVars, countVars
  <2>3. CASE Timeout
    BY <2>3 DEF Timeout, Done, modemVars, countVars
  <2>4. CASE Refused
    BY <2>1, <2>4 DEF Refused, exchVars, modemVars, countVars
  <2> QED BY <2>2, <2>3, <2>4
<1>3. /\ step' \in Commands \cup {"loop", "joining", "ended"}
      /\ why' \in {"init", "net", "check"} /\ ps' \in BOOLEAN /\ opens' \in 0 .. 10
      /\ conn' \in {Down, Up, Unknow} /\ old' \in [Kinds -> Values]
      /\ nfault' \in 0 .. MaxFaults /\ clean' \in BOOLEAN
  <2>0. Ok \in BOOLEAN
    BY <1>0 DEF Ok, Answered, MbimTypes, Messages
  <2>1. ASSUME NEW ok \in BOOLEAN, GoOn(ok)
        PROVE  /\ step' \in Commands \cup {"loop", "joining", "ended"}
               /\ why' \in {"init", "net", "check"} /\ ps' \in BOOLEAN /\ opens' \in 0 .. 10
               /\ conn' \in {Down, Up, Unknow} /\ old' \in [Kinds -> Values]
    <3>1. opens \in 0 .. 10
      BY <1>0 DEF MbimTypes
    <3> QED BY <2>1, <1>0, <3>1, GoesOn
  <2>2. CASE Return
    <3>1. GoOn(Ok) /\ UNCHANGED <<nfault, clean>>
      BY <2>2 DEF Return, countVars
    <3>2. nfault \in 0 .. MaxFaults /\ clean \in BOOLEAN
      BY <1>0 DEF MbimTypes
    <3> QED BY <2>0, <2>1, <3>1, <3>2
  <2>3. CASE Timeout
    <3>1. /\ clean' = FALSE
          /\ nfault' = nfault \/ (nfault < MaxFaults /\ nfault' = nfault + 1)
      BY <2>3 DEF Timeout
    <3>2. nfault' \in 0 .. MaxFaults
      BY <3>1, <1>0, BoundsAssumption DEF MbimTypes
    <3>3. CASE OpenAgain
      <4>1. opens < 10 /\ opens' = opens + 1 /\ UNCHANGED <<step, why, ps, conn, old>>
        BY <2>3, <3>3 DEF Timeout, OpenAgain
      <4>2. opens' \in 0 .. 10
        BY <4>1, <1>0 DEF MbimTypes
      <4> QED BY <4>1, <4>2, <3>1, <3>2, <1>0 DEF MbimTypes
    <3>4. CASE ~OpenAgain
      <4>1. GoOn(FALSE)
        BY <2>3, <3>4 DEF Timeout
      <4> QED BY <4>1, <2>1, <3>1, <3>2
    <3> QED BY <3>3, <3>4
  <2>4. CASE Refused
    <3>1. GoOn(FALSE) /\ clean' = FALSE /\ nfault' = nfault
      BY <2>4 DEF Refused
    <3>2. nfault \in 0 .. MaxFaults
      BY <1>0 DEF MbimTypes
    <3> QED BY <2>1, <3>1, <3>2
  <2> QED BY <2>2, <2>3, <2>4
<1>4. quitSent' \in BOOLEAN
  <2>1. quitSent \in BOOLEAN
    BY <1>0 DEF MbimTypes
  <2> QED BY <2>1, <1>2 DEF QuitAfterClose
<1>5. MbimTypes'
  BY <1>0, <1>1, <1>2, <1>3, <1>4 DEF MbimTypes
<1>6. Exchanges'
  <2>1. \A i \in 1 .. Len(fromModem) : Fits(fromModem[i])'
    BY <1>0, <1>2 DEF Exchanges, Fits
  <2>2. ~Answered'
    BY <1>2 DEF Answered
  <2> QED BY <2>1, <2>2, <1>2 DEF Exchanges
<1>7. Leaving'
  BY <1>0, <1>2 DEF Leaving
<1>8. ASSUME clean' PROVE InTime'
  <2>1. Return
    BY <1>8 DEF Timeout, Refused
  <2>2. mpc = "woken" /\ GoOn(Ok) /\ clean
    BY <2>1, <1>8 DEF Return, countVars
  <2> QED BY <2>2, <1>2, BackInTime
<1> QED BY <1>5, <1>6, <1>7, <1>8 DEF MbimInv

\* What keeps the exchange and the modem keeps Exchanges, while no command is
\* under way before or after.
LEMMA IdleKeeps ==
  ASSUME MbimInv, step \notin Commands,
         UNCHANGED <<mpc, request, response, pending, modem, opened, fromModem, hangup>>
  PROVE  Exchanges' /\ mpc = "ready" /\ request = NULL /\ ~Answered
<1>1. Exchanges /\ mpc = "ready" /\ MbimTypes
  BY DEF MbimInv, Exchanges, MbimTypes
<1>2. request = NULL /\ ~Answered /\ response = NoAnswer
  BY <1>1 DEF Exchanges, Answered
<1>3. \A i \in 1 .. Len(fromModem) : Fits(fromModem[i])'
  BY <1>1 DEF Exchanges, Fits
<1> QED BY <1>1, <1>2, <1>3 DEF Exchanges, Answered

LEMMA Loops ==
  ASSUME MbimInv, MainEvent \/ PollTimeout \/ MainStop
  PROVE  MbimInv'
<1>0. MbimTypes /\ Leaving /\ (clean => InTime)
  BY DEF MbimInv
<1>1. /\ step = "loop"
      /\ UNCHANGED <<mpc, request, response, reader, waitQuit, quitSent, pending, modem, opened,
                     fromModem, hangup, clean, nfault, nchange, nstop, opens, old, stopAsked>>
  BY DEF MainEvent, PollTimeout, MainStop, LoopStep, exchVars, readerVars, modemVars, countVars
<1>2. ASSUME Check
      PROVE  /\ step' \in {"register", "query", "connect"} /\ why' \in {"init", "net", "check"}
             /\ ps' \in BOOLEAN /\ conn' \in {Down, Up, Unknow}
  BY <1>2, <1>0 DEF Check, Registration, Then, MbimTypes
<1>3. /\ step' \in Commands \cup {"joining"} /\ why' \in {"init", "net", "check"}
      /\ ps' \in BOOLEAN /\ conn' \in {Down, Up, Unknow}
  <2>1. CASE MainEvent
    <3>1. CASE Head(events) = "NET"
      BY <2>1, <3>1, <1>0 DEF MainEvent, Registration, MbimTypes, Commands, Starting
    <3>2. CASE Head(events) = "CALL"
      BY <2>1, <3>2, <1>2 DEF MainEvent, Commands, Starting
    <3>3. CASE Head(events) \notin {"NET", "CALL"}
      BY <2>1, <3>3, <1>0 DEF MainEvent, Then, MbimTypes
    <3> QED BY <3>1, <3>2, <3>3
  <2>2. CASE PollTimeout
    BY <2>2, <1>2 DEF PollTimeout, Commands, Starting
  <2>3. CASE MainStop
    BY <2>3, <1>0 DEF MainStop, Then, MbimTypes, Commands, Starting
  <2> QED BY <2>1, <2>2, <2>3
<1>4. /\ events' \in Seq(EventNames)
      /\ \A i \in 1 .. Len(events') : \E j \in 1 .. Len(events) : events'[i] = events[j]
  <2>0. events \in Seq(EventNames)
    BY <1>0 DEF MbimTypes
  <2>1. CASE events' = events
    BY <2>0, <2>1
  <2>2. CASE events # <<>> /\ events' = Tail(events)
    <3>1. /\ Tail(events) \in Seq(EventNames) /\ Len(Tail(events)) = Len(events) - 1
          /\ \A i \in 1 .. Len(Tail(events)) : Tail(events)[i] = events[i + 1]
      BY <2>0, <2>2, HeadTailProperties
    <3>2. \A i \in 1 .. Len(Tail(events)) : i + 1 \in 1 .. Len(events)
      BY <2>0, <3>1
    <3> QED BY <2>2, <3>1, <3>2
  <2> QED BY <2>1, <2>2 DEF MainEvent, PollTimeout, MainStop
<1>5. MbimTypes'
  BY <1>0, <1>1, <1>3, <1>4 DEF MbimTypes
<1>6. Exchanges' /\ mpc = "ready" /\ request = NULL /\ ~Answered
  <2>1. step \notin Commands
    BY <1>1 DEF Commands, Starting
  <2> QED BY <2>1, <1>1, IdleKeeps
<1>7. Leaving'
  BY <1>0, <1>1, <1>4 DEF Leaving
<1>8. ASSUME clean' PROVE InTime'
  <2>1. InTime
    BY <1>0, <1>1, <1>8
  <2>2. step' # "joining"
    <3>1. SUFFICES ASSUME step' = "joining" PROVE FALSE
      OBVIOUS
    <3>2. MainEvent /\ Head(events) \notin {"NET", "CALL"} /\ events # <<>> /\ ~stopAsked
      BY <3>1, <1>2 DEF MainEvent, PollTimeout, MainStop, Registration, Then
    <3>3. events[1] = "DISCONNECTED" /\ 1 \in 1 .. Len(events)
      <4>1. events \in Seq(EventNames)
        BY <1>0 DEF MbimTypes
      <4>2. Head(events) \in EventNames /\ Head(events) = events[1] /\ 1 \in 1 .. Len(events)
        BY <4>1, <3>2
      <4> QED BY <4>2, <3>2 DEF EventNames
    <3>4. reader = "done"
      BY <3>3, <1>0 DEF Leaving
    <3> QED BY <3>2, <3>4, <2>1, <1>1 DEF InTime
  <2>3. step' \in Commands /\ step' \notin {"joining", "ended"}
    BY <2>2, <1>3 DEF Commands, Starting
  <2>4. \A i \in 1 .. Len(fromModem) : fromModem[i].id = 0
    BY <2>1, <1>6 DEF InTime
  <2>5. ~Answered'
    BY <1>1, <1>6 DEF Answered
  <2> QED BY <2>1, <2>3, <2>4, <2>5, <1>1, <1>6 DEF InTime
<1> QED BY <1>5, <1>6, <1>7, <1>8 DEF MbimInv

LEMMA Joins ==
  ASSUME MbimInv, Join
  PROVE  MbimInv'
<1>0. MbimTypes /\ Leaving /\ (clean => InTime)
  BY DEF MbimInv
<1>1. /\ step = "joining" /\ step' = "ended"
      /\ UNCHANGED <<why, opens, ps, conn, old, mpc, request, response, events, stopAsked, reader,
                     waitQuit, quitSent, pending, modem, opened, fromModem, hangup, clean,
                     nfault, nchange, nstop>>
  BY DEF Join, exchVars, readerVars, modemVars, countVars
<1>2. Exchanges' /\ mpc = "ready" /\ ~Answered
  <2>1. step \notin Commands
    BY <1>1 DEF Commands, Starting
  <2> QED BY <2>1, <1>1, IdleKeeps
<1>3. MbimTypes' /\ Leaving'
  BY <1>0, <1>1 DEF MbimTypes, Leaving
<1>4. ASSUME clean' PROVE InTime'
  <2>1. InTime
    BY <1>0, <1>1, <1>4
  <2>2. "ended" \notin Commands /\ ~Answered'
    BY <1>1, <1>2 DEF Commands, Starting, Answered
  <2> QED BY <2>1, <2>2, <1>1, <1>2 DEF InTime, NoCall
<1> QED BY <1>2, <1>3, <1>4 DEF MbimInv

LEMMA Signals ==
  ASSUME MbimInv, Signal
  PROVE  MbimInv'
<1>0. MbimTypes /\ Exchanges /\ Leaving /\ (clean => InTime)
  BY DEF MbimInv
<1>1. /\ nstop < MaxStops /\ nstop' = nstop + 1 /\ stopAsked' = TRUE /\ waitQuit' = TRUE
      /\ UNCHANGED <<step, why, opens, ps, conn, old, mpc, request, response, events, reader,
                     quitSent, pending, modem, opened, fromModem, hangup, clean, nfault, nchange>>
  BY DEF Signal, hostVars, exchVars, modemVars
<1>2. nstop' \in 0 .. MaxStops
  BY <1>0, <1>1, BoundsAssumption DEF MbimTypes
<1>3. MbimTypes' /\ Leaving'
  BY <1>0, <1>1, <1>2 DEF MbimTypes, Leaving
<1>4. Exchanges'
  BY <1>0, <1>1 DEF Exchanges, Answered, Fits
<1>5. clean' => InTime'
  BY <1>0, <1>1 DEF InTime, Answered, NoCall
<1> QED BY <1>3, <1>4, <1>5 DEF MbimInv

-----------------------------------------------------------------------------
(* The reader thread *)

LEMMA Reads ==
  ASSUME MbimInv, ReadMessage
  PROVE  MbimInv'
<1> DEFINE m == Head(fromModem)
<1>0. MbimTypes /\ Exchanges /\ Leaving /\ (clean => InTime)
  BY DEF MbimInv
<1>1. /\ reader = "running" /\ fromModem # <<>> /\ mbim_recv_command(m)
      /\ fromModem' = Tail(fromModem)
      /\ UNCHANGED <<step, why, opens, ps, conn, old, stopAsked, reader, waitQuit, quitSent,
                     pending, modem, opened, hangup, clean, nfault, nchange, nstop>>
  BY DEF ReadMessage, hostVars, readerVars, countVars
<1>2. /\ m \in Messages /\ m = fromModem[1] /\ 1 \in 1 .. Len(fromModem)
      /\ fromModem' \in Seq(Messages)
      /\ Len(fromModem') = Len(fromModem) - 1
      /\ \A i \in 1 .. Len(fromModem') : i + 1 \in 1 .. Len(fromModem) /\ fromModem'[i] = fromModem[i + 1]
  <2>1. fromModem \in Seq(Messages)
    BY <1>0 DEF MbimTypes
  <2>2. /\ m \in Messages /\ Tail(fromModem) \in Seq(Messages)
        /\ Len(Tail(fromModem)) = Len(fromModem) - 1
        /\ \A i \in 1 .. Len(Tail(fromModem)) : Tail(fromModem)[i] = fromModem[i + 1]
    BY <2>1, <1>1, HeadTailProperties
  <2>3. m = fromModem[1] /\ 1 \in 1 .. Len(fromModem)
    BY <2>1, <1>1
  <2>4. \A i \in 1 .. Len(Tail(fromModem)) : i + 1 \in 1 .. Len(fromModem)
    BY <2>1, <2>2
  <2> QED BY <2>2, <2>3, <2>4, <1>1
<1>3. Fits(m) /\ \A i \in 1 .. Len(fromModem') : Fits(fromModem'[i])
  BY <1>0, <1>2 DEF Exchanges
<1> HIDE DEF m
<1>4. CASE Matches(m)
  <2>1. /\ mpc \in {"waiting", "woken"} /\ request \in Asked /\ request.id = m.id
        /\ step \in Commands /\ request.op = step
    <3>1. mpc # "ready"
      BY <1>0, <1>4 DEF Exchanges, Matches
    <3> QED BY <3>1, <1>0, <1>4 DEF Exchanges, Matches, MbimTypes
  <2>2. response' = m /\ mpc' = "woken" /\ request' = request /\ events' = events
    BY <1>1, <1>4, <2>1 DEF mbim_recv_command, CondSignal
  <2>3. m.op = step /\ m.id # 0 /\ (step \in NeverRefused => m.ok)
    BY <1>3, <2>1 DEF Fits, Asked
  <2>4. MbimTypes'
    BY <1>0, <1>1, <1>2, <2>2 DEF MbimTypes
  <2>5. Exchanges'
    <3>1. (\A i \in 1 .. Len(fromModem) : Fits(fromModem[i]))'
      BY <1>0, <1>3, <1>1, <2>1, <2>2 DEF Fits
    <3>2. \A r \in pending : r.id = request.id => r.op = step
      BY <1>0, <2>1 DEF Exchanges
    <3> QED BY <3>1, <3>2, <1>1, <2>1, <2>2, <2>3 DEF Exchanges
  <2>6. Leaving'
    BY <1>0, <1>1, <2>2 DEF Leaving
  <2>7. ASSUME clean' PROVE InTime'
    <3>1. InTime
      BY <1>0, <1>1, <2>7
    <3>2. /\ mpc = "waiting" /\ pending = {} /\ (step = "close" => NoCall)
          /\ \A j \in 1 .. Len(fromModem) : fromModem[j].id # 0 => 1 = j
      BY <3>1, <1>2, <2>3 DEF InTime
    <3>3. \A i \in 1 .. Len(fromModem') : fromModem'[i].id = 0
      <4>1. ASSUME NEW i \in 1 .. Len(fromModem'), fromModem'[i].id # 0 PROVE FALSE
        <5>1. i + 1 \in 1 .. Len(fromModem) /\ fromModem[i + 1].id # 0
          BY <4>1, <1>2
        <5>2. i + 1 = 1
          BY <5>1, <3>2
        <5> QED BY <5>2
      <4> QED BY <4>1
    <3>4. Answered'
      BY <2>2, <2>3 DEF Answered, NoAnswer
    <3>5. step \notin {"joining", "ended"}
      BY <2>1 DEF Commands, Starting
    <3> QED BY <3>1, <3>2, <3>3, <3>4, <3>5, <1>1, <2>1, <2>2 DEF InTime, NoCall
  <2> QED BY <2>4, <2>5, <2>6, <2>7 DEF MbimInv
<1>5. CASE ~Matches(m)
  <2>1. Notify(m) /\ UNCHANGED <<mpc, request, response>>
    BY <1>1, <1>5 DEF mbim_recv_command, exchVars
  <2>2. /\ events' \in Seq(EventNames)
        /\ \A i \in 1 .. Len(events') : events'[i] = "DISCONNECTED" => reader = "done"
    <3>1. events \in Seq(EventNames)
      BY <1>0 DEF MbimTypes
    <3>2. CASE events' = events
      BY <3>1, <3>2, <1>0 DEF Leaving
    <3>3. CASE \E e \in {"CALL", "NET"} : events' = Append(events, e)
      <4>1. PICK e \in {"CALL", "NET"} : events' = Append(events, e)
        BY <3>3
      <4>2. e \in EventNames
        BY DEF EventNames
      <4>3. /\ events' \in Seq(EventNames) /\ Len(events') = Len(events) + 1
            /\ \A i \in 1 .. Len(events) : events'[i] = events[i]
            /\ events'[Len(events) + 1] = e
        BY <3>1, <4>1, <4>2, AppendProperties
      <4>4. \A i \in 1 .. Len(events') : i \in 1 .. Len(events) \/ i = Len(events) + 1
        BY <3>1, <4>3
      <4> QED BY <4>1, <4>3, <4>4, <1>0 DEF Leaving
    <3> QED BY <3>2, <3>3, <2>1 DEF Notify
  <2>3. MbimTypes'
    BY <1>0, <1>1, <1>2, <2>1, <2>2 DEF MbimTypes
  <2>4. Exchanges'
    <3>1. (\A i \in 1 .. Len(fromModem) : Fits(fromModem[i]))'
      BY <1>3, <1>1, <2>1 DEF Fits
    <3> QED BY <3>1, <1>0, <1>1, <2>1 DEF Exchanges, Answered
  <2>5. Leaving'
    BY <1>0, <1>1, <2>2 DEF Leaving
  <2>6. ASSUME clean' PROVE InTime'
    <3>1. InTime
      BY <1>0, <1>1, <2>6
    <3>2. ASSUME NEW i \in 1 .. Len(fromModem'), fromModem'[i].id # 0
          PROVE  /\ mpc = "waiting" /\ fromModem'[i].id = request.id /\ pending = {}
                 /\ step = "close" => NoCall
                 /\ \A j \in 1 .. Len(fromModem') : fromModem'[j].id # 0 => i = j
      <4>1. i + 1 \in 1 .. Len(fromModem) /\ fromModem'[i] = fromModem[i + 1]
        BY <1>2
      <4>2. /\ mpc = "waiting" /\ fromModem[i + 1].id = request.id /\ pending = {}
            /\ step = "close" => NoCall
            /\ \A j \in 1 .. Len(fromModem) : fromModem[j].id # 0 => i + 1 = j
        BY <4>1, <3>1, <3>2 DEF InTime
      <4>3. ASSUME NEW j \in 1 .. Len(fromModem'), fromModem'[j].id # 0 PROVE i = j
        <5>1. j + 1 \in 1 .. Len(fromModem) /\ fromModem[j + 1].id # 0
          BY <4>3, <1>2
        <5>2. i + 1 = j + 1
          BY <5>1, <4>2
        <5> QED BY <5>2
      <4> QED BY <4>1, <4>2, <4>3
    <3> HIDE DEF NoCall
    <3>3. (NoCall <=> NoCall') /\ (Answered <=> Answered')
      BY <1>1, <2>1 DEF NoCall, Answered
    <3> QED BY <3>1, <3>2, <3>3, <1>1, <2>1 DEF InTime
  <2> QED BY <2>3, <2>4, <2>5, <2>6 DEF MbimInv
<1> QED BY <1>4, <1>5

LEMMA ReaderEnds ==
  ASSUME MbimInv, ReaderCloses \/ ReaderLeaves
  PROVE  MbimInv'
<1>0. MbimTypes /\ Exchanges /\ Leaving /\ (clean => InTime)
  BY DEF MbimInv
<1>1. CASE ReaderCloses
  <2>1. /\ reader = "running" /\ reader' = "closing"
        /\ quitSent \/ hangup \/ waitQuit
        /\ clean' = (clean /\ (quitSent \/ step \notin Commands))
        /\ UNCHANGED <<step, why, opens, ps, conn, old, mpc, request, response, events, stopAsked,
                       waitQuit, quitSent, pending, modem, opened, fromModem, hangup,
                       nfault, nchange, nstop>>
    BY <1>1 DEF ReaderCloses, hostVars, exchVars, modemVars
  <2>2. clean' \in BOOLEAN
    BY <2>1, Zenon
  <2>3. MbimTypes'
    BY <1>0, <2>1, <2>2 DEF MbimTypes
  <2>4. Exchanges'
    BY <1>0, <2>1 DEF Exchanges, Answered, Fits
  <2>5. Leaving'
    BY <1>0, <2>1 DEF Leaving
  <2>6. ASSUME clean' PROVE InTime'
    <3>1. clean /\ (quitSent \/ step \notin Commands)
      BY <2>1, <2>6, Zenon
    <3>2. InTime
      BY <1>0, <3>1
    <3>3. step \notin Commands
      BY <3>1, <3>2 DEF InTime, Commands, Starting
    <3>4. stopAsked \/ step \in {"joining", "ended"}
      BY <2>1, <3>2, <1>0 DEF InTime, Leaving
    <3> QED BY <3>2, <3>3, <3>4, <2>1 DEF InTime, Answered, NoCall
  <2> QED BY <2>3, <2>4, <2>5, <2>6 DEF MbimInv
<1>2. CASE ReaderLeaves
  <2>1. /\ reader = "closing" /\ reader' = "done"
        /\ mpc' = (IF mpc = "waiting" THEN "woken" ELSE mpc)
        /\ events' = Append(events, "DISCONNECTED")
        /\ UNCHANGED <<step, why, opens, ps, conn, old, request, response, stopAsked, waitQuit,
                       quitSent, pending, modem, opened, fromModem, hangup, clean,
                       nfault, nchange, nstop>>
    BY <1>2 DEF ReaderLeaves, CondSignal, hostVars, modemVars, countVars
  <2>2. events' \in Seq(EventNames)
    BY <1>0, <2>1 DEF MbimTypes, EventNames
  <2>3. MbimTypes'
    BY <1>0, <2>1, <2>2 DEF MbimTypes
  <2>4. Exchanges'
    BY <1>0, <2>1 DEF Exchanges, Answered, Fits, MbimTypes
  <2>5. Leaving'
    BY <1>0, <2>1 DEF Leaving
  <2>6. ASSUME clean' PROVE InTime'
    <3>1. InTime
      BY <1>0, <2>1, <2>6
    <3>2. mpc = "ready" /\ mpc' = "ready"
      BY <3>1, <2>1, <1>0 DEF InTime, Exchanges, MbimTypes
    <3> QED BY <3>1, <3>2, <2>1 DEF InTime, Answered, NoCall
  <2> QED BY <2>3, <2>4, <2>5, <2>6 DEF MbimInv
<1> QED BY <1>1, <1>2

-----------------------------------------------------------------------------
(* The modem *)

\* Running a command: only connect brings a call up, and close takes it down.
LEMMA RunsCommand ==
  ASSUME MbimTypes, NEW r \in Asked
  PROVE  /\ Effect(r.op) \in [Kinds -> {"yes", "no"}]
         /\ r.op \in {"deactivate", "close"} => Effect(r.op)["call"] = "no"
         /\ Answer(r) \in Messages /\ Answer(r).id = r.id /\ Answer(r).op = r.op
         /\ r.op \in NeverRefused => Answer(r).ok
<1>1. modem \in [Kinds -> {"yes", "no"}] /\ r.id \in Nat /\ r.op \in Commands
  BY DEF MbimTypes, Asked
<1>2. /\ Drop(modem) \in [Kinds -> {"yes", "no"}] /\ Drop(modem)["call"] = "no"
      /\ [modem EXCEPT !["call"] = "yes"] \in [Kinds -> {"yes", "no"}]
      /\ [modem EXCEPT !["packet"] = "yes"] \in [Kinds -> {"yes", "no"}]
  BY <1>1 DEF Drop, Kinds
<1>3. /\ Effect(r.op) \in [Kinds -> {"yes", "no"}]
      /\ r.op \in {"deactivate", "close"} => Effect(r.op)["call"] = "no"
  <2>1. CASE r.op = "connect"
    BY <2>1, <1>1, <1>2 DEF Effect
  <2>2. CASE r.op = "attach"
    BY <2>2, <1>1, <1>2 DEF Effect
  <2>3. CASE r.op \in {"deactivate", "close"}
    BY <2>3, <1>1, <1>2 DEF Effect
  <2>4. CASE r.op \notin {"connect", "attach", "deactivate", "close"}
    BY <2>4, <1>1 DEF Effect
  <2> QED BY <2>1, <2>2, <2>3, <2>4
<1>4. KindOf(r.op) \in Kinds
  BY DEF KindOf, Kinds
<1>5. Effect(r.op)[KindOf(r.op)] \in Values
  BY <1>3, <1>4 DEF Values
<1>6. Succeeds(r.op) \in BOOLEAN
  <2>1. CASE r.op = "connect"
    BY <2>1 DEF Succeeds
  <2>2. CASE r.op = "attach"
    BY <2>2 DEF Succeeds
  <2>3. CASE r.op = "ip"
    BY <2>3 DEF Succeeds
  <2>4. CASE r.op \notin {"connect", "attach", "ip"}
    BY <2>4 DEF Succeeds
  <2> QED BY <2>1, <2>2, <2>3, <2>4
<1>7. r.op \in NeverRefused => Succeeds(r.op)
  BY DEF Succeeds, NeverRefused
<1>8. /\ Answer(r) \in Messages /\ Answer(r).id = r.id /\ Answer(r).op = r.op
      /\ Answer(r).ok = Succeeds(r.op)
  BY <1>1, <1>4, <1>5, <1>6 DEF Answer, Messages
<1> QED BY <1>3, <1>7, <1>8

LEMMA ModemWorks ==
  ASSUME MbimInv, NEW r \in pending, ModemRuns(r)
  PROVE  MbimInv'
<1> DEFINE q == Inform(modem, Effect(r.op), <<Answer(r)>>)
<1>0. MbimTypes /\ Exchanges /\ Leaving /\ (clean => InTime)
  BY DEF MbimInv
<1>1. /\ ~hangup /\ pending' = pending \ {r} /\ modem' = Effect(r.op)
      /\ opened' = (IF r.op = "open" THEN TRUE ELSE IF r.op = "close" THEN FALSE ELSE opened)
      /\ fromModem' = q
      /\ UNCHANGED <<step, why, opens, ps, conn, old, mpc, request, response, events, stopAsked,
                     reader, waitQuit, quitSent, hangup, clean, nfault, nchange, nstop>>
  BY DEF ModemRuns, hostVars, exchVars, readerVars, countVars
<1>2. r \in Asked
  BY <1>0 DEF MbimTypes
<1>3. /\ Effect(r.op) \in [Kinds -> {"yes", "no"}]
      /\ r.op \in {"deactivate", "close"} => Effect(r.op)["call"] = "no"
      /\ Answer(r) \in Messages /\ Answer(r).id = r.id /\ Answer(r).op = r.op
      /\ r.op \in NeverRefused => Answer(r).ok
  BY <1>0, <1>2, RunsCommand
<1>4. /\ q \in Seq(Messages)
      /\ \A i \in 1 .. Len(q) :
           \/ i \in 1 .. Len(fromModem) /\ q[i] = fromModem[i]
           \/ i = Len(fromModem) + 1 /\ q[i] = Answer(r)
           \/ q[i].id = 0 /\ q[i].op = "none"
  <2>1. <<Answer(r)>> \in Seq(Messages) /\ Len(<<Answer(r)>>) = 1 /\ <<Answer(r)>>[1] = Answer(r)
    BY <1>3
  <2> DEFINE first == <<Answer(r)>>
             after == Effect(r.op)
  <2> HIDE DEF first, after
  <2>2. /\ first \in Seq(Messages) /\ Len(first) = 1 /\ first[1] = Answer(r)
        /\ Len(first) <= 1
    BY <2>1 DEF first
  <2>3. after \in [Kinds -> {"yes", "no"}]
    BY <1>3 DEF after
  <2>4. /\ Inform(modem, after, first) \in Seq(Messages)
        /\ \A i \in 1 .. Len(Inform(modem, after, first)) :
             \/ i \in 1 .. Len(fromModem) /\ Inform(modem, after, first)[i] = fromModem[i]
             \/ /\ Len(first) = 1 /\ i = Len(fromModem) + 1
                /\ Inform(modem, after, first)[i] = first[1]
             \/ /\ Inform(modem, after, first)[i].id = 0
                /\ Inform(modem, after, first)[i].op = "none"
    BY <2>2, <2>3, <1>0, InformDoes
  <2>5. q = Inform(modem, after, first)
    BY DEF first, after
  <2> HIDE DEF q
  <2> QED BY <2>2, <2>4, <2>5
<1> HIDE DEF q
<1>5. MbimTypes'
  <2>1. IsFiniteSet(pending') /\ pending' \in SUBSET Asked
    BY <1>0, <1>1, FS_RemoveElement DEF MbimTypes
  <2>2. opened' \in BOOLEAN
    BY <1>0, <1>1 DEF MbimTypes
  <2>3. modem' \in [Kinds -> {"yes", "no"}] /\ fromModem' \in Seq(Messages)
    BY <1>1, <1>3, <1>4
  <2>4. UNCHANGED <<step, why, opens, ps, conn, old, mpc, request, response, events, stopAsked,
                    reader, waitQuit, quitSent, hangup, clean, nfault, nchange, nstop>>
    BY <1>1
  <2> QED BY <1>0, <2>1, <2>2, <2>3, <2>4 DEF MbimTypes
<1>6. Exchanges'
  <2>1. ASSUME NEW i \in 1 .. Len(q) PROVE Fits(q[i])
    <3>1. CASE i \in 1 .. Len(fromModem) /\ q[i] = fromModem[i]
      BY <3>1, <1>0 DEF Exchanges
    <3>2. CASE q[i] = Answer(r)
      BY <3>2, <1>0, <1>3 DEF Exchanges, Fits
    <3>3. CASE q[i].id = 0 /\ q[i].op = "none"
      <4>1. mpc # "ready" => request.id # 0
        BY <1>0 DEF Exchanges, Asked
      <4>2. "none" \notin NeverRefused
        BY DEF NeverRefused, Commands, Starting
      <4> QED BY <3>3, <4>1, <4>2 DEF Fits
    <3> QED BY <1>4, <3>1, <3>2, <3>3
  <2>2. (\A i \in 1 .. Len(fromModem) : Fits(fromModem[i]))'
    BY <2>1, <1>1 DEF Fits
  <2> QED BY <2>2, <1>0, <1>1 DEF Exchanges, Answered
<1>7. Leaving'
  BY <1>0, <1>1 DEF Leaving
<1>8. ASSUME clean' PROVE InTime'
  <2>1. InTime
    BY <1>0, <1>1, <1>8
  <2>2. mpc = "waiting" /\ r = request /\ pending = {request} /\ pending' = {}
    BY <2>1, <1>1 DEF InTime
  <2>3. \A i \in 1 .. Len(fromModem) : fromModem[i].id = 0
    BY <2>1, <2>2 DEF InTime
  <2>4. step \in Commands /\ r.op = step /\ ~Answered /\ step \notin {"joining", "ended"}
    BY <1>0, <2>2 DEF Exchanges, Answered, Commands, Starting
  <2>5. step = "close" => NoCall'
    BY <1>1, <1>3, <2>4 DEF NoCall
  <2>6. ASSUME NEW i \in 1 .. Len(q), q[i].id # 0
        PROVE  i = Len(fromModem) + 1 /\ q[i] = Answer(r)
    BY <2>6, <2>3, <1>4
  <2>7. \A i \in 1 .. Len(q) : q[i].id # 0 =>
          q[i].id = request.id /\ \A j \in 1 .. Len(q) : q[j].id # 0 => i = j
    BY <2>6, <2>2, <1>3
  <2>8. ~Answered'
    BY <2>4, <1>1 DEF Answered
  <2> HIDE DEF NoCall
  <2> QED BY <2>1, <2>2, <2>4, <2>5, <2>7, <2>8, <1>1 DEF InTime
<1> QED BY <1>5, <1>6, <1>7, <1>8 DEF MbimInv

LEMMA NetworkChanges ==
  ASSUME MbimInv, NEW k \in Kinds, NetworkChange(k)
  PROVE  MbimInv'
<1>0. MbimTypes /\ Exchanges /\ Leaving /\ (clean => InTime)
  BY DEF MbimInv
<1>1. /\ nchange < MaxChanges /\ nchange' = nchange + 1
      /\ UNCHANGED <<step, why, opens, ps, conn, old, mpc, request, response, events, stopAsked,
                     reader, waitQuit, quitSent, pending, opened, hangup, clean, nfault, nstop>>
  BY DEF NetworkChange, hostVars, exchVars, readerVars
<1>2. /\ modem' \in [Kinds -> {"yes", "no"}] /\ (modem["call"] = "no" => modem'["call"] = "no")
      /\ fromModem' = Inform(modem, modem', <<>>)
  <2>0. modem \in [Kinds -> {"yes", "no"}]
    BY <1>0 DEF MbimTypes
  <2>1. fromModem' = Inform(modem, modem', <<>>)
    BY DEF NetworkChange
  <2>2. CASE k = "register"
    <3>1. CASE modem[k] = "no"
      <4>1. modem' = [modem EXCEPT !["register"] = "yes"]
        BY <2>2, <3>1 DEF NetworkChange
      <4> QED BY <4>1, <2>0, <2>1 DEF Kinds
    <3>2. CASE modem[k] = "yes"
      <4>1. modem' = [x \in Kinds |-> "no"]
        BY <2>2, <3>2 DEF NetworkChange
      <4> QED BY <4>1, <2>1 DEF Kinds
    <3> QED BY <2>0, <3>1, <3>2
  <2>3. CASE k = "packet"
    <3>1. CASE modem[k] = "yes"
      <4>1. modem' = Drop([modem EXCEPT !["packet"] = "no"])
        BY <2>3, <3>1 DEF NetworkChange
      <4> QED BY <4>1, <2>0, <2>1 DEF Drop, Kinds
    <3>2. CASE modem[k] = "no"
      <4>1. modem' = modem
        BY <2>3, <3>2 DEF NetworkChange
      <4> QED BY <4>1, <2>0, <2>1
    <3> QED BY <2>0, <3>1, <3>2
  <2>4. CASE k = "call"
    <3>1. modem' = Drop(modem)
      BY <2>4 DEF NetworkChange
    <3> QED BY <3>1, <2>0, <2>1 DEF Drop, Kinds
  <2> QED BY <2>2, <2>3, <2>4 DEF Kinds
<1>3. /\ fromModem' \in Seq(Messages)
      /\ \A i \in 1 .. Len(fromModem') :
           \/ i \in 1 .. Len(fromModem) /\ fromModem'[i] = fromModem[i]
           \/ fromModem'[i].id = 0 /\ fromModem'[i].op = "none"
  <2> DEFINE first == <<>>
             after == modem'
  <2>1. first \in Seq(Messages) /\ Len(first) = 0 /\ Len(first) <= 1
    OBVIOUS
  <2> HIDE DEF first, after
  <2>2. after \in [Kinds -> {"yes", "no"}]
    BY <1>2 DEF after
  <2>3. /\ Inform(modem, after, first) \in Seq(Messages)
        /\ \A i \in 1 .. Len(Inform(modem, after, first)) :
             \/ i \in 1 .. Len(fromModem) /\ Inform(modem, after, first)[i] = fromModem[i]
             \/ /\ Len(first) = 1 /\ i = Len(fromModem) + 1
                /\ Inform(modem, after, first)[i] = first[1]
             \/ /\ Inform(modem, after, first)[i].id = 0
                /\ Inform(modem, after, first)[i].op = "none"
    BY <2>1, <2>2, <1>0, InformDoes
  <2>4. fromModem' = Inform(modem, after, first)
    BY <1>2 DEF first, after
  <2> QED BY <2>1, <2>3, <2>4
<1>4. MbimTypes'
  <2>1. nchange' \in 0 .. MaxChanges
    BY <1>0, <1>1, BoundsAssumption DEF MbimTypes
  <2> QED BY <1>0, <1>1, <1>2, <1>3, <2>1 DEF MbimTypes
<1>5. Exchanges'
  <2>1. mpc # "ready" => request.id # 0
    BY <1>0 DEF Exchanges, Asked
  <2>2. "none" \notin NeverRefused
    BY DEF NeverRefused, Commands, Starting
  <2>3. (\A i \in 1 .. Len(fromModem) : Fits(fromModem[i]))'
    BY <1>0, <1>1, <1>3, <2>1, <2>2 DEF Exchanges, Fits
  <2> QED BY <2>3, <1>0, <1>1 DEF Exchanges, Answered
<1>6. Leaving'
  BY <1>0, <1>1 DEF Leaving
<1>7. ASSUME clean' PROVE InTime'
  <2>1. InTime
    BY <1>0, <1>1, <1>7
  <2>2. NoCall => NoCall'
    BY <1>1, <1>2 DEF NoCall
  <2>3. (Answered <=> Answered')
    BY <1>1 DEF Answered
  <2>4. \A i \in 1 .. Len(fromModem') : fromModem'[i].id # 0 =>
          i \in 1 .. Len(fromModem) /\ fromModem'[i] = fromModem[i]
    BY <1>3
  <2> HIDE DEF NoCall
  <2> QED BY <2>1, <2>2, <2>3, <2>4, <1>1 DEF InTime
<1> QED BY <1>4, <1>5, <1>6, <1>7 DEF MbimInv

LEMMA HangsUp ==
  ASSUME MbimInv, Hangup
  PROVE  MbimInv'
<1>0. MbimTypes /\ Exchanges /\ Leaving
  BY DEF MbimInv
<1>1. /\ nfault < MaxFaults /\ nfault' = nfault + 1 /\ clean' = FALSE
      /\ hangup' = TRUE /\ pending' = {} /\ opened' = FALSE
      /\ modem' = [k \in Kinds |-> "no"]
      /\ UNCHANGED <<step, why, opens, ps, conn, old, mpc, request, response, events, stopAsked,
                     reader, waitQuit, quitSent, fromModem, nchange, nstop>>
  BY DEF Hangup, hostVars, exchVars, readerVars
<1>2. nfault' \in 0 .. MaxFaults
  BY <1>0, <1>1, BoundsAssumption DEF MbimTypes
<1>3. MbimTypes'
  <2>1. IsFiniteSet(pending')
    BY <1>1, FS_EmptySet
  <2>2. clean' \in BOOLEAN /\ hangup' \in BOOLEAN /\ opened' \in BOOLEAN
    BY <1>1, Zenon
  <2>3. modem' \in [Kinds -> {"yes", "no"}] /\ pending' \in SUBSET Asked
    BY <1>1
  <2>4. UNCHANGED <<step, why, opens, ps, conn, old, mpc, request, response, events, stopAsked,
                    reader, waitQuit, quitSent, fromModem, nchange, nstop>>
    BY <1>1
  <2> QED BY <1>0, <1>2, <2>1, <2>2, <2>3, <2>4 DEF MbimTypes
<1>4. Exchanges' /\ Leaving'
  BY <1>0, <1>1 DEF Exchanges, Leaving, Answered, Fits
<1> QED BY <1>1, <1>3, <1>4 DEF MbimInv

-----------------------------------------------------------------------------
(* Theorems *)

LEMMA MbimStarts ==
  Init => MbimInv
<1> SUFFICES ASSUME Init PROVE MbimInv
  OBVIOUS
<1>1. MbimTypes
  <2>1. IsFiniteSet(pending) /\ pending \in SUBSET Asked
    BY FS_EmptySet DEF Init
  <2>2. modem \in [Kinds -> {"yes", "no"}] /\ old \in [Kinds -> Values]
    BY DEF Init, Kinds, Values
  <2>3. response \in Messages /\ request \in Asked \cup {NULL}
    BY DEF Init, NoAnswer, Messages, Values
  <2>4. /\ ps \in BOOLEAN /\ stopAsked \in BOOLEAN /\ waitQuit \in BOOLEAN /\ quitSent \in BOOLEAN
        /\ opened \in BOOLEAN /\ hangup \in BOOLEAN /\ clean \in BOOLEAN
    BY Zenon DEF Init
  <2>5. /\ step \in Commands /\ opens \in 0 .. 10 /\ nfault \in 0 .. MaxFaults
        /\ nchange \in 0 .. MaxChanges /\ nstop \in 0 .. MaxStops
        /\ events \in Seq(EventNames) /\ fromModem \in Seq(Messages)
    BY BoundsAssumption DEF Init, Commands, Starting
  <2>6. why = "init" /\ mpc = "ready" /\ conn = Unknow /\ reader = "running"
    BY DEF Init
  <2> QED BY <2>1, <2>2, <2>3, <2>4, <2>5, <2>6 DEF MbimTypes
<1>2. Exchanges /\ Leaving
  <2>1. /\ mpc = "ready" /\ request = NULL /\ response = NoAnswer /\ pending = {}
        /\ fromModem = <<>> /\ events = <<>> /\ waitQuit = stopAsked
    BY Zenon DEF Init
  <2>2. Len(fromModem) = 0 /\ Len(events) = 0 /\ ~Answered
    BY <2>1 DEF Answered
  <2> QED BY <2>1, <2>2 DEF Exchanges, Leaving
<1>3. InTime
  BY DEF Init, InTime, Answered, Commands, Starting
<1> QED BY <1>1, <1>2, <1>3 DEF MbimInv

LEMMA MbimStays ==
  ASSUME MbimInv, [Next]_vars
  PROVE  MbimInv'
<1>1. CASE MainStep
  BY <1>1, Sends, Returns, Loops, Joins DEF MainStep
<1>2. CASE Timeout
  BY <1>2, Returns
<1>3. CASE ReaderStep
  BY <1>3, Reads, ReaderEnds DEF ReaderStep
<1>4. CASE ModemStep
  BY <1>4, ModemWorks DEF ModemStep
<1>5. CASE Signal
  BY <1>5, Signals
<1>6. CASE Hangup
  BY <1>6, HangsUp
<1>7. CASE \E k \in Kinds : NetworkChange(k)
  BY <1>7, NetworkChanges
<1>8. CASE UNCHANGED vars
  <2>1. UNCHANGED <<step, why, opens, ps, conn, old, mpc, request, response, events, stopAsked,
                    reader, waitQuit, quitSent, pending, modem, opened, fromModem, hangup, clean,
                    nfault, nchange, nstop>>
    BY <1>8 DEF vars, hostVars, exchVars, readerVars, modemVars, countVars
  <2>2. MbimTypes' /\ Leaving'
    BY <2>1 DEF MbimInv, MbimTypes, Leaving
  <2>3. Exchanges'
    BY <2>1 DEF MbimInv, Exchanges, Answered, Fits
  <2>4. clean' => InTime'
    BY <2>1 DEF MbimInv, InTime, Answered, NoCall
  <2> QED BY <2>2, <2>3, <2>4 DEF MbimInv
<1> QED BY <1>1, <1>2, <1>3, <1>4, <1>5, <1>6, <1>7, <1>8 DEF Next, Ended

\* The invariant of the exchange: what carries the id of the command that waits
\* is its answer, and while every command was answered at most one is under way
\* (mbim_send_command, mbim_recv_command, mbim_read_thread).
THEOREM MbimInvariant == Spec => []MbimInv
<1>1. MbimInv /\ [Next]_vars => MbimInv'
  BY MbimStays
<1> QED BY MbimStarts, <1>1, PTL DEF Spec

\* Commands work with their own answers, and a stop leaves no call, whatever
\* faults, changes and signals there are (mbim_send_command, mbim_deinit).
THEOREM CallIsUnderControl == Spec => []CallUnderControl
<1>1. MbimInv => CallUnderControl
  <2> SUFFICES ASSUME MbimInv PROVE CallUnderControl
    OBVIOUS
  <2>1. TypeOK
    BY DEF MbimInv, MbimTypes, TypeOK, EventNames
  <2>2. AnswerIsMine
    BY DEF MbimInv, Exchanges, AnswerIsMine
  <2>3. StopLeavesNoCall
    BY DEF MbimInv, InTime, NoCall, StopLeavesNoCall
  <2> QED BY <2>1, <2>2, <2>3 DEF CallUnderControl
<1> QED BY <1>1, MbimInvariant, PTL
=============================================================================
