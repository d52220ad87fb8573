------------------------------ MODULE QmiProofs ------------------------------
(***************************************************************************)
(* The two ends of QMI in the router: the transactions of quectel-CM and   *)
(* the data path of the driver.                                            *)
(*                                                                         *)
(* Transactions, for any services, any counter width and any number of     *)
(* requests: a caller gets the answer of its own request and of no other,  *)
(* which makes the layer an implementation of the exchange that the        *)
(* request functions rely on.  A transaction id returns after MaxTid       *)
(* requests, and is_response() sees nothing but the service and the id.    *)
(* What must be true of the modem is said by Timely: it answers, or drops, *)
(* a request before the counter has gone round.  Without it the theorem is *)
(* false, and with fewer requests than ids it holds by itself.             *)
(*                                                                         *)
(* The driver's uplink, for any number of virtual devices, any limits and  *)
(* any environment: packets are neither lost nor doubled, only the work    *)
(* item lets them be overtaken, a freed buffer is used only in the race    *)
(* named, and the carriers follow the contexts.  The proof sees a queue as *)
(* the set of packets in it.  The invariant says which sets are disjoint   *)
(* and which packets are older (Conserved, Ordered), what the steps of     *)
(* start_xmit and of disconnect imply (Shape, Ends), and what the managers *)
(* have done to the devices (Follows).  The downlink has an invariant of   *)
(* its own, DataInv, at the end.                                           *)
(***************************************************************************)
EXTENDS QmiTransaction, QmapDriver, QmapData, SequenceTheorems, FiniteSetTheorems, TLAPS

-----------------------------------------------------------------------------
(* Transactions *)

Message == [svc : Services \cup {Ctl}, tid : 0..MaxTid, n : 0..MaxCalls]
Commands == {"RIL_REQUEST_QUIT", "SIG_EVENT_STOP"}

\* Messages between the modem and the reader, and requests not run.
Flight == pending \cup ToSet(fromModem)

\* No request, and no answer, is under way for MaxTid requests or more.
Timely == \A m \in Flight : m.tid # 0 => nreq < m.n + MaxTid

-----------------------------------------------------------------------------
(* The inductive invariant *)

ExchangeTypes == TypeOK /\ fromModem \in Seq(Message) /\ toReader \in Seq(Commands)

\* A request under way has been issued and is run once; what the modem answers
\* it has run.  The request being sent has not reached the modem.
Requests ==
  /\ ran \subseteq 1..nreq
  /\ \A m \in Flight : m.tid # 0 => m.n \in 1..nreq
  /\ \A m \in pending : m.tid # 0 /\ m.n \notin ran
  /\ \A l, m \in pending : l.n = m.n => l = m
  /\ \A m \in ToSet(fromModem) : m.tid # 0 => m.n \in ran
  /\ mpc = "sending" => nreq \notin ran /\ \A m \in pending : m.n # nreq

\* s_pRequest is the last request, with the id last drawn from its counter.
Registered ==
  /\ sRequest # NULL =>
       /\ sRequest.n = nreq /\ nreq > 0
       /\ sRequest.tid = tid[Counter(sRequest.svc)] /\ sRequest.tid # 0
  /\ mpc = "sending" => sRequest # NULL

\* Where the two threads can be, and how many waits have expired there.
Waits ==
  /\ mpc \in {"idle", "sending"} => quarter = 0
  /\ mpc = "waiting" => quarter < Quarters
  /\ mpc = "expired" => quarter > 0
  /\ fd <=> rpc = "running"
  /\ rpc = "opening" => toMain = {} /\ mpc = "idle"
  /\ StrandedOnlyBetweenWaits
  /\ WaiterIsRegistered

Basics == ExchangeTypes /\ Requests /\ Registered /\ Waits

\* How many ids a counter has given out since message m got its own, as far as
\* the id shows it.
Age(m) ==
  LET t == tid[Counter(m.svc)] IN IF t >= m.tid THEN t - m.tid ELSE t + MaxTid - m.tid

\* No id is older than the requests issued since.
Ages == \A m \in Flight : m.tid # 0 => m.n + Age(m) <= nreq

\* Only the answer of the last request can be taken for it.
OnlyMine ==
  /\ sRequest # NULL => \A m \in Flight : is_response(sRequest, m) => m.n = nreq
  /\ sResponse # NULL => sResponse.n = nreq /\ sResponse.n \in ran

ExchangeInv == Basics /\ Ages /\ OnlyMine /\ AnswerIsMine

-----------------------------------------------------------------------------
(* Operators *)

LEMMA NullIsMessage == NULL \in Message /\ NULL.tid = 0
  BY TidAssumption, BoundsAssumption DEF NULL, Message

LEMMA NextTidIsId == \A t \in 0..MaxTid : NextTid(t) \in 1..MaxTid
  BY TidAssumption DEF NextTid

LEMMA CounterIsCounter == \A s : Counter(s) \in {"ctl", "mux"}
  BY DEF Counter

LEMMA AppendAdds ==
  ASSUME NEW S, NEW s \in Seq(S), NEW e \in S
  PROVE  Append(s, e) \in Seq(S) /\ ToSet(Append(s, e)) = ToSet(s) \cup {e}
<1>1. /\ Append(s, e) \in Seq(S) /\ Len(s) \in Nat /\ DOMAIN s = 1..Len(s)
      /\ DOMAIN Append(s, e) = 1..Len(s) + 1 /\ Append(s, e)[Len(s) + 1] = e
      /\ \A i \in 1..Len(s) : Append(s, e)[i] = s[i]
  OBVIOUS
<1>2. ASSUME NEW x \in ToSet(Append(s, e)) PROVE x \in ToSet(s) \cup {e}
  <2>1. PICK i \in 1..Len(s) + 1 : x = Append(s, e)[i]
    BY <1>1, <1>2 DEF ToSet
  <2>. QED
    BY <1>1, <2>1 DEF ToSet
<1>3. ASSUME NEW x \in ToSet(s) PROVE x \in ToSet(Append(s, e))
  <2>1. PICK i \in 1..Len(s) : x = s[i]
    BY <1>1, <1>3 DEF ToSet
  <2>. QED
    BY <1>1, <2>1 DEF ToSet
<1>4. e \in ToSet(Append(s, e))
  BY <1>1 DEF ToSet
<1>. QED
  BY <1>1, <1>2, <1>3, <1>4

LEMMA TailTakes ==
  ASSUME NEW S, NEW s \in Seq(S), s # <<>>
  PROVE  /\ Head(s) \in S /\ Head(s) \in ToSet(s)
         /\ Tail(s) \in Seq(S) /\ ToSet(Tail(s)) \subseteq ToSet(s)
  BY DEF ToSet

LEMMA SetOfSeq == ASSUME NEW S, NEW s \in Seq(S) PROVE ToSet(s) \subseteq S
  BY DEF ToSet

-----------------------------------------------------------------------------
(* The types *)

\* The types without what the definition of TypeOK says of sequences.
Plain ==
  /\ mpc \in {"idle", "sending", "waiting", "expired", "woken", "joining", "ended"}
  /\ quarter \in 0..Quarters
  /\ tid \in [{"ctl", "mux"} -> 0..MaxTid]
  /\ nreq \in 0..MaxCalls
  /\ sRequest \in Message /\ sResponse \in Message /\ pending \subseteq Message
  /\ result \in [kind : Results, n : 0..MaxCalls]
  /\ rpc \in {"opening", "running", "closed", "leaving", "done"}
  /\ waitForQuit \in BOOLEAN /\ fd \in BOOLEAN /\ hangup \in BOOLEAN
  /\ toMain \subseteq {"CONNECTED", "DISCONNECTED", "INDICATION"}
  /\ ran \subseteq 1..MaxCalls
  /\ ninds \in 0..MaxInds /\ nstops \in 0..MaxStops
  /\ fromModem \in Seq(Message) /\ toReader \in Seq(Commands)

LEMMA TypesArePlain == ExchangeTypes <=> Plain
<1>1. toReader \in Seq(Commands) => ToSet(toReader) \subseteq Commands
  BY SetOfSeq
<1>2. /\ \A r \in {sRequest, sResponse} \cup pending : r \in Message
      <=> sRequest \in Message /\ sResponse \in Message /\ pending \subseteq Message
  OBVIOUS
<1>. QED
  BY <1>1, <1>2 DEF ExchangeTypes, TypeOK, Plain, Message, Commands

\* A call returns.
LEMMA ReturnTypes ==
  ASSUME Plain, NEW k \in Results, NEW i \in 0..MaxCalls, Return(k, i)
  PROVE  /\ mpc' = "idle" /\ quarter' \in 0..Quarters
         /\ result' \in [kind : Results, n : 0..MaxCalls]
  BY QuartersAssumption DEF Return

LEMMA InitTypes == Init => ExchangeTypes
<1> SUFFICES ASSUME Init PROVE Plain
  BY TypesArePlain
<1>1. waitForQuit \in BOOLEAN /\ fd \in BOOLEAN /\ hangup \in BOOLEAN
  BY Zenon DEF Init
<1>2. tid \in [{"ctl", "mux"} -> 0..MaxTid]
  BY TidAssumption DEF Init
<1>3. result \in [kind : Results, n : 0..MaxCalls]
  BY BoundsAssumption DEF Init, NoResult, Results
<1>4. fromModem \in Seq(Message) /\ toReader \in Seq(Commands)
  BY DEF Init
<1>. QED
  BY <1>1, <1>2, <1>3, <1>4, NullIsMessage, QuartersAssumption, BoundsAssumption DEF Init, Plain

LEMMA MainTypes == ASSUME Basics, MainStep PROVE ExchangeTypes'
<1> USE DEF mainVars, sharedVars, readerVars, modemVars
<1>0. Plain
  BY TypesArePlain DEF Basics
<1> SUFFICES Plain'
  BY TypesArePlain, PTL
<1>1. ASSUME NEW s \in Services \cup {Ctl}, BeginSend(s) PROVE Plain'
  <2>1. /\ tid' \in [{"ctl", "mux"} -> 0..MaxTid] /\ nreq' \in 0..MaxCalls
        /\ NextTid(tid[Counter(s)]) \in 0..MaxTid
    BY <1>0, <1>1, NextTidIsId, CounterIsCounter, BoundsAssumption DEF BeginSend, Plain
  <2>2. sRequest' \in Message /\ sResponse' \in Message
    BY <1>1, <2>1, NullIsMessage DEF BeginSend, Compose, Message
  <2>3. result' \in [kind : Results, n : 0..MaxCalls] /\ mpc' \in {"sending", "idle"}
    BY <1>1, BoundsAssumption DEF BeginSend, Results, NoResult
  <2>. QED
    BY <1>0, <1>1, <2>1, <2>2, <2>3 DEF BeginSend, Plain
<1>2. ASSUME NEW w \in BOOLEAN, SendQMI(w) PROVE Plain'
  BY <1>0, <1>2 DEF SendQMI, Plain
<1>3. CASE SendFails
  BY <1>0, <1>3, ReturnTypes, BoundsAssumption DEF SendFails, Plain, Return, Results
<1>4. CASE QuarterExpires
  BY <1>0, <1>4, QuartersAssumption DEF QuarterExpires, Plain, Basics, Waits
<1>5. CASE AfterExpiry
  BY <1>0, <1>5, ReturnTypes, BoundsAssumption DEF AfterExpiry, Plain, Return, Results
<1>6. CASE Wake
  <2>1. sResponse.n \in 0..MaxCalls /\ {"answer", "null"} \subseteq Results /\ 0 \in 0..MaxCalls
    BY <1>0, BoundsAssumption DEF Plain, Message, Results
  <2>2. mpc' = "idle" /\ quarter' \in 0..Quarters /\ result' \in [kind : Results, n : 0..MaxCalls]
    BY <1>0, <1>6, <2>1, ReturnTypes DEF Wake
  <2>. QED
    BY <1>0, <1>6, <2>2 DEF Wake, Plain, Return
<1>7. CASE QuitRequest
  <2>1. toReader' \in Seq(Commands)
    BY <1>0, <1>7, AppendAdds DEF QuitRequest, Plain, Commands
  <2>. QED
    BY <1>0, <1>7, <2>1 DEF QuitRequest, Plain
<1>8. CASE QuitOnDisconnect
  BY <1>0, <1>8 DEF QuitOnDisconnect, Plain
<1>9. CASE Join
  BY <1>0, <1>9 DEF Join, Plain
<1>. QED
  BY <1>1, <1>2, <1>3, <1>4, <1>5, <1>6, <1>7, <1>8, <1>9 DEF MainStep

\* What QmiThreadRecvQMI(NULL) may do to the shared state and to the caller.
LEMMA RecvNullDoes ==
  ASSUME RecvNull
  PROVE  /\ UNCHANGED <<quarter, tid, nreq, result, toMain>>
         /\ \/ sRequest = NULL /\ UNCHANGED <<mpc, sRequest, sResponse>>
            \/ /\ sRequest # NULL /\ sRequest' = NULL /\ sResponse' = NULL
               /\ mpc' = IF mpc = "waiting" THEN "woken" ELSE mpc
  BY DEF RecvNull, CondSignal, mainVars, sharedVars

\* The same of QmiThreadRecvQMI with a message.
LEMMA RecvQMIDoes ==
  ASSUME NEW m, RecvQMI(m)
  PROVE  /\ UNCHANGED <<quarter, tid, nreq, result>>
         /\ toMain' = toMain \/ toMain' = toMain \cup {"INDICATION"}
         /\ \/ UNCHANGED <<mpc, sRequest, sResponse>>
            \/ /\ sRequest # NULL /\ is_response(sRequest, m)
               /\ sRequest' = NULL /\ sResponse' = m
               /\ mpc' = IF mpc = "waiting" THEN "woken" ELSE mpc
  BY DEF RecvQMI, CondSignal, Event, mainVars, sharedVars

LEMMA ReaderTypes == ASSUME Basics, ReaderStep PROVE ExchangeTypes'
<1> USE DEF mainVars, sharedVars, readerVars, modemVars
<1>0. Plain
  BY TypesArePlain DEF Basics
<1> SUFFICES Plain'
  BY TypesArePlain, PTL
<1>1. CASE OpenDevice
  <2>1. fd' \in BOOLEAN
    BY <1>1, Zenon DEF OpenDevice
  <2>. QED
    BY <1>0, <1>1, <2>1 DEF OpenDevice, Plain, Event
<1>2. CASE ReadMessage
  <2>1. fromModem' \in Seq(Message) /\ Head(fromModem) \in Message
    BY <1>0, <1>2, TailTakes DEF ReadMessage, Plain
  <2>2. RecvQMI(Head(fromModem))
    BY <1>2 DEF ReadMessage
  <2>3. /\ mpc' \in {mpc, "woken"} /\ sRequest' \in {sRequest, NULL}
        /\ sResponse' \in {sResponse, Head(fromModem)}
        /\ toMain' \in {toMain, toMain \cup {"INDICATION"}}
        /\ UNCHANGED <<quarter, tid, nreq, result>>
    BY <2>2, RecvQMIDoes
  <2>. QED
    BY <1>0, <1>2, <2>1, <2>3, NullIsMessage DEF ReadMessage, Plain
<1>3. CASE PollTimeout
  BY <1>0, <1>3, RecvNullDoes, NullIsMessage DEF PollTimeout, Plain
<1>4. CASE ReadControl
  <2>1. toReader' \in Seq(Commands)
    BY <1>0, <1>4, TailTakes DEF ReadControl, Plain
  <2>2. waitForQuit' \in BOOLEAN /\ fd' \in BOOLEAN
    <3>1. waitForQuit \in BOOLEAN /\ fd \in BOOLEAN
      BY <1>0, Zenon DEF Plain
    <3>. QED
      BY <3>1, <1>4, Zenon DEF ReadControl
  <2>. QED
    BY <1>0, <1>4, <2>1, <2>2 DEF ReadControl, Plain
<1>5. CASE PollHup
  <2>1. fd' \in BOOLEAN
    BY <1>5, Zenon DEF PollHup
  <2>. QED
    BY <1>0, <1>5, <2>1 DEF PollHup, Plain
<1>6. CASE ReportDisconnect
  BY <1>0, <1>6 DEF ReportDisconnect, Plain, Event
<1>7. CASE ReaderExit
  BY <1>0, <1>7, RecvNullDoes, NullIsMessage DEF ReaderExit, Plain
<1>. QED
  BY <1>1, <1>2, <1>3, <1>4, <1>5, <1>6, <1>7 DEF ReaderStep

LEMMA ModemTypes == ASSUME Basics, ModemStep \/ Signal PROVE ExchangeTypes'
<1> USE DEF mainVars, sharedVars, readerVars, modemVars
<1>0. Plain
  BY TypesArePlain DEF Basics
<1> SUFFICES Plain'
  BY TypesArePlain, PTL
<1>1. ASSUME NEW r \in pending, ModemRuns(r) PROVE Plain'
  <2>1. r \in Message /\ r.n \in 1..MaxCalls
    BY <1>0 DEF Plain, Message, Basics, Requests, Flight
  <2>2. fromModem' \in Seq(Message)
    <3>1. fromModem \in Seq(Message) /\ Append(fromModem, r) \in Seq(Message)
      BY <1>0, <2>1, AppendAdds DEF Plain
    <3>. QED
      BY <1>1, <3>1 DEF ModemRuns
  <2>3. ran' \subseteq 1..MaxCalls /\ pending' \subseteq Message
    BY <1>0, <1>1, <2>1 DEF ModemRuns, Plain
  <2>. QED
    BY <1>0, <1>1, <2>2, <2>3 DEF ModemRuns, Plain
<1>2. ASSUME NEW s \in Services, ModemIndicates(s) PROVE Plain'
  <2>1. Indication(s) \in Message
    BY BoundsAssumption, TidAssumption DEF Indication, Message
  <2>2. fromModem' \in Seq(Message)
    BY <1>0, <1>2, <2>1, AppendAdds DEF ModemIndicates, Plain
  <2>. QED
    BY <1>0, <1>2, <2>2, BoundsAssumption DEF ModemIndicates, Plain
<1>3. CASE ModemHangup
  <2>1. hangup' \in BOOLEAN
    BY <1>3, Zenon DEF ModemHangup
  <2>. QED
    BY <1>0, <1>3, <2>1 DEF ModemHangup, Plain
<1>4. CASE Signal
  <2>1. toReader' \in Seq(Commands)
    BY <1>0, <1>4, AppendAdds DEF Signal, Plain, Commands
  <2>. QED
    BY <1>0, <1>4, <2>1, BoundsAssumption DEF Signal, Plain
<1>. QED
  BY <1>1, <1>2, <1>3, <1>4 DEF ModemStep

-----------------------------------------------------------------------------
(* Requests and answers under way *)

\* A step that sends nothing keeps them.
LEMMA QuietRequests ==
  ASSUME Requests, UNCHANGED <<pending, ran, nreq>>,
         ToSet(fromModem)' \subseteq ToSet(fromModem), mpc' = "sending" => mpc = "sending"
  PROVE  Requests'
  BY DEF Requests, Flight

LEMMA RequestsKept == ASSUME Basics, Next PROVE Requests'
<1> USE DEF mainVars, sharedVars, readerVars, modemVars
<1>0. Requests /\ Registered /\ nreq \in Nat /\ fromModem \in Seq(Message) /\ Plain
  BY TypesArePlain, BoundsAssumption DEF Basics, ExchangeTypes, TypeOK
<1>1. ASSUME NEW s \in Services \cup {Ctl}, BeginSend(s) PROVE Requests'
  BY <1>0, <1>1 DEF BeginSend, Requests, Flight
<1>2. ASSUME NEW w \in BOOLEAN, SendQMI(w) PROVE Requests'
  BY <1>0, <1>2 DEF SendQMI, Requests, Flight, Registered
<1>3. ASSUME NEW r \in pending, ModemRuns(r) PROVE Requests'
  <2>1. r \in Message /\ r.tid # 0 /\ r.n \in 1..nreq
    BY <1>0 DEF Plain, Requests, Flight
  <2>2. ToSet(Append(fromModem, r)) = ToSet(fromModem) \cup {r}
    BY <1>0, <2>1, AppendAdds
  <2>3. ToSet(fromModem)' \subseteq ToSet(fromModem) \cup {r}
    BY <1>3, <2>2 DEF ModemRuns
  <2>4. UNCHANGED <<nreq, mpc>> /\ pending' = pending \ {r} /\ ran' = ran \cup {r.n}
    BY <1>3 DEF ModemRuns
  <2>5. Flight' \subseteq Flight
    BY <2>3, <2>4 DEF Flight
  <2>. QED
    BY <1>0, <2>1, <2>3, <2>4, <2>5 DEF Requests
<1>4. ASSUME NEW s \in Services, ModemIndicates(s) PROVE Requests'
  <2>1. Indication(s) \in Message /\ Indication(s).tid = 0
    BY BoundsAssumption, TidAssumption DEF Indication, Message
  <2>2. ToSet(fromModem)' = ToSet(fromModem) \cup {Indication(s)}
    BY <1>0, <1>4, <2>1, AppendAdds DEF ModemIndicates
  <2>3. UNCHANGED <<nreq, mpc, pending, ran>>
    BY <1>4 DEF ModemIndicates
  <2>. QED
    BY <1>0, <2>1, <2>2, <2>3 DEF Requests, Flight
<1>5. CASE ReadMessage
  <2>1. ToSet(fromModem)' \subseteq ToSet(fromModem)
    BY <1>0, <1>5, TailTakes DEF ReadMessage
  <2>2. nreq' = nreq /\ mpc' \in {mpc, "woken"}
    BY <1>5, RecvQMIDoes DEF ReadMessage
  <2>. QED
    BY <1>0, <1>5, <2>1, <2>2, QuietRequests DEF ReadMessage
<1>6. CASE PollTimeout \/ ReaderExit
  <2>1. UNCHANGED <<pending, ran, nreq, fromModem>> /\ mpc' \in {mpc, "woken"}
    BY <1>6, RecvNullDoes DEF PollTimeout, ReaderExit
  <2>. QED
    BY <1>0, <2>1, QuietRequests
<1>7. CASE SendFails \/ QuarterExpires \/ AfterExpiry \/ Wake \/ QuitRequest \/ QuitOnDisconnect \/ Join
  <2>1. UNCHANGED <<pending, ran, nreq, fromModem>> /\ mpc' # "sending"
    BY <1>7 DEF SendFails, QuarterExpires, AfterExpiry, Wake, QuitRequest, QuitOnDisconnect, Join, Return
  <2>. QED
    BY <1>0, <2>1, QuietRequests
<1>8. CASE OpenDevice \/ ReadControl \/ PollHup \/ ReportDisconnect \/ ModemHangup \/ Signal \/ Ended
  <2>1. UNCHANGED <<pending, ran, nreq, fromModem, mpc>>
    BY <1>8 DEF OpenDevice, ReadControl, PollHup, ReportDisconnect, ModemHangup, Signal, Ended, vars
  <2>. QED
    BY <1>0, <2>1, QuietRequests
<1>. QED
  BY <1>1, <1>2, <1>3, <1>4, <1>5, <1>6, <1>7, <1>8 DEF Next, MainStep, ReaderStep, ModemStep

-----------------------------------------------------------------------------
(* The registered request *)

LEMMA RegisteredKept == ASSUME Basics, Next PROVE Registered'
<1> USE DEF mainVars, sharedVars, readerVars, modemVars
<1>0. Registered /\ Plain /\ nreq \in Nat
  BY TypesArePlain, BoundsAssumption DEF Basics, ExchangeTypes, TypeOK
<1>1. ASSUME NEW s \in Services \cup {Ctl}, BeginSend(s) PROVE Registered'
  <2>1. NextTid(tid[Counter(s)]) \in 1..MaxTid /\ tid'[Counter(s)] = NextTid(tid[Counter(s)])
    BY <1>0, <1>1, NextTidIsId, CounterIsCounter DEF BeginSend, Plain
  <2>2. /\ sRequest'.tid = tid'[Counter(s)] /\ sRequest'.tid # 0
        /\ sRequest'.svc = s /\ sRequest'.n = nreq' /\ nreq' > 0
    BY <1>0, <1>1, <2>1 DEF BeginSend, Compose
  <2>. QED
    BY <2>2, NullIsMessage DEF Registered
<1>2. CASE ReadMessage \/ PollTimeout \/ ReaderExit
  <2>1. mpc # "sending"
    BY <1>2 DEF ReadMessage, PollTimeout, ReaderExit, Unlocked
  <2>2. UNCHANGED <<tid, nreq>> /\ sRequest' \in {sRequest, NULL} /\ mpc' \in {mpc, "woken"}
    BY <1>2, RecvNullDoes, RecvQMIDoes DEF ReadMessage, PollTimeout, ReaderExit
  <2>. QED
    BY <1>0, <2>1, <2>2 DEF Registered
<1>3. CASE \/ \E w \in BOOLEAN : SendQMI(w)
           \/ SendFails \/ QuarterExpires \/ AfterExpiry \/ Wake \/ QuitRequest \/ QuitOnDisconnect \/ Join
  <2>1. UNCHANGED <<sRequest, tid, nreq>> /\ mpc' # "sending"
    BY <1>3 DEF SendQMI, SendFails, QuarterExpires, AfterExpiry, Wake, QuitRequest, QuitOnDisconnect,
                Join, Return
  <2>. QED
    BY <1>0, <2>1 DEF Registered
<1>4. CASE \/ OpenDevice \/ ReadControl \/ PollHup \/ ReportDisconnect \/ ModemStep \/ Signal \/ Ended
  <2>1. UNCHANGED <<sRequest, tid, nreq, mpc>>
    BY <1>4 DEF OpenDevice, ReadControl, PollHup, ReportDisconnect, ModemStep, ModemRuns,
                ModemIndicates, ModemHangup, Signal, Ended, vars
  <2>. QED
    BY <1>0, <2>1 DEF Registered
<1>. QED
  BY <1>1, <1>2, <1>3, <1>4 DEF Next, MainStep, ReaderStep

-----------------------------------------------------------------------------
(* Who waits, and for whom *)

LEMMA WaitsKept == ASSUME Basics, Next PROVE Waits'
<1> USE DEF mainVars, sharedVars, readerVars, modemVars
<1>0. Waits /\ Registered /\ Plain /\ nreq \in Nat /\ quarter \in Nat
  BY TypesArePlain, BoundsAssumption, QuartersAssumption DEF Basics, ExchangeTypes, TypeOK
<1> USE DEF Waits, StrandedOnlyBetweenWaits, WaiterIsRegistered
<1>1. ASSUME NEW s \in Services \cup {Ctl}, BeginSend(s) PROVE Waits'
  BY <1>0, <1>1 DEF BeginSend
<1>2. ASSUME NEW w \in BOOLEAN, SendQMI(w) PROVE Waits'
  BY <1>0, <1>2, QuartersAssumption DEF SendQMI, Registered
<1>3. CASE SendFails \/ QuarterExpires \/ AfterExpiry
  BY <1>0, <1>3 DEF SendFails, QuarterExpires, AfterExpiry, Return
<1>4. CASE Wake \/ QuitRequest \/ QuitOnDisconnect \/ Join
  BY <1>0, <1>4 DEF Wake, QuitRequest, QuitOnDisconnect, Join, Return
<1>5. CASE OpenDevice \/ ReadControl \/ PollHup \/ ReportDisconnect
  BY <1>0, <1>5 DEF OpenDevice, ReadControl, PollHup, ReportDisconnect, Event
<1>6. CASE ReadMessage
  <2>1. PICK m : RecvQMI(m)
    BY <1>6 DEF ReadMessage
  <2>2. UNCHANGED <<rpc, fd, quarter, nreq>> /\ rpc = "running"
    BY <1>6, <2>1, RecvQMIDoes DEF ReadMessage
  <2>3. UNCHANGED <<mpc, sRequest>> \/ mpc' = IF mpc = "waiting" THEN "woken" ELSE mpc
    BY <2>1, RecvQMIDoes
  <2>. QED
    BY <1>0, <2>2, <2>3
<1>7. CASE PollTimeout \/ ReaderExit
  <2>0. RecvNull
    BY <1>7 DEF PollTimeout, ReaderExit
  <2>1. UNCHANGED <<fd, quarter, nreq, toMain>> /\ (rpc' = rpc \/ (rpc = "leaving" /\ rpc' = "done"))
    <3>1. UNCHANGED <<quarter, nreq, toMain>>
      BY <2>0, RecvNullDoes
    <3>2. UNCHANGED fd /\ (rpc' = rpc \/ (rpc = "leaving" /\ rpc' = "done"))
      BY <1>7 DEF PollTimeout, ReaderExit
    <3>. QED
      BY <3>1, <3>2
  <2>2. \/ UNCHANGED <<mpc, sRequest>> /\ sRequest = NULL
        \/ mpc' = IF mpc = "waiting" THEN "woken" ELSE mpc
    BY <1>7, RecvNullDoes DEF PollTimeout, ReaderExit
  <2>. QED
    BY <1>0, <2>1, <2>2
<1>8. CASE ModemStep \/ Signal \/ Ended
  <2>1. UNCHANGED <<mpc, quarter, nreq, sRequest, rpc, fd, toMain>>
    BY <1>8 DEF ModemStep, ModemRuns, ModemIndicates, ModemHangup, Signal, Ended, vars
  <2>. QED
    BY <1>0, <2>1
<1>. QED
  BY <1>1, <1>2, <1>3, <1>4, <1>5, <1>6, <1>7, <1>8 DEF Next, MainStep, ReaderStep

-----------------------------------------------------------------------------
LEMMA BasicsKept == Basics /\ [Next]_vars => Basics'
<1> SUFFICES ASSUME Basics, [Next]_vars PROVE Basics'
  OBVIOUS
<1>1. CASE Next /\ ~UNCHANGED vars
  <2>1. ExchangeTypes'
    BY <1>1, MainTypes, ReaderTypes, ModemTypes DEF Next, Ended
  <2>. QED
    BY <1>1, <2>1, RequestsKept, RegisteredKept, WaitsKept DEF Basics
<1>2. CASE UNCHANGED vars
  <2> USE <1>2 DEF vars, mainVars, sharedVars, readerVars, modemVars
  <2>1. ExchangeTypes' = ExchangeTypes
    BY DEF ExchangeTypes, TypeOK
  <2>2. Requests' = Requests
    BY DEF Requests, Flight
  <2>3. Registered' = Registered
    BY DEF Registered
  <2>4. Waits' = Waits
    BY DEF Waits, StrandedOnlyBetweenWaits, WaiterIsRegistered
  <2>. QED
    BY <2>1, <2>2, <2>3, <2>4 DEF Basics
<1>. QED
  BY <1>1, <1>2

LEMMA InitBasics == Init => Basics
<1> SUFFICES ASSUME Init PROVE Basics
  OBVIOUS
<1>1. ExchangeTypes
  BY InitTypes
<1>2. Flight = {} /\ pending = {} /\ ToSet(fromModem) = {}
  BY DEF Init, Flight, ToSet
<1>3. Requests
  BY <1>2 DEF Init, Requests
<1>4. Registered
  BY DEF Init, Registered
<1>5. Waits
  BY DEF Init, Waits, StrandedOnlyBetweenWaits, WaiterIsRegistered
<1>. QED
  BY <1>1, <1>3, <1>4, <1>5 DEF Basics

\* The types, and that no caller in its first wait is left behind, whatever
\* the modem does with its answers.
THEOREM NoneLeftBehind == Spec => [](TypeOK /\ StrandedOnlyBetweenWaits /\ WaiterIsRegistered)
<1>1. Basics => TypeOK /\ StrandedOnlyBetweenWaits /\ WaiterIsRegistered
  BY DEF Basics, ExchangeTypes, Waits
<1>. QED
  BY <1>1, InitBasics, BasicsKept, PTL DEF Spec

-----------------------------------------------------------------------------
(* Whose answer *)

\* The distance between two ids of one counter, on the circle of the ids.
Distance(t, i) == IF t >= i THEN t - i ELSE t + MaxTid - i

LEMMA DistanceGrows ==
  ASSUME NEW t \in 0..MaxTid, NEW i \in 1..MaxTid
  PROVE  /\ Distance(t, i) \in Nat
         /\ Distance(NextTid(t), i) <= Distance(t, i) + 1
         /\ NextTid(t) = i => Distance(t, i) + 1 >= MaxTid
  BY TidAssumption DEF Distance, NextTid

\* A step that draws no id keeps the ages.
LEMMA QuietAges ==
  ASSUME Ages, UNCHANGED <<tid, nreq>>, \A m \in Flight' : m.tid # 0 => m \in Flight
  PROVE  Ages'
  BY DEF Ages, Age

\* What each step leaves of the messages under way.
LEMMA FlightShrinks ==
  ASSUME Basics, ModemStep \/ ReadMessage
  PROVE  \A m \in Flight' : m.tid # 0 => m \in Flight
<1>0. Plain
  BY TypesArePlain DEF Basics
<1>1. ASSUME NEW r \in pending, ModemRuns(r) PROVE Flight' \subseteq Flight
  <2>1. ToSet(Append(fromModem, r)) = ToSet(fromModem) \cup {r}
    BY <1>0, AppendAdds DEF Plain
  <2>. QED
    BY <1>1, <2>1 DEF ModemRuns, Flight
<1>2. ASSUME NEW s \in Services, ModemIndicates(s)
      PROVE  Flight' = Flight \cup {Indication(s)} /\ Indication(s).tid = 0
  <2>1. Indication(s) \in Message /\ Indication(s).tid = 0
    BY BoundsAssumption, TidAssumption DEF Indication, Message
  <2>2. ToSet(fromModem)' = ToSet(fromModem) \cup {Indication(s)}
    BY <1>0, <1>2, <2>1, AppendAdds DEF ModemIndicates, Plain
  <2>. QED
    BY <1>2, <2>1, <2>2 DEF ModemIndicates, Flight
<1>3. CASE ModemHangup
  BY <1>3 DEF ModemHangup, Flight
<1>4. CASE ReadMessage
  BY <1>0, <1>4, TailTakes DEF ReadMessage, Plain, Flight
<1>. QED
  BY <1>1, <1>2, <1>3, <1>4 DEF ModemStep

\* An id of the counter that was drawn now is MaxTid requests old, or new.
LEMMA BeginSendKeeps ==
  ASSUME ExchangeInv, Timely', NEW s \in Services \cup {Ctl}, BeginSend(s)
  PROVE  Ages' /\ OnlyMine' /\ AnswerIsMine'
<1>0. Plain /\ Requests /\ Ages
  BY TypesArePlain DEF ExchangeInv, Basics
<1>1. Flight' = Flight /\ nreq' = nreq + 1 /\ nreq \in Nat
  BY <1>0, BoundsAssumption DEF BeginSend, modemVars, Flight, Plain
<1>2. tid \in [{"ctl", "mux"} -> 0..MaxTid] /\ tid' = [tid EXCEPT ![Counter(s)] = NextTid(@)]
  BY <1>0 DEF Plain, BeginSend
<1>3. ASSUME NEW m \in Flight, m.tid # 0
      PROVE  /\ m.n + Age(m) <= nreq /\ m.n \in Nat /\ Age(m) \in Nat
             /\ Age(m)' \in Nat /\ Age(m)' <= Age(m) + 1
             /\ m.svc = s => NextTid(tid[Counter(s)]) # m.tid
  <2>1. m \in Message
    BY <1>0, SetOfSeq DEF Plain, Flight
  <2>2. m.tid \in 1..MaxTid /\ m.n \in Nat /\ m.n + Age(m) <= nreq
    BY <1>0, <1>3, <2>1 DEF Message, Ages
  <2> DEFINE t == tid[Counter(m.svc)]
  <2>3. t \in 0..MaxTid /\ Counter(m.svc) \in {"ctl", "mux"}
    BY <1>2, CounterIsCounter
  <2>4. Age(m) = Distance(t, m.tid) /\ Age(m)' = Distance(t', m.tid)
    BY DEF Age, Distance
  <2>5. t' \in {t, NextTid(t)}
    BY <1>2, <2>3, CounterIsCounter
  <2>6. Age(m) \in Nat /\ Age(m)' \in Nat /\ Age(m)' <= Age(m) + 1
    <3>1. NextTid(t) \in 0..MaxTid
      BY <2>3, NextTidIsId
    <3>. QED
      BY <2>2, <2>3, <2>4, <2>5, <3>1, DistanceGrows
  <2>7. m.svc = s => NextTid(t) # m.tid
    <3> SUFFICES ASSUME NextTid(t) = m.tid PROVE FALSE
      OBVIOUS
    <3>1. Age(m) + 1 >= MaxTid
      BY <2>2, <2>3, <2>4, DistanceGrows
    <3>2. nreq + 1 < m.n + MaxTid
      BY <1>1, <1>3 DEF Timely
    <3>. QED
      BY <3>1, <3>2, <2>2, <2>6, <1>1, TidAssumption
  <2>. QED
    BY <2>2, <2>6, <2>7
<1>4. Ages'
  <2> SUFFICES ASSUME NEW m \in Flight, m.tid # 0 PROVE m.n + Age(m)' <= nreq + 1
    BY <1>1 DEF Ages
  <2>. QED
    BY <1>1, <1>3
<1>5. OnlyMine'
  <2>1. sRequest' = Compose(s) /\ sResponse' = NULL /\ NextTid(tid[Counter(s)]) # 0
    BY <1>2, NextTidIsId, CounterIsCounter DEF BeginSend
  <2>2. \A m \in Flight : ~is_response(Compose(s), m)
    BY <1>3, <2>1 DEF is_response, Compose
  <2>. QED
    BY <1>1, <2>1, <2>2 DEF OnlyMine
<1>6. AnswerIsMine'
  BY DEF BeginSend, AnswerIsMine, NoResult
<1>. QED
  BY <1>4, <1>5, <1>6

\* A step that neither begins nor ends a call, nor reads a message.
LEMMA QuietKeeps ==
  ASSUME ExchangeInv, UNCHANGED <<tid, nreq, result>>, ran \subseteq ran',
         sRequest' \in {sRequest, NULL}, sResponse' \in {sResponse, NULL},
         \A m \in Flight' : m.tid # 0 => m \in Flight
  PROVE  Ages' /\ OnlyMine' /\ AnswerIsMine'
<1>1. Ages'
  BY QuietAges DEF ExchangeInv
<1>2. OnlyMine'
  <2>1. sRequest' # NULL => \A m \in Flight' : is_response(sRequest, m) => m.tid # 0
    BY DEF ExchangeInv, Basics, Registered, is_response
  <2>. QED
    BY <2>1 DEF ExchangeInv, OnlyMine
<1>3. AnswerIsMine'
  BY DEF ExchangeInv, AnswerIsMine
<1>. QED
  BY <1>1, <1>2, <1>3

\* A call that returns hands out s_pResponse or no answer.
LEMMA ReturnKeeps ==
  ASSUME ExchangeInv, NEW k, NEW i, Return(k, i), UNCHANGED <<sharedVars, modemVars>>,
         k = "answer" => sResponse # NULL /\ i = sResponse.n
  PROVE  Ages' /\ OnlyMine' /\ AnswerIsMine'
<1>1. UNCHANGED <<Flight, tid, nreq, sRequest, sResponse, ran>> /\ result' = [kind |-> k, n |-> i]
  BY DEF Return, sharedVars, modemVars, Flight
<1>2. Ages'
  BY <1>1, QuietAges DEF ExchangeInv
<1>3. OnlyMine'
  BY <1>1 DEF ExchangeInv, OnlyMine
<1>4. AnswerIsMine'
  BY <1>1 DEF ExchangeInv, OnlyMine, AnswerIsMine
<1>. QED
  BY <1>2, <1>3, <1>4

LEMMA ReadMessageKeeps ==
  ASSUME ExchangeInv, ReadMessage
  PROVE  Ages' /\ OnlyMine' /\ AnswerIsMine'
<1>0. Plain /\ Basics
  BY TypesArePlain DEF ExchangeInv, Basics
<1> DEFINE m == Head(fromModem)
<1>1. m \in ToSet(fromModem) /\ m \in Flight /\ RecvQMI(m)
  BY <1>0, TailTakes DEF ReadMessage, Plain, Flight
<1>2. UNCHANGED <<tid, nreq, result, ran>> /\ \A l \in Flight' : l.tid # 0 => l \in Flight
  <2>1. UNCHANGED <<tid, nreq, result>>
    BY <1>1, RecvQMIDoes
  <2>2. UNCHANGED ran
    BY DEF ReadMessage
  <2>. QED
    BY <1>0, <2>1, <2>2, FlightShrinks
<1>3. CASE UNCHANGED <<sRequest, sResponse>>
  BY <1>2, <1>3, QuietKeeps
<1>4. CASE sRequest # NULL /\ is_response(sRequest, m) /\ sRequest' = NULL /\ sResponse' = m
  <2>1. m.n = nreq /\ m.n \in ran
    BY <1>0, <1>1, <1>4 DEF ExchangeInv, OnlyMine, Basics, Registered, Requests, is_response
  <2>2. Ages'
    BY <1>2, QuietAges DEF ExchangeInv
  <2>3. OnlyMine'
    BY <1>2, <1>4, <2>1 DEF OnlyMine
  <2>4. AnswerIsMine'
    BY <1>2 DEF ExchangeInv, AnswerIsMine
  <2>. QED
    BY <2>2, <2>3, <2>4
<1>. QED
  BY <1>1, <1>3, <1>4, RecvQMIDoes

LEMMA IInvKept == ExchangeInv /\ Timely' /\ [Next]_vars => ExchangeInv'
<1> SUFFICES ASSUME ExchangeInv, Timely', [Next]_vars PROVE Ages' /\ OnlyMine' /\ AnswerIsMine'
  BY BasicsKept DEF ExchangeInv
<1> USE DEF mainVars, sharedVars, readerVars, modemVars
<1>1. CASE \E s \in Services \cup {Ctl} : BeginSend(s)
  BY <1>1, BeginSendKeeps
<1>2. ASSUME NEW w \in BOOLEAN, SendQMI(w) PROVE Ages' /\ OnlyMine' /\ AnswerIsMine'
  <2>0. Plain /\ Registered /\ mpc = "sending"
    BY <1>2, TypesArePlain DEF ExchangeInv, Basics, SendQMI
  <2>1. /\ UNCHANGED <<tid, nreq, result, ran, sRequest, sResponse>>
        /\ Flight' \subseteq Flight \cup {sRequest}
    BY <1>2 DEF SendQMI, Flight
  <2>2. Age(sRequest) = 0 /\ sRequest.n = nreq /\ nreq \in Nat
    BY <2>0, BoundsAssumption DEF Plain, Registered, Age, Message
  <2>3. Ages'
    BY <2>1, <2>2 DEF ExchangeInv, Ages, Age
  <2>4. OnlyMine' /\ AnswerIsMine'
    BY <2>1, <2>2 DEF ExchangeInv, OnlyMine, AnswerIsMine
  <2>. QED
    BY <2>3, <2>4
<1>3. CASE SendFails \/ Wake \/ (AfterExpiry /\ quarter >= Quarters)
  <2>1. PICK k, i : /\ Return(k, i) /\ UNCHANGED <<sharedVars, modemVars>>
                    /\ k = "answer" => sResponse # NULL /\ i = sResponse.n
    <3>1. CASE SendFails
      BY <3>1 DEF SendFails
    <3>2. CASE Wake
      BY <3>2 DEF Wake
    <3>3. CASE AfterExpiry /\ quarter >= Quarters
      <4>1. ~(quarter < Quarters)
        BY <3>3, QuartersAssumption DEF ExchangeInv, Basics, ExchangeTypes, TypeOK
      <4>. QED
        BY <3>3, <4>1 DEF AfterExpiry
    <3>. QED
      BY <1>3, <3>1, <3>2, <3>3
  <2>. QED
    BY <2>1, ReturnKeeps
<1>4. CASE \/ QuarterExpires \/ (AfterExpiry /\ quarter < Quarters) \/ QuitRequest \/ QuitOnDisconnect
           \/ Join \/ OpenDevice \/ ReadControl \/ PollHup \/ ReportDisconnect \/ Signal
           \/ UNCHANGED vars
  <2>1. UNCHANGED <<tid, nreq, result, ran, sRequest, sResponse, Flight>>
    BY <1>4 DEF QuarterExpires, AfterExpiry, QuitRequest, QuitOnDisconnect, Join, OpenDevice,
                ReadControl, PollHup, ReportDisconnect, Signal, vars, Flight
  <2>. QED
    BY <2>1, QuietKeeps
<1>5. CASE PollTimeout \/ ReaderExit
  <2>1. RecvNull /\ UNCHANGED <<ran, Flight>>
    BY <1>5 DEF PollTimeout, ReaderExit, Flight
  <2>2. /\ UNCHANGED <<tid, nreq, result>>
        /\ sRequest' \in {sRequest, NULL} /\ sResponse' \in {sResponse, NULL}
    BY <2>1, RecvNullDoes
  <2>. QED
    BY <2>1, <2>2, QuietKeeps
<1>6. CASE ModemStep
  <2>1. UNCHANGED <<tid, nreq, result, sRequest, sResponse>> /\ ran \subseteq ran'
    BY <1>6 DEF ModemStep, ModemRuns, ModemIndicates, ModemHangup
  <2>2. \A m \in Flight' : m.tid # 0 => m \in Flight
    BY <1>6, FlightShrinks DEF ExchangeInv
  <2>. QED
    BY <2>1, <2>2, QuietKeeps
<1>7. CASE ReadMessage
  BY <1>7, ReadMessageKeeps
<1>8. quarter < Quarters \/ quarter >= Quarters
  BY QuartersAssumption DEF ExchangeInv, Basics, ExchangeTypes, TypeOK
<1>. QED
  BY <1>1, <1>2, <1>3, <1>4, <1>5, <1>6, <1>7, <1>8 DEF Next, MainStep, ReaderStep, Ended

LEMMA InitIInv == Init => ExchangeInv
<1> SUFFICES ASSUME Init PROVE ExchangeInv
  OBVIOUS
<1>1. Flight = {}
  BY DEF Init, Flight, ToSet
<1>2. Ages /\ OnlyMine /\ AnswerIsMine
  BY <1>1 DEF Init, Ages, OnlyMine, AnswerIsMine, NoResult
<1>. QED
  BY <1>2, InitBasics DEF ExchangeInv

\* A caller gets its own answer, as long as the modem answers or drops a
\* request before the transaction ids come round (QmiThreadSendQMITimeout,
\* is_response).
THEOREM CallerIsServed == Spec /\ []Timely => []WaiterIsServed
<1>1. ExchangeInv => WaiterIsServed
  BY DEF ExchangeInv, Basics, ExchangeTypes, Waits, WaiterIsServed
<1>. QED
  BY <1>1, InitIInv, IInvKept, PTL DEF Spec

\* With no more requests than ids the modem needs no promise: no id is used
\* twice (the 8 bit counter of CTL over its first 255 requests).
THEOREM FirstRoundIsServed == ASSUME MaxCalls <= MaxTid PROVE Spec => []WaiterIsServed
<1>1. Basics => Timely
  <2> SUFFICES ASSUME Basics, NEW m \in Flight, m.tid # 0 PROVE nreq < m.n + MaxTid
    BY DEF Timely
  <2>1. m.n \in 1..nreq /\ nreq \in 0..MaxCalls
    BY DEF Basics, Requests, ExchangeTypes, TypeOK
  <2>. QED
    BY <2>1, TidAssumption, BoundsAssumption
<1>2. Spec => []Basics
  BY InitBasics, BasicsKept, PTL DEF Spec
<1>. QED
  BY <1>1, <1>2, CallerIsServed, PTL

-----------------------------------------------------------------------------
(* The exchange that the request functions rely on *)

Answer == IF result.kind = "answer" THEN result.n ELSE 0

LEMMA InitExchange == Init => Exchange!Init
<1> SUFFICES ASSUME Init PROVE Exchange!Init
  OBVIOUS
<1>1. ~InCall /\ nreq = 0 /\ ran = {} /\ Answer = 0
  BY DEF Init, InCall, NoResult, Answer
<1>. QED
  BY <1>1 DEF Exchange!Init, Exchange!NoAnswer, Answer

\* A step inside a call, or outside every call, that the caller does not see.
LEMMA Unseen ==
  ASSUME UNCHANGED <<nreq, ran, result>>, InCall' <=> InCall
  PROVE  UNCHANGED Exchange!vars
<1>1. InCall' = InCall
  BY DEF InCall
<1>. QED
  BY <1>1 DEF Exchange!vars

\* Every return of QmiThreadSendQMITimeout is an answer or no answer.
LEMMA ReturnIsReturn ==
  ASSUME ExchangeInv, InCall, NEW k, NEW i, Return(k, i), UNCHANGED ran,
         k = "answer" => sResponse # NULL /\ i = sResponse.n
  PROVE  Exchange!Answered \/ Exchange!GiveUp
<1>1. nreq' = nreq /\ ran' = ran /\ ~InCall' /\ InCall
  BY DEF Return, InCall
<1>2. CASE k = "answer"
  <2>1. nreq \in ran /\ Answer' = nreq
    BY <1>2 DEF ExchangeInv, OnlyMine, Return, Answer
  <2>. QED
    BY <1>1, <2>1 DEF Exchange!Answered, Answer
<1>3. CASE k # "answer"
  <2>1. Answer' = 0
    BY <1>3 DEF Return, Answer
  <2>. QED
    BY <1>1, <2>1 DEF Exchange!GiveUp, Exchange!NoAnswer, Answer
<1>. QED
  BY <1>2, <1>3

LEMMA NextExchange == ExchangeInv /\ [Next]_vars => [Exchange!Next]_(Exchange!vars)
<1> SUFFICES ASSUME ExchangeInv, [Next]_vars PROVE Exchange!Next \/ UNCHANGED Exchange!vars
  OBVIOUS
<1> USE DEF mainVars, sharedVars, readerVars, modemVars
<1>1. ASSUME NEW s \in Services \cup {Ctl}, BeginSend(s) PROVE Exchange!Issue \/ Exchange!Refuse
  <2>1. ~InCall /\ nreq' = nreq + 1 /\ Answer' = 0 /\ ran' = ran
    BY <1>1 DEF BeginSend, InCall, Answer, NoResult
  <2>2. CASE fd
    <3>1. InCall'
      BY <1>1, <2>2 DEF BeginSend, InCall
    <3>. QED
      BY <2>1, <3>1 DEF Exchange!Issue, Exchange!NoAnswer, Answer
  <2>3. CASE ~fd
    <3>1. InCall' = InCall
      BY <1>1, <2>3 DEF BeginSend, InCall
    <3>. QED
      BY <2>1, <3>1 DEF Exchange!Refuse, Exchange!NoAnswer, Answer
  <2>. QED
    BY <2>2, <2>3
<1>2. CASE SendFails \/ Wake \/ (AfterExpiry /\ ~(quarter < Quarters))
  <2>1. InCall /\ UNCHANGED ran
    BY <1>2 DEF SendFails, Wake, AfterExpiry, InCall
  <2>2. PICK k, i : Return(k, i) /\ (k = "answer" => sResponse # NULL /\ i = sResponse.n)
    <3>1. CASE SendFails
      BY <3>1 DEF SendFails
    <3>2. CASE Wake
      BY <3>2 DEF Wake
    <3>3. CASE AfterExpiry /\ ~(quarter < Quarters)
      BY <3>3 DEF AfterExpiry
    <3>. QED
      BY <1>2, <3>1, <3>2, <3>3
  <2>. QED
    BY <2>1, <2>2, ReturnIsReturn DEF Exchange!Next
<1>3. ASSUME NEW r \in pending, ModemRuns(r) PROVE Exchange!Next
  <2>1. r.n \in 1..nreq /\ r.n \notin ran
    BY DEF ExchangeInv, Basics, Requests, Flight
  <2>2. ran' = ran \cup {r.n} /\ UNCHANGED <<nreq, mpc, result>>
    BY <1>3 DEF ModemRuns
  <2>3. Exchange!Execute(r.n)
    BY <2>1, <2>2 DEF Exchange!Execute, InCall
  <2>. QED
    BY <2>1, <2>3 DEF Exchange!Next
<1>4. CASE \/ \E w \in BOOLEAN : SendQMI(w)
           \/ QuarterExpires \/ (AfterExpiry /\ quarter < Quarters) \/ QuitRequest \/ QuitOnDisconnect
           \/ Join \/ OpenDevice \/ ReadControl \/ PollHup \/ ReportDisconnect \/ Signal
           \/ \E s \in Services : ModemIndicates(s)
           \/ ModemHangup \/ UNCHANGED vars
  <2>1. UNCHANGED <<nreq, ran, result>> /\ (InCall' <=> InCall)
    BY <1>4 DEF SendQMI, QuarterExpires, AfterExpiry, QuitRequest, QuitOnDisconnect, Join, OpenDevice,
                ReadControl, PollHup, ReportDisconnect, Signal, ModemIndicates, ModemHangup, vars, InCall
  <2>. QED
    BY <2>1, Unseen
<1>5. CASE ReadMessage \/ PollTimeout \/ ReaderExit
  <2>1. UNCHANGED ran /\ mpc # "sending" /\ (RecvNull \/ \E m : RecvQMI(m))
    BY <1>5 DEF ReadMessage, PollTimeout, ReaderExit, Unlocked
  <2>2. UNCHANGED <<nreq, result>> /\ (mpc' = mpc \/ mpc' = IF mpc = "waiting" THEN "woken" ELSE mpc)
    BY <2>1, RecvNullDoes, RecvQMIDoes
  <2>3. InCall' <=> InCall
    BY <2>2 DEF InCall
  <2>. QED
    BY <2>1, <2>2, <2>3, Unseen
<1>. QED
  BY <1>1, <1>2, <1>3, <1>4, <1>5 DEF Next, MainStep, ReaderStep, ModemStep, Ended, Exchange!Next

\* Under the same promise the transaction layer implements the exchange:
\* every request is run once at most, and an answer is the answer of the
\* request it is given for (QmiThreadSendQMITimeout, QmiThreadRecvQMI).
THEOREM LayerImplementsExchange == Spec /\ []Timely => ImplementsExchange
<1>1. Spec /\ []Timely => []ExchangeInv
  BY InitIInv, IInvKept, PTL DEF Spec
<1>. QED
  BY <1>1, InitExchange, NextExchange, PTL DEF Spec, ImplementsExchange, Exchange!Spec

-----------------------------------------------------------------------------
(* Types *)

Pk == Nets \X Nat
Frame == [pkts : Seq(Pk), hook : BOOLEAN]
Xmit == [pc : {"idle", "busy", "agg", "xmit", "arm"}, skb : Seq(Pk), own : BOOLEAN,
         out : Seq(Pk), hook : BOOLEAN]
Real == [up : BOOLEAN, carrier : BOOLEAN, stopped : BOOLEAN, asleep : BOOLEAN,
         pc : {"idle", "check", "stop"}]
Store == [pc : {"idle", "load", "write", "on", "net", "off", "drop"}, on : BOOLEAN,
          old : SUBSET Nets, val : SUBSET Nets, net : BOOLEAN]
Connected == {"real_up", "close", "open", "up"}
CmSteps == Connected \cup {"down", "read", "real_down", "net_down"}
Steps == {"no", "begin", "cancel", "free", "close", "gone", "off"}
NetSets == SUBSET Nets
Quotas == [Nets -> Nat]
Budget == [nets : NetSets, pkts : Quotas, stops : Nat, leaves : 0 .. 1, naps : Nat]

Types ==
  /\ reg \subseteq Nets /\ link \subseteq Nets /\ priv \subseteq Nets /\ up \subseteq Nets
  /\ store \in [Nets -> Store] /\ clash \subseteq Clashes
  /\ carrier \subseteq Nets /\ stopped \subseteq Nets
  /\ timer \subseteq Nets /\ work \subseteq Nets /\ freed \subseteq Nets /\ raced \subseteq Nets
  /\ real \in Real /\ datagrams \in {1, MaxDatagrams}
  /\ agg \in [Nets -> Seq(Pk)] /\ held \in [Nets -> Seq(Pk)] /\ tx \in [Nets -> Xmit]
  /\ qdisc \in Seq(Frame) /\ txq \in Seq(Frame) /\ wire \in Seq(Pk)
  /\ tasklet \in BOOLEAN /\ touched \in BOOLEAN
  /\ cm \in [Nets -> CmSteps] /\ leaving \in [Nets -> Steps]
  /\ made \in [Nets -> Nat] /\ budget \in Budget

-----------------------------------------------------------------------------
(* Packets *)

\* The packets start_xmit was given, and those in each place.
Made(n) == {<<n, k>> : k \in 1 .. made[n]}
InAgg(n) == ToSet(agg[n])
InHeld(n) == ToSet(held[n])
InOut(n) == ToSet(tx[n].out)
InSkb(n) == ToSet(tx[n].skb)
InQdisc == Pkts(ToSet(qdisc))
InTxq == Pkts(ToSet(txq))
OnWire == ToSet(wire)

Hand(n) == InAgg(n) \cup InHeld(n) \cup InOut(n) \cup InSkb(n)
Left == InQdisc \cup InTxq \cup OnWire \cup lost

Disjoint4(a, b, c, d) ==
  a \cap b = {} /\ a \cap c = {} /\ a \cap d = {} /\ b \cap c = {} /\ b \cap d = {} /\ c \cap d = {}

Conserved ==
  /\ Disjoint4(InQdisc, InTxq, OnWire, lost)
  /\ \A p \in Left : \E n \in Nets : p \in Made(n)
  /\ \A n \in Nets : /\ Disjoint4(InAgg(n), InHeld(n), InOut(n), InSkb(n))
                     /\ Hand(n) \subseteq Made(n) /\ Hand(n) \cap Left = {}
                     /\ Made(n) \subseteq Hand(n) \cup Left

\* No packet is in two frames of one queue.
Apart(s) == \A i, j \in DOMAIN s : i # j => ToSet(s[i].pkts) \cap ToSet(s[j].pkts) = {}

\* Frames and buffers have the sizes the modem allows.
FrameOK(f) == Len(f.pkts) \in 1 .. MaxDatagrams
Sizes ==
  /\ \A n \in Nets : Len(agg[n]) < MaxDatagrams /\ Len(held[n]) < MaxDatagrams
  /\ \A n \in Nets : Len(tx[n].out) <= MaxDatagrams /\ Len(tx[n].skb) <= 1
  /\ \A i \in DOMAIN qdisc : FrameOK(qdisc[i])
  /\ \A i \in DOMAIN txq : FrameOK(txq[i])

\* What start_xmit holds where.
Shape ==
  \A n \in Nets :
    /\ tx[n].pc # "xmit" => tx[n].out = <<>>
    /\ tx[n].pc \notin {"agg", "xmit"} => tx[n].skb = <<>>
    /\ tx[n].out # <<>> => agg[n] = <<>>
    /\ datagrams = 1 => agg[n] = <<>>

Before(X, Y) == \A p \in X, q \in Y : p[2] < q[2]

\* What is queued or held is older than what is still collected.
Ordered ==
  \A n \in Nets :
    /\ Before(InAgg(n) \cup InOut(n), InSkb(n))
    /\ Before(InHeld(n), InAgg(n) \cup InOut(n) \cup InSkb(n))
    /\ Before({p \in InQdisc \cup InTxq \cup OnWire : p[1] = n}, InAgg(n) \cup InOut(n) \cup InSkb(n))

\* The budget is one of those given, but for what was used of it.
WithinBudget ==
  /\ \E b \in Budgets : b.pkts = budget.pkts
  /\ \A n \in Nets : made[n] <= budget.pkts[n]

-----------------------------------------------------------------------------
(* Devices *)

Present == leaving = [n \in Nets |-> "no"]

\* Disconnect: behind UnregStop no start_xmit begins, and one that was running
\* is noted; so is the timer it arms behind hrtimer_cancel(), and a call of
\* link_state_store() that has looked the device up.
EndOf(n) ==
  /\ leaving[n] \in {"no", "begin"} /\ n \notin reg =>
       /\ n \notin up /\ tx[n].pc = "idle" /\ n \notin timer /\ n \notin work
       /\ ~store[n].net
  /\ leaving[n] \notin {"no", "begin"} /\ store[n].net => n \in raced
  /\ leaving[n] \in {"cancel", "free", "close"} =>
       n \notin reg /\ ((n \in stopped /\ tx[n].pc = "idle") \/ n \in raced)
  /\ leaving[n] \in {"gone", "off"} => n \notin reg /\ n \notin up /\ tx[n].pc = "idle"
  /\ leaving[n] \in {"free", "close", "gone", "off"} /\ n \in timer \cup work => n \in raced
  /\ n \in freed => leaving[n] \in {"close", "gone", "off"}

Ends ==
  /\ \A n \in Nets : EndOf(n)
  /\ budget.leaves = 1 => Present
  /\ FreedUsedOnlyInRace

\* The bits of n, while no bit was written back: link_state has the bit of a
\* manager that has connected, but before its call has written it; the virtual
\* device follows a few steps later; what the call holds is what it needs.
Connects(n) == cm[n] \in Connected
Bits(n) ==
  /\ n \in link <=> (Connects(n) <=> store[n].pc \notin {"load", "write"})
  /\ n \in reg => (n \in priv <=> (Connects(n) <=> store[n].pc \notin {"load", "write", "on", "net"}))
  /\ store[n].pc \in {"load", "write", "on"} => (n \in store[n].old <=> ~store[n].on)
  /\ store[n].pc = "write" => (n \in store[n].val <=> ~store[n].on)
  /\ store[n].pc \in {"on", "net", "off"} => (n \in store[n].val <=> store[n].on)
  /\ store[n].pc = "net" => (store[n].net <=> n \in reg)

\* Unless a bit was set late: a call that cleared its bit has seen every bit
\* there is, and the one about to turn the real carrier off is right that no bit
\* is left.
RealTracks ==
  /\ \A n \in Nets : /\ store[n].pc \in {"on", "net", "off"} /\ ~store[n].on => link \subseteq store[n].val
                     /\ store[n].pc = "drop" => link = {} /\ ~store[n].on
  /\ carrier \cap link = {} \/ real.carrier

\* Until disconnect a virtual device is up only when its manager has opened it
\* and not closed it since, and its carrier follows its own link state.
Opened == {"up", "read", "real_down", "net_down"}
Follows ==
  Present =>
    /\ up \subseteq reg /\ carrier = up \cap priv
    /\ \A n \in Storing : cm[n] = IF store[n].on THEN "real_up" ELSE "read"
    /\ \A n \in up : cm[n] \in Opened
    /\ "lost" \notin clash => (\A n \in Nets : Bits(n)) /\ ("late" \notin clash => RealTracks)

Flow == Conserved /\ Apart(qdisc) /\ Apart(txq) /\ Ordered
IInv == Types /\ Sizes /\ Shape /\ Flow /\ WithinBudget /\ Ends /\ Follows

-----------------------------------------------------------------------------
(* Sequences as sets *)

LEMMA ToSetHas ==
  ASSUME NEW V, NEW s \in Seq(V), NEW i \in 1 .. Len(s)
  PROVE  s[i] \in ToSet(s)
  BY DEF ToSet

LEMMA ToSetFacts ==
  ASSUME NEW V, NEW s \in Seq(V)
  PROVE  /\ ToSet(s) \subseteq V
         /\ \A t \in Seq(V) : s \o t \in Seq(V) /\ ToSet(s \o t) = ToSet(s) \cup ToSet(t)
         /\ \A e \in V : Append(s, e) \in Seq(V) /\ ToSet(Append(s, e)) = ToSet(s) \cup {e}
         /\ s # <<>> => /\ Head(s) \in V /\ Tail(s) \in Seq(V)
                        /\ ToSet(s) = {Head(s)} \cup ToSet(Tail(s))
<1>1. ToSet(s) \subseteq V
  BY DEF ToSet
<1>2. ASSUME NEW t \in Seq(V) PROVE s \o t \in Seq(V) /\ ToSet(s \o t) = ToSet(s) \cup ToSet(t)
  <2>1. s \o t \in Seq(V) /\ Len(s \o t) = Len(s) + Len(t) /\ Len(s) \in Nat /\ Len(t) \in Nat
    OBVIOUS
  <2>2. \A i \in 1 .. Len(s) : (s \o t)[i] = s[i]
    OBVIOUS
  <2>3. \A i \in 1 .. Len(t) : (s \o t)[i + Len(s)] = t[i]
    OBVIOUS
  <2>4. ToSet(s \o t) \subseteq ToSet(s) \cup ToSet(t)
    <3> SUFFICES ASSUME NEW i \in 1 .. Len(s \o t) PROVE (s \o t)[i] \in ToSet(s) \cup ToSet(t)
      BY <2>1 DEF ToSet
    <3>1. CASE i <= Len(s)
      BY <2>1, <2>2, <3>1 DEF ToSet
    <3>2. CASE i > Len(s)
      <4>1. i - Len(s) \in 1 .. Len(t) /\ (i - Len(s)) + Len(s) = i
        BY <2>1, <3>2
      <4>2. (s \o t)[i] = t[i - Len(s)]
        BY <2>3, <4>1
      <4>. QED
        BY <4>1, <4>2 DEF ToSet
    <3>. QED
      BY <2>1, <3>1, <3>2
  <2>5. ToSet(s) \subseteq ToSet(s \o t)
    BY <2>1, <2>2 DEF ToSet
  <2>6. ToSet(t) \subseteq ToSet(s \o t)
    <3> DEFINE all == ToSet(s \o t)
    <3>1. ASSUME NEW i \in 1 .. Len(t) PROVE t[i] \in all
      <4>1. i + Len(s) \in 1 .. Len(s \o t)
        BY <2>1
      <4>2. (s \o t)[i + Len(s)] \in ToSet(s \o t)
        BY <2>1, <4>1, ToSetHas
      <4>. QED
        BY <2>3, <4>2
    <3> HIDE DEF all
    <3>2. ToSet(t) \subseteq all
      BY <3>1 DEF ToSet
    <3>. QED
      BY <3>2 DEF all
  <2>. QED
    BY <2>1, <2>4, <2>5, <2>6
<1>3. ASSUME NEW e \in V PROVE Append(s, e) \in Seq(V) /\ ToSet(Append(s, e)) = ToSet(s) \cup {e}
  <2>1. Append(s, e) \in Seq(V) /\ Len(Append(s, e)) = Len(s) + 1 /\ Len(s) \in Nat
    OBVIOUS
  <2>2. \A i \in 1 .. Len(s) + 1 : Append(s, e)[i] = IF i = Len(s) + 1 THEN e ELSE s[i]
    OBVIOUS
  <2>. QED
    BY <2>1, <2>2 DEF ToSet
<1>4. ASSUME s # <<>>
      PROVE  /\ Head(s) \in V /\ Tail(s) \in Seq(V)
             /\ ToSet(s) = {Head(s)} \cup ToSet(Tail(s))
  <2>1. /\ Head(s) = s[1] /\ Head(s) \in V /\ Tail(s) \in Seq(V)
        /\ Len(s) \in Nat \ {0} /\ Len(Tail(s)) = Len(s) - 1
        /\ \A i \in 1 .. Len(Tail(s)) : Tail(s)[i] = s[i + 1]
    BY <1>4
  <2>2. ToSet(Tail(s)) \subseteq ToSet(s)
    BY <2>1 DEF ToSet
  <2>3. Head(s) \in ToSet(s)
    BY <2>1 DEF ToSet
  <2>4. ASSUME NEW i \in 1 .. Len(s), i # 1 PROVE s[i] \in ToSet(Tail(s))
    <3>1. i - 1 \in 1 .. Len(Tail(s)) /\ (i - 1) + 1 = i
      BY <2>1, <2>4
    <3>2. Tail(s)[i - 1] = s[i]
      BY <2>1, <3>1
    <3>3. Tail(s)[i - 1] \in ToSet(Tail(s))
      BY <2>1, <3>1, ToSetHas
    <3>. QED
      BY <3>2, <3>3
  <2>. QED
    BY <2>1, <2>2, <2>3, <2>4 DEF ToSet
<1>. QED
  BY <1>1, <1>2, <1>3, <1>4

LEMMA ToSetEmpty == ToSet(<<>>) = {}
  BY DEF ToSet

LEMMA PktsEmpty == Pkts({}) = {}
  BY DEF Pkts

\* A frame at the end of a queue, and the one at its head.
LEMMA QueueFacts ==
  ASSUME NEW s \in Seq(Frame)
  PROVE  /\ \A f \in Frame :
              /\ Append(s, f) \in Seq(Frame)
              /\ Pkts(ToSet(Append(s, f))) = Pkts(ToSet(s)) \cup ToSet(f.pkts)
              /\ Apart(s) /\ Pkts(ToSet(s)) \cap ToSet(f.pkts) = {} => Apart(Append(s, f))
         /\ s # <<>> =>
              /\ Head(s) \in Frame /\ Tail(s) \in Seq(Frame)
              /\ Pkts(ToSet(s)) = ToSet(Head(s).pkts) \cup Pkts(ToSet(Tail(s)))
              /\ Apart(s) => Apart(Tail(s)) /\ ToSet(Head(s).pkts) \cap Pkts(ToSet(Tail(s))) = {}
<1>1. ASSUME NEW f \in Frame, Apart(s), Pkts(ToSet(s)) \cap ToSet(f.pkts) = {}
      PROVE  Apart(Append(s, f))
  <2>1. \A i \in 1 .. Len(s) : ToSet(s[i].pkts) \subseteq Pkts(ToSet(s))
    BY DEF Pkts, ToSet
  <2>2. /\ Len(Append(s, f)) = Len(s) + 1 /\ Len(s) \in Nat /\ DOMAIN Append(s, f) = 1 .. Len(s) + 1
        /\ \A i \in 1 .. Len(s) + 1 : Append(s, f)[i] = IF i = Len(s) + 1 THEN f ELSE s[i]
        /\ DOMAIN s = 1 .. Len(s)
    OBVIOUS
  <2> SUFFICES ASSUME NEW i \in 1 .. Len(s) + 1, NEW j \in 1 .. Len(s) + 1, i # j
               PROVE  ToSet(Append(s, f)[i].pkts) \cap ToSet(Append(s, f)[j].pkts) = {}
    BY <2>2 DEF Apart
  <2>3. CASE i = Len(s) + 1
    <3>1. j \in 1 .. Len(s) /\ Append(s, f)[i] = f /\ Append(s, f)[j] = s[j]
      BY <2>2, <2>3
    <3>. QED
      BY <1>1, <2>1, <3>1
  <2>4. CASE j = Len(s) + 1
    <3>1. i \in 1 .. Len(s) /\ Append(s, f)[j] = f /\ Append(s, f)[i] = s[i]
      BY <2>2, <2>4
    <3>. QED
      BY <1>1, <2>1, <3>1
  <2>5. CASE i # Len(s) + 1 /\ j # Len(s) + 1
    <3>1. i \in 1 .. Len(s) /\ j \in 1 .. Len(s) /\ Append(s, f)[i] = s[i] /\ Append(s, f)[j] = s[j]
      BY <2>2, <2>5
    <3>. QED
      BY <1>1, <2>2, <3>1 DEF Apart
  <2>. QED
    BY <2>3, <2>4, <2>5
<1>2. ASSUME s # <<>>, Apart(s)
      PROVE  Apart(Tail(s)) /\ ToSet(Head(s).pkts) \cap Pkts(ToSet(Tail(s))) = {}
  <2>1. /\ Head(s) = s[1] /\ Len(s) \in Nat \ {0} /\ Len(Tail(s)) = Len(s) - 1 /\ DOMAIN s = 1 .. Len(s)
        /\ DOMAIN Tail(s) = 1 .. Len(Tail(s))
        /\ \A i \in 1 .. Len(Tail(s)) : Tail(s)[i] = s[i + 1]
    BY <1>2
  <2>2. \A i \in 1 .. Len(Tail(s)) : i + 1 \in 1 .. Len(s) /\ i + 1 # 1
    BY <2>1
  <2>3. Apart(Tail(s))
    <3> SUFFICES ASSUME NEW i \in 1 .. Len(Tail(s)), NEW j \in 1 .. Len(Tail(s)), i # j
                 PROVE  ToSet(Tail(s)[i].pkts) \cap ToSet(Tail(s)[j].pkts) = {}
      BY <2>1 DEF Apart
    <3>1. i + 1 # j + 1
      BY <2>1
    <3>. QED
      BY <1>2, <2>1, <2>2, <3>1 DEF Apart
  <2>4. \A i \in 1 .. Len(Tail(s)) : ToSet(Head(s).pkts) \cap ToSet(Tail(s)[i].pkts) = {}
    <3> SUFFICES ASSUME NEW i \in 1 .. Len(Tail(s))
                 PROVE  ToSet(s[1].pkts) \cap ToSet(s[i + 1].pkts) = {}
      BY <2>1
    <3>1. i + 1 \in DOMAIN s /\ 1 \in DOMAIN s /\ i + 1 # 1
      BY <2>1, <2>2
    <3>. QED
      BY <1>2, <3>1 DEF Apart
  <2>5. ToSet(Head(s).pkts) \cap Pkts(ToSet(Tail(s))) = {}
    <3>1. \A f \in ToSet(Tail(s)) : ToSet(Head(s).pkts) \cap ToSet(f.pkts) = {}
      <4>1. ToSet(Tail(s)) = {Tail(s)[i] : i \in 1 .. Len(Tail(s))}
        BY <2>1 DEF ToSet
      <4>. QED
        BY <2>4, <4>1
    <3>. QED
      BY <3>1 DEF Pkts
  <2>. QED
    BY <2>3, <2>5
<1>3. ASSUME NEW f \in Frame
      PROVE  /\ Append(s, f) \in Seq(Frame)
             /\ Pkts(ToSet(Append(s, f))) = Pkts(ToSet(s)) \cup ToSet(f.pkts)
  <2>1. Append(s, f) \in Seq(Frame) /\ ToSet(Append(s, f)) = ToSet(s) \cup {f}
    BY ToSetFacts
  <2>2. Pkts(ToSet(s) \cup {f}) = Pkts(ToSet(s)) \cup ToSet(f.pkts)
    BY DEF Pkts
  <2>. QED
    BY <2>1, <2>2, Zenon
<1>4. ASSUME s # <<>>
      PROVE  /\ Head(s) \in Frame /\ Tail(s) \in Seq(Frame)
             /\ Pkts(ToSet(s)) = ToSet(Head(s).pkts) \cup Pkts(ToSet(Tail(s)))
  <2>1. Head(s) \in Frame /\ Tail(s) \in Seq(Frame) /\ ToSet(s) = {Head(s)} \cup ToSet(Tail(s))
    BY <1>4, ToSetFacts
  <2>2. Pkts({Head(s)} \cup ToSet(Tail(s))) = ToSet(Head(s).pkts) \cup Pkts(ToSet(Tail(s)))
    BY DEF Pkts
  <2>. QED
    BY <2>1, <2>2, Zenon
<1>. QED
  BY <1>1, <1>2, <1>3, <1>4

-----------------------------------------------------------------------------
(* Types *)

\* The steps in which packets move.
Moves ==
  \/ \E n \in Nets, own \in BOOLEAN : rmnet_vnd_start_xmit(n, own)
  \/ \E n \in Nets : TxAlone(n) \/ TxAggFreed(n) \/ TxXmit(n) \/ TxBusy(n) \/ TxArm(n)
                     \/ (\E fits, now \in BOOLEAN : TxAgg(n, fits, now))
                     \/ rmnet_usb_tx_agg_work(n) \/ WorkXmit(n) \/ StopReal(n) \/ UnregFree(n)
  \/ RealXmit \/ Complete \/ usbnet_disconnect

\* The others.
Rests ==
  \/ \E n \in Nets : rmnet_usb_tx_agg_timer_cb(n) \/ Starts(n) \/ StopLink(n) \/ StopRead(n) \/ StopNet(n)
                     \/ Stores(n) \/ UnregSkip(n) \/ UnregStop(n) \/ UnregCancel(n) \/ UnregClose(n)
  \/ RealCheck \/ qmi_wwan_start_xmit \/ Tasklet \/ QmapSettings
  \/ qmi_wwan_suspend \/ qmi_wwan_resume \/ disconnect

LEMMA NextCases == ASSUME QmapNext PROVE Moves \/ Rests
  BY DEF QmapNext, Moves, Rests, Xmits, Flushes, Stops, Unregisters, RealSteps

LEMMA RestsKeep == ASSUME Rests PROVE UNCHANGED <<agg, held, tx, qdisc, txq, wire, made, lost>>
  BY DEF Rests, rmnet_usb_tx_agg_timer_cb, Starts, StartLink, StartReal, StartClose, StartOpen, StopLink,
         StopRead, StopNet, UnregSkip, UnregStop, UnregCancel, UnregClose, RealCheck, qmi_wwan_start_xmit,
         Tasklet, QmapSettings, qmi_wwan_suspend, qmi_wwan_resume, disconnect, aggVars, sentVars,
         Stores, StoreLoad, StoreWrite, StoreOn, StoreNet, StoreOff, StoreDrop

LEMMA DestructorTypes ==
  ASSUME NEW X PROVE rmnet_usb_tx_skb_destructor(X) \in BOOLEAN
  BY Zenon DEF rmnet_usb_tx_skb_destructor

LEMMA EnqueueTypes ==
  ASSUME Types, NEW f \in Frame, Enqueue(f)
  PROVE  qdisc' \in Seq(Frame) /\ tasklet' \in BOOLEAN
<1>1. qdisc' \in Seq(Frame)
  <2>1. Append(qdisc, f) \in Seq(Frame) /\ qdisc \in Seq(Frame)
    BY QueueFacts DEF Types
  <2>. QED
    BY <2>1 DEF Enqueue
<1>2. tasklet' \in BOOLEAN
  BY DestructorTypes DEF Enqueue, Types
<1>. QED
  BY <1>1, <1>2

LEMMA IdleTypes == Idle \in Xmit /\ <<>> \in Seq(Pk)
  BY DEF Idle, Xmit

\* start_xmit of n is at p with the packets s in its hands and o on their way
\* out; the others are where they were.
Becomes(n, p, s, o) ==
  /\ tx' \in [Nets -> Xmit] /\ tx'[n].pc = p /\ tx'[n].skb = s /\ tx'[n].out = o
  /\ \A m \in Nets \ {n} : tx'[m] = tx[m]

LEMMA Assigned ==
  ASSUME tx \in [Nets -> Xmit], NEW n \in Nets, NEW p \in {"idle", "busy", "agg", "xmit", "arm"},
         NEW s \in Seq(Pk), NEW o \in Seq(Pk), NEW h \in BOOLEAN
  PROVE  /\ tx' = [tx EXCEPT ![n].pc = p, ![n].skb = s, ![n].out = o, ![n].hook = h] => Becomes(n, p, s, o)
         /\ tx' = [tx EXCEPT ![n].pc = p, ![n].out = o, ![n].hook = h] => Becomes(n, p, tx[n].skb, o)
         /\ tx' = [tx EXCEPT ![n].pc = p] => Becomes(n, p, tx[n].skb, tx[n].out)
         /\ \A x \in Xmit : tx' = [tx EXCEPT ![n] = x] => Becomes(n, x.pc, x.skb, x.out)
<1>1. tx[n] \in Xmit /\ DOMAIN tx = Nets
  OBVIOUS
<1>2. ASSUME NEW x \in Xmit, tx' = [tx EXCEPT ![n] = x] PROVE Becomes(n, x.pc, x.skb, x.out)
  BY <1>1, <1>2 DEF Becomes
<1>3. ASSUME tx' = [tx EXCEPT ![n].pc = p, ![n].skb = s, ![n].out = o, ![n].hook = h]
      PROVE  Becomes(n, p, s, o)
  <2> DEFINE x == [tx[n] EXCEPT !.pc = p, !.skb = s, !.out = o, !.hook = h]
  <2>1. x \in Xmit /\ x.pc = p /\ x.skb = s /\ x.out = o
    BY <1>1 DEF Xmit
  <2>2. tx'[n] = x /\ tx' = [m \in Nets |-> tx'[m]] /\ \A m \in Nets \ {n} : tx'[m] = tx[m]
    BY <1>1, <1>3
  <2> HIDE DEF x
  <2>. QED
    BY <1>1, <2>1, <2>2 DEF Becomes
<1>4. ASSUME tx' = [tx EXCEPT ![n].pc = p, ![n].out = o, ![n].hook = h]
      PROVE  Becomes(n, p, tx[n].skb, o)
  <2> DEFINE x == [tx[n] EXCEPT !.pc = p, !.out = o, !.hook = h]
  <2>1. x \in Xmit /\ x.pc = p /\ x.skb = tx[n].skb /\ x.out = o
    BY <1>1 DEF Xmit
  <2>2. tx'[n] = x /\ tx' = [m \in Nets |-> tx'[m]] /\ \A m \in Nets \ {n} : tx'[m] = tx[m]
    BY <1>1, <1>4
  <2> HIDE DEF x
  <2>. QED
    BY <1>1, <2>1, <2>2 DEF Becomes
<1>5. ASSUME tx' = [tx EXCEPT ![n].pc = p]
      PROVE  Becomes(n, p, tx[n].skb, tx[n].out)
  <2> DEFINE x == [tx[n] EXCEPT !.pc = p]
  <2>1. x \in Xmit /\ x.pc = p /\ x.skb = tx[n].skb /\ x.out = tx[n].out
    BY <1>1 DEF Xmit
  <2>2. tx'[n] = x /\ tx' = [m \in Nets |-> tx'[m]] /\ \A m \in Nets \ {n} : tx'[m] = tx[m]
    BY <1>1, <1>5
  <2> HIDE DEF x
  <2>. QED
    BY <1>1, <2>1, <2>2 DEF Becomes
<1>. QED
  BY <1>2, <1>3, <1>4, <1>5

\* One pass under agg_lock gives the buffer a, the frame o and the packet s
\* that waits, in one of four ways.
Pass(buf, skb, a, o, s) ==
  \/ buf # <<>> /\ a = <<>> /\ o = buf /\ s = skb
  \/ buf # <<>> /\ a = <<>> /\ o = buf \o skb /\ s = <<>>
  \/ buf = <<>> /\ a = <<>> /\ o = skb /\ s = <<>>
  \/ /\ a = buf \o skb /\ o = <<>> /\ s = <<>>
     /\ buf = <<>> \/ Len(buf) + 1 # MaxDatagrams

LEMMA AggPasses ==
  ASSUME NEW buf, NEW skb, NEW own \in BOOLEAN, NEW fits \in BOOLEAN, NEW now \in BOOLEAN,
         NEW r, r = rmnet_usb_tx_agg(buf, skb, own, fits, now)
  PROVE  r.hook \in BOOLEAN /\ Pass(buf, skb, r.agg, r.out, r.skb)
<1>1. CASE buf # <<>> /\ ~fits
  BY <1>1 DEF rmnet_usb_tx_agg, Pass
<1>2. CASE ~(buf # <<>> /\ ~fits) /\ buf # <<>> /\ (now \/ Len(buf) + 1 = MaxDatagrams)
  BY <1>2 DEF rmnet_usb_tx_agg, Pass
<1>3. CASE buf = <<>> /\ now
  BY <1>3 DEF rmnet_usb_tx_agg, Pass
<1>4. CASE ~(buf # <<>> /\ ~fits) /\ ~(buf # <<>> /\ (now \/ Len(buf) + 1 = MaxDatagrams)) /\ ~(buf = <<>> /\ now)
  BY <1>4 DEF rmnet_usb_tx_agg, Pass
<1>. QED
  BY <1>1, <1>2, <1>3, <1>4

LEMMA TxAggDoes ==
  ASSUME Types, NEW n \in Nets, NEW fits \in BOOLEAN, NEW now \in BOOLEAN, TxAgg(n, fits, now)
  PROVE  \E a, o, s \in Seq(Pk) :
           /\ agg' = [agg EXCEPT ![n] = a] /\ Becomes(n, "xmit", s, o)
           /\ Pass(agg[n], tx[n].skb, a, o, s)
<1>0. agg \in [Nets -> Seq(Pk)] /\ tx \in [Nets -> Xmit]
  BY DEF Types
<1>1. agg[n] \in Seq(Pk) /\ tx[n].skb \in Seq(Pk) /\ tx[n].own \in BOOLEAN
  BY <1>0 DEF Xmit
<1>2. agg[n] \o tx[n].skb \in Seq(Pk) /\ <<>> \in Seq(Pk)
  BY <1>1, ToSetFacts
<1>3. PICK r : /\ r = rmnet_usb_tx_agg(agg[n], tx[n].skb, tx[n].own, fits, now)
               /\ agg' = [agg EXCEPT ![n] = r.agg]
               /\ tx' = [tx EXCEPT ![n].pc = "xmit", ![n].skb = r.skb, ![n].out = r.out,
                                   ![n].hook = r.hook]
  BY DEF TxAgg
<1>4. r.hook \in BOOLEAN /\ Pass(agg[n], tx[n].skb, r.agg, r.out, r.skb)
  BY <1>1, <1>3, AggPasses
<1>5. r.agg \in Seq(Pk) /\ r.out \in Seq(Pk) /\ r.skb \in Seq(Pk)
  BY <1>1, <1>2, <1>4 DEF Pass
<1>6. Becomes(n, "xmit", r.skb, r.out)
  BY <1>0, <1>3, <1>4, <1>5, Assigned
<1>. QED
  BY <1>3, <1>4, <1>5, <1>6

LEMMA StartDoes ==
  ASSUME Types, NEW n \in Nets, NEW own \in BOOLEAN, rmnet_vnd_start_xmit(n, own)
  PROVE  \/ Becomes(n, "busy", tx[n].skb, tx[n].out) /\ made' = made
         \/ /\ Becomes(n, "agg", << <<n, made[n] + 1>> >>, <<>>)
            /\ made' = [made EXCEPT ![n] = made[n] + 1]
<1>0. tx \in [Nets -> Xmit] /\ made \in [Nets -> Nat]
  BY DEF Types
<1>1. CASE real.stopped
  <2>1. FALSE \in BOOLEAN /\ <<>> \in Seq(Pk)
    BY IdleTypes, Zenon
  <2>. QED
    BY <1>0, <1>1, <2>1, Assigned DEF rmnet_vnd_start_xmit
<1>2. CASE ~real.stopped
  <2> DEFINE x == [Idle EXCEPT !.pc = "agg", !.own = own, !.skb = << <<n, made[n] + 1>> >>]
  <2>1. x.pc = "agg" /\ x.skb = << <<n, made[n] + 1>> >> /\ x.out = <<>>
    BY DEF Idle
  <2>2. << <<n, made[n] + 1>> >> \in Seq(Pk)
    BY <1>0 DEF Pk
  <2>3. x \in Xmit
    BY <2>2, IdleTypes DEF Xmit
  <2>4. tx' = [tx EXCEPT ![n] = x] /\ made' = [made EXCEPT ![n] = made[n] + 1]
    BY <1>2 DEF rmnet_vnd_start_xmit
  <2> HIDE DEF x
  <2>5. \A h \in BOOLEAN : \A s \in Seq(Pk) : tx' = [tx EXCEPT ![n] = x] => Becomes(n, x.pc, x.skb, x.out)
    BY <1>0, <2>3, Assigned
  <2>6. FALSE \in BOOLEAN /\ <<>> \in Seq(Pk)
    BY IdleTypes, Zenon
  <2>. QED
    BY <2>1, <2>4, <2>5, <2>6
<1>. QED
  BY <1>1, <1>2

LEMMA TxDoes ==
  ASSUME Types, NEW n \in Nets
  PROVE  /\ TxAlone(n) => Becomes(n, "xmit", <<>>, tx[n].skb)
         /\ TxBusy(n) \/ TxArm(n) \/ TxAggFreed(n) => Becomes(n, "idle", <<>>, <<>>)
         /\ TxXmit(n) => \E p \in {"agg", "idle", "arm"} :
              Becomes(n, p, tx[n].skb, <<>>) /\ (p # "agg" => tx[n].skb = <<>>)
<1>0. tx \in [Nets -> Xmit] /\ tx[n] \in Xmit
  BY DEF Types
<1>1. FALSE \in BOOLEAN /\ (~tx[n].own) \in BOOLEAN /\ <<>> \in Seq(Pk)
  BY IdleTypes, Zenon
<1>2. tx[n].skb \in Seq(Pk)
  BY <1>0 DEF Xmit
<1>3. TxAlone(n) => Becomes(n, "xmit", <<>>, tx[n].skb)
  BY <1>0, <1>1, <1>2, Assigned DEF TxAlone
<1>4. ASSUME TxBusy(n) \/ TxArm(n) \/ TxAggFreed(n) PROVE Becomes(n, "idle", <<>>, <<>>)
  <2>1. tx' = [tx EXCEPT ![n] = Idle]
    BY <1>4 DEF TxBusy, TxArm, TxAggFreed
  <2>2. Idle.pc = "idle" /\ Idle.skb = <<>> /\ Idle.out = <<>>
    BY DEF Idle
  <2>. QED
    BY <1>0, <1>1, <2>1, <2>2, IdleTypes, Assigned
<1>5. ASSUME TxXmit(n)
      PROVE  \E p \in {"agg", "idle", "arm"} :
               Becomes(n, p, tx[n].skb, <<>>) /\ (p # "agg" => tx[n].skb = <<>>)
  <2> DEFINE p == IF tx[n].skb # <<>> THEN "agg" ELSE IF datagrams = 1 THEN "idle" ELSE "arm"
  <2>1. tx' = [tx EXCEPT ![n].pc = p, ![n].out = <<>>, ![n].hook = FALSE]
    BY <1>5 DEF TxXmit
  <2>2. p \in {"agg", "idle", "arm"} /\ (p # "agg" => tx[n].skb = <<>>)
    OBVIOUS
  <2> HIDE DEF p
  <2>3. Becomes(n, p, tx[n].skb, <<>>)
    BY <1>0, <1>1, <2>1, <2>2, Assigned
  <2>. QED
    BY <2>2, <2>3
<1>. QED
  BY <1>3, <1>4, <1>5

LEMMA MovesTypes ==
  ASSUME Types, Moves
  PROVE  Types'
<1>0. agg \in [Nets -> Seq(Pk)] /\ held \in [Nets -> Seq(Pk)] /\ tx \in [Nets -> Xmit]
  BY DEF Types
<1>1. ASSUME NEW n \in Nets, NEW own \in BOOLEAN, rmnet_vnd_start_xmit(n, own) PROVE Types'
  <2>1. made' \in [Nets -> Nat]
    <3>1. made' = made \/ made' = [made EXCEPT ![n] = made[n] + 1]
      BY <1>1 DEF rmnet_vnd_start_xmit
    <3>2. made \in [Nets -> Nat] /\ made[n] + 1 \in Nat
      BY DEF Types
    <3>. QED
      BY <3>1, <3>2
  <2>2. tx' \in [Nets -> Xmit]
    BY <1>1, StartDoes DEF Becomes
  <2>3. /\ UNCHANGED <<devVars, aggVars, sentVars, endVars, stopped, tasklet, cm, lost, budget>>
    BY <1>1 DEF rmnet_vnd_start_xmit
  <2>4. UNCHANGED <<reg, link, priv, store, clash, up, carrier, real, datagrams, agg, timer, work, held>>
    BY <2>3 DEF devVars, linkVars, aggVars
  <2>5. UNCHANGED <<qdisc, txq, wire, leaving, freed, raced, touched, stopped, tasklet, cm, budget>>
    BY <2>3 DEF sentVars, endVars
  <2>. QED
    BY <2>1, <2>2, <2>4, <2>5 DEF Types
<1>2. ASSUME NEW n \in Nets, TxBusy(n) \/ TxArm(n) PROVE Types'
  <2>1. tx' \in [Nets -> Xmit]
    BY <1>2, TxDoes DEF Becomes
  <2>. QED
    BY <1>2, <2>1 DEF TxBusy, TxArm, Armed, Types, devVars, linkVars, aggVars, sentVars, endVars
<1>3. ASSUME NEW n \in Nets, TxAlone(n) PROVE Types'
  <2>1. tx' \in [Nets -> Xmit]
    BY <1>3, TxDoes DEF Becomes
  <2>. QED
    BY <1>3, <2>1 DEF TxAlone, Types, devVars, linkVars, aggVars, sentVars, endVars
<1>4. ASSUME NEW n \in Nets, NEW fits \in BOOLEAN, NEW now \in BOOLEAN, TxAgg(n, fits, now) PROVE Types'
  <2>1. PICK a \in Seq(Pk), o \in Seq(Pk), s \in Seq(Pk) :
          agg' = [agg EXCEPT ![n] = a] /\ Becomes(n, "xmit", s, o)
    BY <1>4, TxAggDoes
  <2>2. agg' \in [Nets -> Seq(Pk)] /\ tx' \in [Nets -> Xmit]
    BY <1>0, <2>1 DEF Becomes
  <2>. QED
    BY <1>4, <2>2 DEF TxAgg, Types, devVars, linkVars, sentVars, endVars
<1>5. ASSUME NEW n \in Nets, TxAggFreed(n) PROVE Types'
  <2>1. tx' \in [Nets -> Xmit]
    BY <1>5, TxDoes DEF Becomes
  <2>2. touched' \in BOOLEAN
    BY <1>5, Zenon DEF TxAggFreed
  <2>. QED
    BY <1>5, <2>1, <2>2 DEF TxAggFreed, Types, devVars, linkVars, aggVars, sentVars
<1>6. ASSUME NEW n \in Nets, TxXmit(n) PROVE Types'
  <2>1. tx[n] \in Xmit
    BY <1>0
  <2>2. [pkts |-> tx[n].out, hook |-> tx[n].hook] \in Frame
    BY <2>1 DEF Xmit, Frame
  <2>3. qdisc' \in Seq(Frame) /\ tasklet' \in BOOLEAN
    <3>1. CASE tx[n].out # <<>>
      BY <1>6, <2>2, <3>1, EnqueueTypes DEF TxXmit
    <3>2. CASE tx[n].out = <<>>
      BY <1>6, <3>2 DEF TxXmit, Types
    <3>. QED
      BY <3>1, <3>2
  <2>4. tx' \in [Nets -> Xmit]
    BY <1>6, TxDoes DEF Becomes
  <2>. QED
    BY <1>6, <2>3, <2>4 DEF TxXmit, Types, devVars, linkVars, aggVars, endVars
<1>7. ASSUME NEW n \in Nets, rmnet_usb_tx_agg_work(n) PROVE Types'
  <2>1. agg' \in [Nets -> Seq(Pk)] /\ held' \in [Nets -> Seq(Pk)]
    BY <1>0, <1>7, IdleTypes DEF rmnet_usb_tx_agg_work
  <2>2. touched' \in {TRUE, touched}
    BY <1>7, Zenon DEF rmnet_usb_tx_agg_work
  <2>3. touched' \in BOOLEAN
    BY <2>2, Zenon DEF Types
  <2>. QED
    BY <1>7, <2>1, <2>3 DEF rmnet_usb_tx_agg_work, Types, devVars, linkVars, sentVars
<1>8. ASSUME NEW n \in Nets, WorkXmit(n) PROVE Types'
  <2>1. [pkts |-> held[n], hook |-> FALSE] \in Frame
    <3>1. FALSE \in BOOLEAN /\ held[n] \in Seq(Pk)
      BY <1>0, Zenon
    <3>. QED
      BY <3>1 DEF Frame
  <2>2. qdisc' \in Seq(Frame) /\ tasklet' \in BOOLEAN
    BY <1>8, <2>1, EnqueueTypes DEF WorkXmit
  <2>3. held' \in [Nets -> Seq(Pk)]
    BY <1>0, <1>8, IdleTypes DEF WorkXmit
  <2>. QED
    BY <1>8, <2>2, <2>3 DEF WorkXmit, Types, devVars, linkVars, endVars
<1>9. ASSUME NEW n \in Nets, StopReal(n) PROVE Types'
  <2>1. real' \in Real
    BY <1>9 DEF StopReal, Types, Real
  <2>2. tasklet' \in BOOLEAN /\ <<>> \in Seq(Frame)
    BY <1>9, DestructorTypes DEF StopReal
  <2>3. cm' \in [Nets -> CmSteps]
    BY <1>9 DEF StopReal, CmAt, Types, CmSteps
  <2>. QED
    BY <1>9, <2>1, <2>2, <2>3 DEF StopReal, Types, linkVars, aggVars, endVars
<1>10. ASSUME NEW n \in Nets, UnregFree(n) PROVE Types'
  <2>1. agg' \in [Nets -> Seq(Pk)]
    BY <1>0, <1>10, IdleTypes DEF UnregFree
  <2>2. leaving' \in [Nets -> Steps]
    BY <1>10 DEF UnregFree, Types, Steps
  <2>. QED
    BY <1>10, <2>1, <2>2 DEF UnregFree, Types, devVars, linkVars, sentVars
<1>11. ASSUME RealXmit PROVE Types'
  <2>1. qdisc' \in Seq(Frame) /\ txq' \in Seq(Frame)
    BY <1>11, QueueFacts DEF RealXmit, Types
  <2>2. (Len(txq') >= TxQlen \/ real.asleep) \in BOOLEAN
    BY Zenon
  <2>3. real' \in Real
    BY <1>11, <2>2 DEF RealXmit, Types, Real
  <2>. QED
    BY <1>11, <2>1, <2>3 DEF RealXmit, Types, linkVars, aggVars, endVars
<1>12. ASSUME Complete PROVE Types'
  <2>1. txq' \in Seq(Frame) /\ Head(txq) \in Frame
    BY <1>12, QueueFacts DEF Complete, Types
  <2>2. wire' \in Seq(Pk)
    BY <1>12, <2>1, ToSetFacts DEF Complete, Types, Frame
  <2>3. real' \in Real
    <3>1. (Len(txq') >= TxQlen) \in BOOLEAN
      OBVIOUS
    <3>. QED
      BY <1>12, <3>1 DEF Complete, Types, Real
  <2>4. tasklet' \in BOOLEAN
    BY <1>12, DestructorTypes DEF Complete
  <2>. QED
    BY <1>12, <2>1, <2>2, <2>3, <2>4 DEF Complete, Types, linkVars, aggVars, endVars
<1>13. ASSUME usbnet_disconnect PROVE Types'
  <2>1. real' \in Real
    BY <1>13 DEF usbnet_disconnect, Types, Real
  <2>2. tasklet' \in BOOLEAN
    BY <1>13, Zenon DEF usbnet_disconnect
  <2>3. leaving' \in [Nets -> Steps] /\ <<>> \in Seq(Frame)
    BY <1>13 DEF usbnet_disconnect, Steps
  <2>. QED
    BY <1>13, <2>1, <2>2, <2>3 DEF usbnet_disconnect, Types, aggVars, linkVars
<1>. QED
  BY <1>1, <1>2, <1>3, <1>4, <1>5, <1>6, <1>7, <1>8, <1>9, <1>10, <1>11, <1>12, <1>13 DEF Moves

LEMMA BudgetSpent ==
  ASSUME NEW b \in Budget
  PROVE  /\ b.stops > 0 => [b EXCEPT !.stops = @ - 1] \in Budget
         /\ b.naps > 0 => [b EXCEPT !.naps = @ - 1] \in Budget
         /\ [b EXCEPT !.leaves = 0, !.stops = 0, !.naps = 0] \in Budget
         /\ [b EXCEPT !.stops = @ - 1].pkts = b.pkts /\ [b EXCEPT !.naps = @ - 1].pkts = b.pkts
         /\ [b EXCEPT !.leaves = 0, !.stops = 0, !.naps = 0].pkts = b.pkts
<1>1. \A k \in Nat : [b EXCEPT !.stops = k] \in Budget /\ [b EXCEPT !.stops = k].pkts = b.pkts
  BY DEF Budget
<1>2. \A k \in Nat : [b EXCEPT !.naps = k] \in Budget /\ [b EXCEPT !.naps = k].pkts = b.pkts
  BY DEF Budget
<1>3. /\ [b EXCEPT !.leaves = 0, !.stops = 0, !.naps = 0] \in Budget
      /\ [b EXCEPT !.leaves = 0, !.stops = 0, !.naps = 0].pkts = b.pkts
  <2> DEFINE c == [b EXCEPT !.leaves = 0]
             d == [c EXCEPT !.stops = 0]
  <2>1. c \in Budget /\ c.pkts = b.pkts
    BY DEF Budget
  <2> HIDE DEF c
  <2>2. d \in Budget /\ d.pkts = c.pkts
    BY <2>1 DEF Budget
  <2> HIDE DEF d
  <2>3. [d EXCEPT !.naps = 0] \in Budget /\ [d EXCEPT !.naps = 0].pkts = d.pkts
    BY <2>2 DEF Budget
  <2>. QED
    BY <2>1, <2>2, <2>3 DEF c, d
<1>4. b.stops \in Nat /\ b.naps \in Nat
  BY DEF Budget
<1>5. (b.stops > 0 => b.stops - 1 \in Nat) /\ (b.naps > 0 => b.naps - 1 \in Nat)
  BY <1>4
<1>6. [b EXCEPT !.stops = @ - 1].pkts = b.pkts /\ [b EXCEPT !.naps = @ - 1].pkts = b.pkts
  BY DEF Budget
<1>. QED
  BY <1>1, <1>2, <1>3, <1>5, <1>6

\* The call of n is at p with the rest of its state as given; the others are
\* where they were.
StoreIs(n, p, on, old, val, net) ==
  /\ store' \in [Nets -> Store]
  /\ store'[n].pc = p /\ store'[n].on = on /\ store'[n].old = old /\ store'[n].val = val
  /\ store'[n].net = net
  /\ \A m \in Nets \ {n} : store'[m] = store[m]

LEMMA StoreAssigned ==
  ASSUME Types, NEW n \in Nets, NEW x \in Store, store' = [store EXCEPT ![n] = x]
  PROVE  StoreIs(n, x.pc, x.on, x.old, x.val, x.net)
  BY DEF Types, StoreIs

LEMMA RestingTypes == Resting \in Store
<1>1. FALSE \in BOOLEAN /\ {} \in SUBSET Nets
  BY Zenon
<1>. QED
  BY <1>1 DEF Resting, Store

LEMMA StoreFacts ==
  ASSUME Types, NEW n \in Nets
  PROVE  /\ \A p \in {"idle", "load", "write", "on", "net", "off", "drop"}, v \in SUBSET Nets, b \in BOOLEAN :
              /\ [store[n] EXCEPT !.pc = p] \in Store /\ [store[n] EXCEPT !.pc = p, !.val = v] \in Store
              /\ [store[n] EXCEPT !.pc = p, !.net = b] \in Store
         /\ store \in [Nets -> Store] /\ store[n] \in Store /\ Sees(n) \subseteq SUBSET Nets
<1>1. store[n] \in Store /\ link \in SUBSET Nets /\ store[n].val \in SUBSET Nets
  BY DEF Types, Store
<1>. QED
  BY <1>1 DEF Store, Sees, Types

\* What each step does to the call.
LEMMA StoreDoes ==
  ASSUME Types, NEW n \in Nets
  PROVE  /\ \A on \in BOOLEAN : link_state_store(n, on) => StoreIs(n, "load", on, link, {}, FALSE)
         /\ StoreLoad(n) => StoreIs(n, "write", store[n].on, store[n].old, link, store[n].net)
         /\ StoreWrite(n) => /\ StoreIs(n, "on", store[n].on, store[n].old, link', store[n].net)
                             /\ link' \subseteq Nets /\ clash' \subseteq Clashes
         /\ StoreOn(n) =>
              \/ /\ store[n].old \in Sees(n) /\ StoreIs(n, "idle", FALSE, {}, {}, FALSE)
                 /\ real' = real
              \/ /\ StoreIs(n, "net", store[n].on, store[n].old, store[n].val, n \in reg)
                 /\ real' \in Real /\ (real.carrier => real'.carrier)
         /\ StoreNet(n) => StoreIs(n, "off", store[n].on, store[n].old, store[n].val, FALSE)
         /\ StoreOff(n) =>
              \/ StoreIs(n, "idle", FALSE, {}, {}, FALSE)
              \/ /\ {} \in Sees(n)
                 /\ StoreIs(n, "drop", store[n].on, store[n].old, store[n].val, store[n].net)
         /\ StoreDrop(n) => /\ StoreIs(n, "idle", FALSE, {}, {}, FALSE) /\ real' \in Real
<1>0. /\ store \in [Nets -> Store] /\ store[n] \in Store /\ link \subseteq Nets /\ clash \subseteq Clashes
      /\ store[n].val \subseteq Nets /\ real \in Real
  BY DEF Types, Store
<1>1. ASSUME NEW on \in BOOLEAN, link_state_store(n, on) PROVE StoreIs(n, "load", on, link, {}, FALSE)
  <2> DEFINE x == [pc |-> "load", on |-> on, old |-> link, val |-> {}, net |-> FALSE]
  <2>0. FALSE \in BOOLEAN
    BY Zenon
  <2>1. /\ x \in Store /\ x.pc = "load" /\ x.on = on /\ x.old = link /\ x.val = {} /\ x.net = FALSE
    BY <1>0, <2>0 DEF Store
  <2>2. store' = [store EXCEPT ![n] = x]
    BY <1>1 DEF link_state_store
  <2> HIDE DEF x
  <2>. QED
    BY <2>1, <2>2, StoreAssigned DEF StoreIs
<1>2. ASSUME StoreLoad(n) PROVE StoreIs(n, "write", store[n].on, store[n].old, link, store[n].net)
  <2> DEFINE x == [store[n] EXCEPT !.pc = "write", !.val = link]
  <2>1. /\ x \in Store /\ x.pc = "write" /\ x.on = store[n].on /\ x.old = store[n].old /\ x.val = link
        /\ x.net = store[n].net
    BY <1>0 DEF Store
  <2>2. store' = [store EXCEPT ![n] = x]
    BY <1>0, <1>2 DEF StoreLoad
  <2> HIDE DEF x
  <2>. QED
    BY <2>1, <2>2, StoreAssigned DEF StoreIs
<1>3. ASSUME StoreWrite(n)
      PROVE  /\ StoreIs(n, "on", store[n].on, store[n].old, link', store[n].net)
             /\ link' \subseteq Nets /\ clash' \subseteq Clashes
  <2>0. link' \subseteq Nets /\ clash' \subseteq Clashes
    BY <1>0, <1>3 DEF StoreWrite, Clashes
  <2> DEFINE x == [store[n] EXCEPT !.pc = "on", !.val = link']
  <2>1. /\ x \in Store /\ x.pc = "on" /\ x.on = store[n].on /\ x.old = store[n].old /\ x.val = link'
        /\ x.net = store[n].net
    BY <1>0, <2>0 DEF Store
  <2>2. store' = [store EXCEPT ![n] = x]
    BY <1>0, <1>3 DEF StoreWrite
  <2> HIDE DEF x
  <2>. QED
    BY <2>0, <2>1, <2>2, StoreAssigned DEF StoreIs
<1>4. ASSUME store' = [store EXCEPT ![n] = Resting] PROVE StoreIs(n, "idle", FALSE, {}, {}, FALSE)
  <2>1. StoreIs(n, Resting.pc, Resting.on, Resting.old, Resting.val, Resting.net)
    BY <1>4, RestingTypes, StoreAssigned
  <2>. QED
    BY <2>1 DEF Resting
<1>5. ASSUME StoreOn(n)
      PROVE  \/ /\ store[n].old \in Sees(n) /\ StoreIs(n, "idle", FALSE, {}, {}, FALSE)
                /\ real' = real
             \/ /\ StoreIs(n, "net", store[n].on, store[n].old, store[n].val, n \in reg)
                /\ real' \in Real /\ (real.carrier => real'.carrier)
  <2>1. PICK bits \in Sees(n) :
          \/ /\ bits = store[n].old
             /\ store' = [store EXCEPT ![n] = Resting] /\ UNCHANGED real
          \/ /\ bits # store[n].old
             /\ store' = [store EXCEPT ![n].pc = "net", ![n].net = n \in reg]
             /\ real' = [real EXCEPT !.carrier = @ \/ (real.up /\ bits # {})]
    BY <1>5 DEF StoreOn
  <2>2. CASE bits = store[n].old /\ store' = [store EXCEPT ![n] = Resting] /\ UNCHANGED real
    BY <1>4, <2>2
  <2>3. CASE /\ store' = [store EXCEPT ![n].pc = "net", ![n].net = n \in reg]
             /\ real' = [real EXCEPT !.carrier = @ \/ (real.up /\ bits # {})]
    <3> DEFINE b == n \in reg
               c == real.carrier \/ (real.up /\ bits # {})
               x == [store[n] EXCEPT !.pc = "net", !.net = b]
    <3>0. b \in BOOLEAN
      <4>1. CASE n \in reg
        BY <4>1
      <4>2. CASE n \notin reg
        BY <4>2
      <4>. QED
        BY <4>1, <4>2
    <3>1. c \in BOOLEAN
      BY Zenon
    <3>2. real' = [real EXCEPT !.carrier = c] /\ (real.carrier => c)
      BY <2>3
    <3>3. store' = [store EXCEPT ![n] = x]
      BY <1>0, <2>3
    <3> HIDE DEF b, c
    <3>4. real' \in Real /\ real'.carrier = c
      BY <1>0, <3>1, <3>2 DEF Real
    <3>5. /\ x \in Store /\ x.pc = "net" /\ x.on = store[n].on /\ x.old = store[n].old
          /\ x.val = store[n].val /\ x.net = b
      BY <1>0, <3>0 DEF Store
    <3> HIDE DEF x
    <3>6. StoreIs(n, "net", store[n].on, store[n].old, store[n].val, b)
      BY <3>3, <3>5, StoreAssigned DEF StoreIs
    <3>7. StoreIs(n, "net", store[n].on, store[n].old, store[n].val, n \in reg)
      BY <3>6 DEF b
    <3>. QED
      BY <3>2, <3>4, <3>7
  <2>. QED
    BY <2>1, <2>2, <2>3
<1>6. ASSUME StoreNet(n) PROVE StoreIs(n, "off", store[n].on, store[n].old, store[n].val, FALSE)
  <2> DEFINE x == [store[n] EXCEPT !.pc = "off", !.net = FALSE]
  <2>0. FALSE \in BOOLEAN
    BY Zenon
  <2>1. /\ x \in Store /\ x.pc = "off" /\ x.on = store[n].on /\ x.old = store[n].old
        /\ x.val = store[n].val /\ x.net = FALSE
    BY <1>0, <2>0 DEF Store
  <2>2. store' = [store EXCEPT ![n] = x]
    BY <1>0, <1>6 DEF StoreNet
  <2> HIDE DEF x
  <2>. QED
    BY <2>1, <2>2, StoreAssigned DEF StoreIs
<1>7. ASSUME StoreOff(n)
      PROVE  \/ StoreIs(n, "idle", FALSE, {}, {}, FALSE)
             \/ /\ {} \in Sees(n)
                /\ StoreIs(n, "drop", store[n].on, store[n].old, store[n].val, store[n].net)
  <2>1. PICK bits \in Sees(n) :
          store' = [store EXCEPT ![n] = IF real.up /\ NoBitLeft(n, bits) THEN [@ EXCEPT !.pc = "drop"]
                                                                         ELSE Resting]
    BY <1>7 DEF StoreOff
  <2>2. CASE ~(real.up /\ NoBitLeft(n, bits))
    BY <1>0, <1>4, <2>1, <2>2
  <2>3. CASE real.up /\ NoBitLeft(n, bits)
    <3> DEFINE x == [store[n] EXCEPT !.pc = "drop"]
    <3>1. /\ x \in Store /\ x.pc = "drop" /\ x.on = store[n].on /\ x.old = store[n].old
          /\ x.val = store[n].val /\ x.net = store[n].net
      BY <1>0 DEF Store
    <3>2. store' = [store EXCEPT ![n] = x]
      BY <1>0, <2>1, <2>3
    <3> HIDE DEF x
    <3>. QED
      BY <2>3, <3>1, <3>2, StoreAssigned DEF StoreIs, NoBitLeft
  <2>. QED
    BY <2>2, <2>3
<1>8. ASSUME StoreDrop(n) PROVE StoreIs(n, "idle", FALSE, {}, {}, FALSE) /\ real' \in Real
  <2>1. FALSE \in BOOLEAN
    BY Zenon
  <2>2. real' \in Real
    BY <1>0, <1>8, <2>1 DEF StoreDrop, Real
  <2>. QED
    BY <1>4, <1>8, <2>2 DEF StoreDrop
<1>. QED
  BY <1>1, <1>2, <1>3, <1>5, <1>6, <1>7, <1>8

\* StoreNet changes the virtual device of n alone.
LEMMA StoreNetDoes ==
  ASSUME Types, NEW n \in Nets, StoreNet(n)
  PROVE  /\ priv' \subseteq Nets /\ carrier' \subseteq Nets /\ stopped' \subseteq Nets
         /\ touched' = touched \/ (store[n].net /\ leaving[n] \in {"gone", "off"} /\ touched' = TRUE)
         /\ stopped \subseteq stopped' \cup {n}
         /\ (store[n].net \/ stopped' = stopped)
         /\ \/ UNCHANGED <<priv, carrier>> /\ ~(store[n].net /\ leaving[n] \notin {"gone", "off"})
            \/ /\ store[n].net
               /\ \E bits \in Sees(n) :
                    /\ priv' = IF n \in bits THEN priv \cup {n} ELSE priv \ {n}
                    /\ carrier' = IF n \in bits THEN carrier \cup ({n} \cap up) ELSE carrier \ ({n} \cap up)
<1>1. CASE store[n].net /\ leaving[n] \notin {"gone", "off"}
  <2>1. touched' = touched
    BY <1>1, Zenon DEF StoreNet, Types
  <2>. QED
    BY <1>1, <2>1 DEF StoreNet, Types
<1>2. CASE ~(store[n].net /\ leaving[n] \notin {"gone", "off"})
  <2>1. touched' = touched \/ (store[n].net /\ leaving[n] \in {"gone", "off"} /\ touched' = TRUE)
    BY <1>2, Zenon DEF StoreNet, Types
  <2>. QED
    BY <1>2, <2>1 DEF StoreNet, Types
<1>. QED
  BY <1>1, <1>2

LEMMA StoresTypes ==
  ASSUME Types, NEW n \in Nets, Stores(n)
  PROVE  Types'
<1>0. /\ agg' \in [Nets -> Seq(Pk)] /\ held' \in [Nets -> Seq(Pk)] /\ tx' \in [Nets -> Xmit]
      /\ qdisc' \in Seq(Frame) /\ txq' \in Seq(Frame) /\ wire' \in Seq(Pk) /\ made' \in [Nets -> Nat]
      /\ UNCHANGED <<reg, up, datagrams, timer, work, leaving, freed, raced, tasklet, cm, budget>>
  BY DEF Types, Stores, StoreLoad, StoreWrite, StoreOn, StoreNet, StoreOff, StoreDrop, aggVars, sentVars, endVars
<1>1. store' \in [Nets -> Store]
  BY StoreDoes DEF Stores, StoreIs
<1>2. CASE StoreLoad(n) \/ StoreOff(n)
  BY <1>0, <1>1, <1>2 DEF StoreLoad, StoreOff, Types, endVars
<1>3. CASE StoreWrite(n)
  <2>1. link' \subseteq Nets /\ clash' \subseteq Clashes
    BY <1>3, StoreDoes
  <2>. QED
    BY <1>0, <1>1, <1>3, <2>1 DEF StoreWrite, Types, endVars
<1>4. CASE StoreOn(n) \/ StoreDrop(n)
  <2>1. real' \in Real
    BY <1>4, StoreDoes DEF Types
  <2>. QED
    BY <1>0, <1>1, <1>4, <2>1 DEF StoreOn, StoreDrop, Types, endVars
<1>5. CASE StoreNet(n)
  <2>1. priv' \subseteq Nets /\ carrier' \subseteq Nets /\ stopped' \subseteq Nets
    BY <1>5, StoreNetDoes
  <2>2. touched' = touched \/ touched' = TRUE
    BY <1>5, StoreNetDoes
  <2>3. touched' \in BOOLEAN
    BY <2>2, Zenon DEF Types
  <2>. QED
    BY <1>0, <1>1, <1>5, <2>1, <2>3 DEF StoreNet, Types
<1>. QED
  BY <1>2, <1>3, <1>4, <1>5 DEF Stores

LEMMA RestsTypes ==
  ASSUME Types, Rests
  PROVE  Types'
<1>0. /\ agg' \in [Nets -> Seq(Pk)] /\ held' \in [Nets -> Seq(Pk)] /\ tx' \in [Nets -> Xmit]
      /\ qdisc' \in Seq(Frame) /\ txq' \in Seq(Frame) /\ wire' \in Seq(Pk) /\ made' \in [Nets -> Nat]
  BY RestsKeep DEF Types
<1>1. ASSUME NEW n \in Nets, rmnet_usb_tx_agg_timer_cb(n) PROVE Types'
  <2>1. touched' \in {TRUE, touched}
    BY <1>1, Zenon DEF rmnet_usb_tx_agg_timer_cb
  <2>2. touched' \in BOOLEAN
    BY <2>1, Zenon DEF Types
  <2>. QED
    BY <1>0, <1>1, <2>2 DEF rmnet_usb_tx_agg_timer_cb, Types, devVars, linkVars
<1>2. ASSUME NEW n \in Nets, StartLink(n) \/ StopLink(n) PROVE Types'
  <2>1. PICK on \in BOOLEAN : link_state_store(n, on)
    BY <1>2 DEF StartLink, StopLink
  <2>2. store' \in [Nets -> Store] /\ clash' \subseteq Clashes /\ link' = link /\ priv' = priv
    BY <2>1, StoreDoes DEF StoreIs, link_state_store, Types, Clashes
  <2>3. cm' \in [Nets -> CmSteps]
    BY <1>2 DEF StartLink, StopLink, CmAt, Types, CmSteps, Connected
  <2>4. budget' \in Budget
    BY <1>2, BudgetSpent DEF StartLink, StopLink, Types
  <2>. QED
    BY <1>0, <1>2, <2>2, <2>3, <2>4 DEF StartLink, StopLink, Types, aggVars, endVars, linkVars
<1>3. ASSUME NEW n \in Nets, StartReal(n) PROVE Types'
  <2>1. real' \in Real
    BY <1>3 DEF StartReal, qmi_wwan_open, Types, Real
  <2>2. cm' \in [Nets -> CmSteps]
    BY <1>3 DEF StartReal, CmAt, Types, CmSteps, Connected
  <2>. QED
    BY <1>0, <1>3, <2>1, <2>2 DEF StartReal, Types, aggVars, endVars, linkVars
<1>4. ASSUME NEW n \in Nets, StartClose(n) \/ StopNet(n) PROVE Types'
  <2>1. cm' \in [Nets -> CmSteps]
    BY <1>4 DEF StartClose, StopNet, CmAt, Types, CmSteps, Connected
  <2>. QED
    BY <1>0, <1>4, <2>1 DEF StartClose, StopNet, qmap_stop, Types, aggVars, endVars, linkVars
<1>5. ASSUME NEW n \in Nets, StartOpen(n) PROVE Types'
  <2>1. cm' \in [Nets -> CmSteps]
    BY <1>5 DEF StartOpen, CmAt, Types, CmSteps, Connected
  <2>2. (real.carrier \/ n \in priv) \in BOOLEAN
    BY Zenon
  <2>3. real' \in Real
    BY <1>5, <2>2 DEF StartOpen, qmap_open, Types, Real
  <2>. QED
    BY <1>0, <1>5, <2>1, <2>3 DEF StartOpen, qmap_open, Types, aggVars, endVars, linkVars
<1>6. ASSUME NEW n \in Nets, StopRead(n) PROVE Types'
  <2>1. cm' \in [Nets -> CmSteps]
    BY <1>6 DEF StopRead, CmAt, Types, CmSteps, Connected
  <2>. QED
    BY <1>0, <1>6, <2>1 DEF StopRead, Types, devVars, linkVars, aggVars, endVars, linkVars
<1>7. ASSUME NEW n \in Nets, UnregSkip(n) \/ UnregStop(n) \/ UnregCancel(n) \/ UnregClose(n) PROVE Types'
  <2>1. leaving' \in [Nets -> Steps]
    BY <1>7 DEF UnregSkip, UnregStop, UnregCancel, UnregClose, Types, Steps
  <2>2. clash' \subseteq Clashes
    BY <1>7 DEF UnregSkip, UnregStop, UnregCancel, UnregClose, Types, Clashes, devVars, linkVars
  <2>. QED
    BY <1>0, <1>7, <2>1, <2>2
       DEF UnregSkip, UnregStop, UnregCancel, UnregClose, qmap_stop, Types, devVars, linkVars, aggVars
<1>8. ASSUME RealCheck \/ qmi_wwan_start_xmit PROVE Types'
  <2>1. real' \in Real
    BY <1>8 DEF RealCheck, qmi_wwan_start_xmit, Types, Real
  <2>. QED
    BY <1>0, <1>8, <2>1 DEF RealCheck, qmi_wwan_start_xmit, Types, aggVars, endVars, linkVars
<1>9. ASSUME Tasklet PROVE Types'
  <2>1. tasklet' \in BOOLEAN
    BY <1>9, Zenon DEF Tasklet
  <2>. QED
    BY <1>0, <1>9, <2>1 DEF Tasklet, qmap_wake_queue, Types, devVars, linkVars, aggVars, endVars, linkVars
<1>10. ASSUME QmapSettings PROVE Types'
  BY <1>0, <1>10 DEF QmapSettings, qma_setting_store, Types, aggVars, endVars, linkVars
<1>11. ASSUME qmi_wwan_suspend PROVE Types'
  <2>1. real' \in Real
    BY <1>11 DEF qmi_wwan_suspend, Types, Real
  <2>2. budget' \in Budget
    BY <1>11, BudgetSpent DEF qmi_wwan_suspend, Types
  <2>. QED
    BY <1>0, <1>11, <2>1, <2>2 DEF qmi_wwan_suspend, Types, aggVars, endVars, linkVars
<1>12. ASSUME qmi_wwan_resume PROVE Types'
  <2>1. (~real.up \/ Len(txq) >= TxQlen) \in BOOLEAN
    BY Zenon
  <2>2. real' \in Real
    BY <1>12, <2>1 DEF qmi_wwan_resume, Types, Real
  <2>. QED
    BY <1>0, <1>12, <2>2 DEF qmi_wwan_resume, qmap_wake_queue, Types, aggVars, endVars, linkVars
<1>13. ASSUME disconnect PROVE Types'
  <2>1. budget' \in Budget /\ leaving' \in [Nets -> Steps]
    BY <1>13, BudgetSpent DEF disconnect, Types, Steps
  <2>. QED
    BY <1>0, <1>13, <2>1 DEF disconnect, Types, aggVars, linkVars
<1>14. ASSUME NEW n \in Nets, Stores(n) PROVE Types'
  BY <1>14, StoresTypes
<1>. QED
  BY <1>1, <1>2, <1>3, <1>4, <1>5, <1>6, <1>7, <1>8, <1>9, <1>10, <1>11, <1>12, <1>13, <1>14
     DEF Rests, Starts

-----------------------------------------------------------------------------
(* Sizes and the steps of start_xmit *)

LEMMA FramesFit ==
  ASSUME NEW s \in Seq(Frame), \A i \in DOMAIN s : FrameOK(s[i])
  PROVE  /\ \A f \in Frame : FrameOK(f) => \A i \in DOMAIN Append(s, f) : FrameOK(Append(s, f)[i])
         /\ s # <<>> => FrameOK(Head(s)) /\ \A i \in DOMAIN Tail(s) : FrameOK(Tail(s)[i])
<1>1. ASSUME NEW f \in Frame, FrameOK(f), NEW i \in DOMAIN Append(s, f) PROVE FrameOK(Append(s, f)[i])
  <2>1. /\ Len(s) \in Nat /\ DOMAIN Append(s, f) = 1 .. Len(s) + 1 /\ DOMAIN s = 1 .. Len(s)
        /\ \A j \in 1 .. Len(s) + 1 : Append(s, f)[j] = IF j = Len(s) + 1 THEN f ELSE s[j]
    OBVIOUS
  <2>2. CASE i = Len(s) + 1
    BY <1>1, <2>1, <2>2
  <2>3. CASE i # Len(s) + 1
    <3>1. i \in DOMAIN s /\ Append(s, f)[i] = s[i]
      BY <2>1, <2>3
    <3>. QED
      BY <3>1
  <2>. QED
    BY <2>2, <2>3
<1>2. ASSUME s # <<>> PROVE FrameOK(Head(s)) /\ \A i \in DOMAIN Tail(s) : FrameOK(Tail(s)[i])
  <2>1. /\ Head(s) = s[1] /\ Len(s) \in Nat \ {0} /\ DOMAIN s = 1 .. Len(s)
        /\ DOMAIN Tail(s) = 1 .. Len(s) - 1
        /\ \A i \in 1 .. Len(s) - 1 : Tail(s)[i] = s[i + 1]
    BY <1>2
  <2>2. \A i \in 1 .. Len(s) - 1 : i + 1 \in DOMAIN s
    BY <2>1
  <2>3. 1 \in DOMAIN s
    BY <2>1
  <2>. QED
    BY <2>1, <2>2, <2>3
<1>. QED
  BY <1>1, <1>2

\* What a single device contributes to Sizes and Shape.
Form(n) ==
  /\ Len(agg[n]) < MaxDatagrams /\ Len(held[n]) < MaxDatagrams
  /\ Len(tx[n].out) <= MaxDatagrams /\ Len(tx[n].skb) <= 1
  /\ tx[n].pc # "xmit" => tx[n].out = <<>>
  /\ tx[n].pc \notin {"agg", "xmit"} => tx[n].skb = <<>>
  /\ tx[n].out # <<>> => agg[n] = <<>>
  /\ datagrams = 1 => agg[n] = <<>>
Forms == \A n \in Nets : Form(n)
QueuesFit ==
  (\A i \in DOMAIN qdisc : FrameOK(qdisc[i])) /\ (\A i \in DOMAIN txq : FrameOK(txq[i]))

LEMMA FormsAre == Sizes /\ Shape <=> Forms /\ QueuesFit
  BY DEF Sizes, Shape, Forms, Form, QueuesFit

\* It is enough to look at the device of the step.
LEMMA FormOfOne ==
  ASSUME Forms, NEW n \in Nets, Form(n)', datagrams' = datagrams,
         \A m \in Nets \ {n} : agg'[m] = agg[m] /\ held'[m] = held[m] /\ tx'[m] = tx[m]
  PROVE  Forms'
  BY DEF Forms, Form

LEMMA SeqFacts ==
  /\ Len(<<>>) = 0
  /\ \A s \in Seq(Pk) : Len(s) \in Nat /\ (s # <<>> => Len(s) > 0)
  /\ \A s, t \in Seq(Pk) : Len(s \o t) = Len(s) + Len(t)
  OBVIOUS

LEMMA TxForms ==
  ASSUME Types, Forms, NEW n \in Nets,
         (\E own \in BOOLEAN : rmnet_vnd_start_xmit(n, own)) \/ TxAlone(n) \/ TxXmit(n)
           \/ TxBusy(n) \/ TxArm(n) \/ TxAggFreed(n)
  PROVE  Forms'
<1>0. /\ agg' = agg /\ held' = held /\ datagrams' = datagrams
      /\ tx \in [Nets -> Xmit] /\ tx[n] \in Xmit /\ MaxDatagrams \in Nat \ {0, 1}
  BY QmapAssumption
     DEF Types, rmnet_vnd_start_xmit, TxAlone, TxXmit, TxBusy, TxArm, TxAggFreed, devVars, linkVars, aggVars
<1>1. Form(n)
  BY DEF Forms
<1>2. tx[n].skb \in Seq(Pk) /\ tx[n].out \in Seq(Pk)
  BY <1>0 DEF Xmit
<1> SUFFICES Form(n)' /\ \A m \in Nets \ {n} : tx'[m] = tx[m]
  BY <1>0, FormOfOne
<1>3. ASSUME NEW own \in BOOLEAN, rmnet_vnd_start_xmit(n, own)
      PROVE  Form(n)' /\ \A m \in Nets \ {n} : tx'[m] = tx[m]
  <2>1. At(n, "idle")
    BY <1>3 DEF rmnet_vnd_start_xmit
  <2>2. PICK s \in {tx[n].skb, << <<n, made[n] + 1>> >>}, o \in {tx[n].out, <<>>}, p \in {"busy", "agg"} :
          Becomes(n, p, s, o) /\ (p = "agg" \/ s = tx[n].skb)
    BY <1>3, StartDoes
  <2>3. Len(s) <= 1 /\ o = <<>> /\ (p = "agg" \/ s = <<>>)
    <3>1. Len(<< <<n, made[n] + 1>> >>) = 1
      OBVIOUS
    <3>2. tx[n].skb = <<>> /\ tx[n].out = <<>> /\ Len(<<>>) = 0
      BY <1>1, <2>1 DEF At, Form
    <3>3. CASE s = tx[n].skb
      BY <2>2, <3>2, <3>3
    <3>4. CASE s = << <<n, made[n] + 1>> >>
      <4>1. Len(s) = 1
        BY <3>1, <3>4, Zenon
      <4>2. p = "agg" \/ s = <<>>
        BY <2>2, <3>2
      <4>. QED
        BY <2>2, <3>2, <4>1, <4>2
    <3>. QED
      BY <2>2, <3>3, <3>4
  <2>. QED
    BY <1>0, <1>1, <2>2, <2>3, SeqFacts DEF Form, Becomes
<1>4. ASSUME TxAlone(n) PROVE Form(n)' /\ \A m \in Nets \ {n} : tx'[m] = tx[m]
  <2>1. datagrams = 1
    BY <1>4 DEF TxAlone
  <2>. QED
    BY <1>0, <1>1, <1>2, <1>4, <2>1, TxDoes, SeqFacts DEF Form, Becomes
<1>5. ASSUME TxBusy(n) \/ TxArm(n) \/ TxAggFreed(n) PROVE Form(n)' /\ \A m \in Nets \ {n} : tx'[m] = tx[m]
  BY <1>0, <1>1, <1>2, <1>5, TxDoes, SeqFacts DEF Form, Becomes
<1>6. ASSUME TxXmit(n) PROVE Form(n)' /\ \A m \in Nets \ {n} : tx'[m] = tx[m]
  BY <1>0, <1>1, <1>2, <1>6, TxDoes, SeqFacts DEF Form, Becomes
<1>. QED
  BY <1>3, <1>4, <1>5, <1>6

LEMMA TxAggForms ==
  ASSUME Types, Forms, NEW n \in Nets, NEW fits \in BOOLEAN, NEW now \in BOOLEAN, TxAgg(n, fits, now)
  PROVE  Forms'
<1>0. /\ held' = held /\ datagrams' = datagrams /\ datagrams # 1 /\ tx[n].pc = "agg"
      /\ agg \in [Nets -> Seq(Pk)] /\ tx[n] \in Xmit /\ MaxDatagrams \in Nat \ {0, 1}
  BY QmapAssumption DEF Types, TxAgg, devVars, linkVars, At
<1>1. Form(n)
  BY DEF Forms
<1>2. tx[n].skb \in Seq(Pk) /\ agg[n] \in Seq(Pk)
  BY <1>0 DEF Xmit
<1>3. PICK a \in Seq(Pk), o \in Seq(Pk), s \in Seq(Pk) :
           /\ agg' = [agg EXCEPT ![n] = a] /\ Becomes(n, "xmit", s, o)
           /\ Pass(agg[n], tx[n].skb, a, o, s)
  BY TxAggDoes
<1>4. agg'[n] = a /\ \A m \in Nets \ {n} : agg'[m] = agg[m]
  BY <1>0, <1>3
<1>5. Len(a) < MaxDatagrams /\ Len(o) <= MaxDatagrams /\ Len(s) <= 1 /\ (o # <<>> => a = <<>>)
  <2>1. /\ Len(agg[n]) < MaxDatagrams /\ Len(tx[n].skb) <= 1 /\ Len(agg[n]) \in Nat
        /\ Len(tx[n].skb) \in Nat /\ Len(<<>>) = 0 /\ (agg[n] = <<>> => Len(agg[n]) = 0)
        /\ Len(agg[n] \o tx[n].skb) = Len(agg[n]) + Len(tx[n].skb)
    BY <1>1, <1>2, SeqFacts DEF Form
  <2>2. Len(agg[n]) + 1 # MaxDatagrams => Len(agg[n]) + Len(tx[n].skb) < MaxDatagrams
    BY <1>0, <2>1
  <2>3. Len(agg[n]) + Len(tx[n].skb) <= MaxDatagrams /\ 1 < MaxDatagrams
    BY <1>0, <2>1
  <2> DEFINE buf == agg[n]
             skb == tx[n].skb
             both == buf \o skb
  <2>4. Pass(buf, skb, a, o, s)
    BY <1>3
  <2>5. \/ a = <<>> /\ o = buf /\ s = skb
        \/ a = <<>> /\ o = both /\ s = <<>>
        \/ a = <<>> /\ o = skb /\ s = <<>>
        \/ a = both /\ o = <<>> /\ s = <<>> /\ (buf = <<>> \/ Len(buf) + 1 # MaxDatagrams)
    BY <2>4, Zenon DEF Pass
  <2>6. /\ Len(buf) < MaxDatagrams /\ Len(skb) <= 1 /\ Len(both) <= MaxDatagrams
        /\ (buf = <<>> \/ Len(buf) + 1 # MaxDatagrams => Len(both) < MaxDatagrams)
    BY <1>0, <2>1, <2>2, <2>3
  <2> HIDE DEF buf, skb, both
  <2>. QED
    BY <1>0, <2>1, <2>3, <2>5, <2>6
<1>6. Form(n)'
  BY <1>0, <1>1, <1>3, <1>4, <1>5 DEF Form, Becomes
<1>. QED
  BY <1>0, <1>3, <1>4, <1>6, FormOfOne DEF Becomes

LEMMA FormsKept ==
  ASSUME Types, Forms, QmapNext
  PROVE  Forms'
<1>1. ASSUME NEW n \in Nets, rmnet_usb_tx_agg_work(n) \/ WorkXmit(n) \/ UnregFree(n) PROVE Forms'
  <2>0. /\ tx' = tx /\ datagrams' = datagrams /\ MaxDatagrams \in Nat \ {0, 1} /\ Form(n)
        /\ agg \in [Nets -> Seq(Pk)] /\ held \in [Nets -> Seq(Pk)]
    BY <1>1, QmapAssumption DEF rmnet_usb_tx_agg_work, WorkXmit, UnregFree, devVars, linkVars, Forms, Types
  <2>1. /\ agg'[n] \in {agg[n], <<>>} /\ held'[n] \in {agg[n], held[n], <<>>}
        /\ \A m \in Nets \ {n} : agg'[m] = agg[m] /\ held'[m] = held[m]
    BY <1>1, <2>0 DEF rmnet_usb_tx_agg_work, WorkXmit, UnregFree
  <2>2. Form(n)'
    BY <2>0, <2>1, SeqFacts DEF Form
  <2>. QED
    BY <2>0, <2>1, <2>2, FormOfOne
<1>2. ASSUME NEW n \in Nets, StopReal(n) PROVE Forms'
  BY <1>2 DEF StopReal, aggVars, Forms, Form
<1>3. ASSUME RealXmit \/ Complete \/ usbnet_disconnect PROVE Forms'
  BY <1>3 DEF RealXmit, Complete, usbnet_disconnect, aggVars, Forms, Form
<1>4. ASSUME Rests PROVE Forms'
  <2>1. agg' = agg /\ held' = held /\ tx' = tx
    BY <1>4, RestsKeep
  <2>2. datagrams' = datagrams \/ datagrams' # 1
    BY <1>4, QmapAssumption
       DEF Rests, rmnet_usb_tx_agg_timer_cb, Starts, StartLink, StartReal, StartClose, StartOpen, StopLink,
           StopRead, StopNet, UnregSkip, UnregStop, UnregCancel, UnregClose, RealCheck, qmi_wwan_start_xmit,
           Tasklet, QmapSettings, qmi_wwan_suspend, qmi_wwan_resume, disconnect, devVars, linkVars,
           qma_setting_store, Stores, StoreLoad, StoreWrite, StoreOn, StoreNet, StoreOff, StoreDrop
  <2>. QED
    BY <2>1, <2>2 DEF Forms, Form
<1>. QED
  BY <1>1, <1>2, <1>3, <1>4, TxForms, TxAggForms, NextCases DEF Moves

LEMMA EnqueueFits ==
  ASSUME Types, QueuesFit, NEW f \in Frame, FrameOK(f), Enqueue(f), txq' = txq
  PROVE  QueuesFit'
<1>1. qdisc' = qdisc \/ qdisc' = Append(qdisc, f)
  BY DEF Enqueue
<1>2. qdisc \in Seq(Frame)
  BY DEF Types
<1>. QED
  BY <1>1, <1>2, FramesFit DEF QueuesFit

LEMMA QueuesFitKept ==
  ASSUME Types, Forms, QueuesFit, QmapNext
  PROVE  QueuesFit'
<1>0. /\ qdisc \in Seq(Frame) /\ txq \in Seq(Frame) /\ tx \in [Nets -> Xmit]
      /\ held \in [Nets -> Seq(Pk)] /\ MaxDatagrams \in Nat \ {0, 1}
  BY QmapAssumption DEF Types
<1>1. ASSUME NEW n \in Nets, TxXmit(n) PROVE QueuesFit'
  <2>1. CASE tx[n].out = <<>>
    BY <1>1, <2>1 DEF TxXmit, QueuesFit
  <2>2. CASE tx[n].out # <<>>
    <3> DEFINE f == [pkts |-> tx[n].out, hook |-> tx[n].hook]
    <3>1. tx[n].out \in Seq(Pk) /\ f \in Frame
      BY <1>0 DEF Xmit, Frame
    <3>2. Len(tx[n].out) \in 1 .. MaxDatagrams
      BY <1>0, <2>2, <3>1, SeqFacts DEF Forms, Form
    <3>3. FrameOK(f)
      BY <3>2 DEF FrameOK
    <3>4. Enqueue(f) /\ txq' = txq
      BY <1>1, <2>2 DEF TxXmit
    <3> HIDE DEF f
    <3>. QED
      BY <3>1, <3>3, <3>4, EnqueueFits
  <2>. QED
    BY <2>1, <2>2
<1>2. ASSUME NEW n \in Nets, WorkXmit(n) PROVE QueuesFit'
  <2> DEFINE f == [pkts |-> held[n], hook |-> FALSE]
  <2>0. FALSE \in BOOLEAN
    BY Zenon
  <2>1. held[n] \in Seq(Pk) /\ f \in Frame
    BY <1>0, <2>0 DEF Frame
  <2>2. Len(held[n]) \in 1 .. MaxDatagrams
    BY <1>0, <1>2, <2>1, SeqFacts DEF Forms, Form, WorkXmit
  <2>3. FrameOK(f)
    BY <2>2 DEF FrameOK
  <2>4. Enqueue(f) /\ txq' = txq
    BY <1>2 DEF WorkXmit
  <2> HIDE DEF f
  <2>. QED
    BY <2>1, <2>3, <2>4, EnqueueFits
<1>3. ASSUME RealXmit PROVE QueuesFit'
  <2>1. qdisc # <<>> /\ txq' = Append(txq, Head(qdisc)) /\ qdisc' = Tail(qdisc)
    BY <1>3 DEF RealXmit
  <2>2. Head(qdisc) \in Frame /\ FrameOK(Head(qdisc)) /\ \A i \in DOMAIN Tail(qdisc) : FrameOK(Tail(qdisc)[i])
    BY <1>0, <2>1, FramesFit, QueueFacts DEF QueuesFit
  <2>3. \A i \in DOMAIN Append(txq, Head(qdisc)) : FrameOK(Append(txq, Head(qdisc))[i])
    BY <1>0, <2>2, FramesFit DEF QueuesFit
  <2>. QED
    BY <2>1, <2>2, <2>3 DEF QueuesFit
<1>4. ASSUME Complete PROVE QueuesFit'
  BY <1>0, <1>4, FramesFit DEF Complete, QueuesFit
<1>5. ASSUME usbnet_disconnect \/ \E n \in Nets : StopReal(n) PROVE QueuesFit'
  BY <1>5 DEF StopReal, usbnet_disconnect, QueuesFit
<1>6. ASSUME NEW n \in Nets,
             (\E own \in BOOLEAN : rmnet_vnd_start_xmit(n, own)) \/ TxAlone(n) \/ TxBusy(n) \/ TxArm(n)
               \/ TxAggFreed(n) \/ (\E fits, now \in BOOLEAN : TxAgg(n, fits, now))
               \/ rmnet_usb_tx_agg_work(n) \/ UnregFree(n)
      PROVE  QueuesFit'
  BY <1>6 DEF rmnet_vnd_start_xmit, TxAlone, TxBusy, TxArm, TxAggFreed, TxAgg, rmnet_usb_tx_agg_work,
              UnregFree, sentVars, QueuesFit
<1>7. ASSUME Rests PROVE QueuesFit'
  BY <1>7, RestsKeep DEF QueuesFit
<1>. QED
  BY <1>1, <1>2, <1>3, <1>4, <1>5, <1>6, <1>7, NextCases DEF Moves

-----------------------------------------------------------------------------
(* The budget, disconnect and the carriers *)

\* Who counts packets, spends the budget and moves disconnect on.
LEMMA WhoChanges ==
  ASSUME QmapNext
  PROVE  /\ made' = made \/ \E n \in Nets, own \in BOOLEAN : rmnet_vnd_start_xmit(n, own)
         /\ budget' = budget \/ disconnect \/ qmi_wwan_suspend \/ \E n \in Nets : StopLink(n)
         /\ leaving' = leaving \/ disconnect \/ usbnet_disconnect \/ \E n \in Nets : Unregisters(n)
<1>1. ASSUME NEW n \in Nets, Xmits(n) PROVE UNCHANGED <<made, budget, leaving>>
  BY <1>1 DEF Xmits, TxBusy, TxAlone, TxAggFreed, TxXmit, TxArm, TxAgg, endVars
<1>2. ASSUME NEW n \in Nets, Flushes(n) PROVE UNCHANGED <<made, budget, leaving>>
  BY <1>2 DEF Flushes, rmnet_usb_tx_agg_timer_cb, rmnet_usb_tx_agg_work, WorkXmit, endVars
<1>3. ASSUME NEW n \in Nets, Starts(n) \/ Stops(n) PROVE UNCHANGED <<made, budget, leaving>>
  BY <1>3 DEF Starts, StartLink, StartReal, StartClose, StartOpen, Stops, StopRead, StopReal, StopNet, endVars
<1>4. ASSUME NEW n \in Nets, StopLink(n) PROVE UNCHANGED <<made, leaving>>
  BY <1>4 DEF StopLink, endVars
<1>5. ASSUME NEW n \in Nets, Unregisters(n) PROVE UNCHANGED <<made, budget>>
  BY <1>5 DEF Unregisters, UnregSkip, UnregStop, UnregCancel, UnregFree, UnregClose
<1>6. ASSUME RealSteps \/ Tasklet \/ QmapSettings \/ qmi_wwan_resume PROVE UNCHANGED <<made, budget, leaving>>
  BY <1>6 DEF RealSteps, RealXmit, RealCheck, qmi_wwan_start_xmit, Complete, Tasklet, QmapSettings,
              qmi_wwan_resume, endVars
<1>11. ASSUME NEW n \in Nets, Stores(n) PROVE UNCHANGED <<made, budget, leaving>>
  BY <1>11 DEF Stores, StoreLoad, StoreWrite, StoreOn, StoreNet, StoreOff, StoreDrop, endVars
<1>7. qmi_wwan_suspend => UNCHANGED <<made, leaving>>
  BY DEF qmi_wwan_suspend, endVars
<1>8. disconnect \/ usbnet_disconnect => UNCHANGED made
  BY DEF disconnect, usbnet_disconnect
<1>9. usbnet_disconnect => UNCHANGED budget
  BY DEF usbnet_disconnect
<1>10. ASSUME NEW n \in Nets, NEW own \in BOOLEAN, rmnet_vnd_start_xmit(n, own) PROVE UNCHANGED <<budget, leaving>>
  BY <1>10 DEF rmnet_vnd_start_xmit, endVars
<1>. QED
  BY <1>1, <1>2, <1>3, <1>4, <1>5, <1>6, <1>7, <1>8, <1>9, <1>10, <1>11 DEF QmapNext

LEMMA BudgetKept ==
  ASSUME Types, WithinBudget, QmapNext
  PROVE  WithinBudget'
<1>1. budget'.pkts = budget.pkts
  <2>1. ASSUME disconnect \/ qmi_wwan_suspend \/ \E n \in Nets : StopLink(n) PROVE budget'.pkts = budget.pkts
    BY <2>1, BudgetSpent DEF disconnect, qmi_wwan_suspend, StopLink, Types
  <2>. QED
    BY <2>1, WhoChanges
<1>2. ASSUME NEW n \in Nets, NEW own \in BOOLEAN, rmnet_vnd_start_xmit(n, own) PROVE WithinBudget'
  <2>1. made[n] < budget.pkts[n] /\ (made' = made \/ made' = [made EXCEPT ![n] = made[n] + 1])
    BY <1>2 DEF rmnet_vnd_start_xmit
  <2>2. made \in [Nets -> Nat] /\ budget.pkts \in [Nets -> Nat]
    BY DEF Types, Budget, Quotas
  <2>. QED
    BY <1>1, <2>1, <2>2 DEF WithinBudget
<1>. QED
  BY <1>1, <1>2, WhoChanges DEF WithinBudget

\* Once disconnect has begun it is not undone.
LEMMA PresentBefore ==
  ASSUME Types, QmapNext, Present'
  PROVE  /\ Present /\ leaving' = leaving
         /\ ~disconnect /\ ~usbnet_disconnect /\ \A n \in Nets : ~Unregisters(n)
<1>1. PICK n \in Nets : TRUE
  BY QmapAssumption
<1>2. \A m \in Nets : leaving'[m] = "no"
  BY DEF Present
<1>3. ~disconnect /\ ~usbnet_disconnect
  BY <1>1, <1>2 DEF disconnect, usbnet_disconnect
<1>4. ASSUME NEW m \in Nets, Unregisters(m) PROVE FALSE
  BY <1>2, <1>4 DEF Unregisters, UnregSkip, UnregStop, UnregCancel, UnregFree, UnregClose, Types
<1>5. leaving' = leaving
  BY <1>3, <1>4, WhoChanges
<1>. QED
  BY <1>3, <1>4, <1>5 DEF Present

\* The steps of a call.
LEMMA StoresFollow ==
  ASSUME Types, Ends, Present, Present', Follows, NEW n \in Nets, Stores(n)
  PROVE  Follows'
<1>1. /\ up \subseteq reg /\ carrier = up \cap priv /\ cm[n] = IF store[n].on THEN "real_up" ELSE "read"
      /\ \A m \in Storing : cm[m] = IF store[m].on THEN "real_up" ELSE "read"
      /\ \A m \in up : cm[m] \in Opened
      /\ "lost" \notin clash => (\A m \in Nets : Bits(m)) /\ ("late" \notin clash => RealTracks)
  BY DEF Follows, Stores, StoreLoad, StoreWrite, StoreOn, StoreNet, StoreOff, StoreDrop, StoreAt, Storing
<1>2. /\ UNCHANGED <<reg, up, cm>> /\ clash \subseteq clash'
      /\ store[n].pc # "idle"
  BY DEF Stores, StoreLoad, StoreWrite, StoreOn, StoreNet, StoreOff, StoreDrop, StoreAt
<1>3. /\ link \subseteq Nets /\ priv \subseteq Nets /\ up \subseteq Nets /\ real \in Real
      /\ store \in [Nets -> Store] /\ leaving[n] = "no" /\ store[n].on \in BOOLEAN
  BY DEF Types, Present, Store
<1>4. (store[n].on => n \notin up) /\ (Connects(n) <=> store[n].on)
  BY <1>1, <1>3, Zenon DEF Opened, Connects, Connected
<1>5. store[n].net => n \in reg
  BY <1>3 DEF Ends, EndOf
<1>6. \A m \in Nets \ {n} : store'[m] = store[m]
  BY StoreDoes DEF Stores, StoreIs
<1>7. /\ store'[n].pc # "idle" => store'[n].on = store[n].on
      /\ store' \in [Nets -> Store]
  BY StoreDoes DEF Stores, StoreIs
<1>8. \A m \in Storing' : m \in Storing /\ cm'[m] = IF store'[m].on THEN "real_up" ELSE "read"
  BY <1>1, <1>2, <1>6, <1>7 DEF Storing, StoreAt
<1>9. (\A m \in up' : cm'[m] \in Opened) /\ up' \subseteq reg'
  BY <1>1, <1>2
<1>10. carrier' = up' \cap priv'
  <2>1. CASE StoreNet(n)
    <3>1. \/ UNCHANGED <<priv, carrier>>
          \/ \E bits \in Sees(n) :
                /\ priv' = IF n \in bits THEN priv \cup {n} ELSE priv \ {n}
                /\ carrier' = IF n \in bits THEN carrier \cup ({n} \cap up) ELSE carrier \ ({n} \cap up)
      BY <2>1, StoreNetDoes
    <3>. QED
      BY <1>1, <1>2, <3>1
  <2>2. CASE ~StoreNet(n)
    BY <1>1, <1>2, <2>2 DEF Stores, StoreLoad, StoreWrite, StoreOn, StoreOff, StoreDrop
  <2>. QED
    BY <2>1, <2>2
<1>11. ASSUME "lost" \notin clash' PROVE \A m \in Nets : Bits(m)'
  <2>0. \A m \in Nets : Bits(m)
    BY <1>1, <1>2, <1>11
  <2>1. CASE StoreLoad(n)
    <3>1. UNCHANGED <<link, priv, reg, cm>> /\ store[n].pc = "load"
      BY <2>1 DEF StoreLoad, StoreAt
    <3>2. StoreIs(n, "write", store[n].on, store[n].old, link, store[n].net)
      BY <2>1, StoreDoes
    <3>. QED
      BY <1>4, <2>0, <3>1, <3>2 DEF Bits, Connects, StoreIs
  <2>2. CASE StoreWrite(n)
    <3>1. /\ UNCHANGED <<priv, reg, cm>> /\ store[n].pc = "write" /\ store[n].val = link
          /\ link' = IF store[n].on THEN link \cup {n} ELSE link \ {n}
      BY <1>11, <2>2 DEF StoreWrite, StoreAt
    <3>2. StoreIs(n, "on", store[n].on, store[n].old, link', store[n].net)
      BY <2>2, StoreDoes
    <3>3. Bits(n)'
      BY <1>4, <2>0, <3>1, <3>2 DEF Bits, Connects, StoreIs
    <3>4. \A m \in Nets \ {n} : Bits(m)'
      BY <2>0, <3>1, <3>2 DEF Bits, Connects, StoreIs
    <3>. QED
      BY <3>3, <3>4
  <2>3. CASE StoreOn(n)
    <3>1. UNCHANGED <<link, priv, reg, cm>> /\ store[n].pc = "on"
      BY <2>3 DEF StoreOn, StoreAt
    <3>2. store[n].old \notin Sees(n)
      BY <1>4, <2>0, <3>1 DEF Bits, Sees
    <3>3. StoreIs(n, "net", store[n].on, store[n].old, store[n].val, n \in reg)
      BY <2>3, <3>2, StoreDoes
    <3>4. Bits(n)'
      BY <1>4, <2>0, <3>1, <3>3 DEF Bits, Connects, StoreIs
    <3>5. \A m \in Nets \ {n} : Bits(m)'
      BY <2>0, <3>1, <3>3 DEF Bits, Connects, StoreIs
    <3>. QED
      BY <3>4, <3>5
  <2>4. CASE StoreNet(n)
    <3>1. UNCHANGED <<link, reg, cm>> /\ store[n].pc = "net"
      BY <2>4 DEF StoreNet, StoreAt
    <3>2. StoreIs(n, "off", store[n].on, store[n].old, store[n].val, FALSE)
      BY <2>4, StoreDoes
    <3>3. \A bits \in Sees(n) : n \in bits <=> store[n].on
      BY <1>4, <2>0, <3>1 DEF Bits, Sees
    <3>4. (\A m \in Nets \ {n} : m \in priv' <=> m \in priv) /\ (n \in reg => (n \in priv' <=> store[n].on))
      <4>1. store[n].net <=> n \in reg
        BY <2>0, <3>1 DEF Bits
      <4>2. CASE n \in reg
        <5>1. PICK bits \in Sees(n) : priv' = IF n \in bits THEN priv \cup {n} ELSE priv \ {n}
          BY <1>3, <2>4, <4>1, <4>2, StoreNetDoes
        <5>. QED
          BY <3>3, <5>1
      <4>3. CASE n \notin reg
        BY <2>4, <4>1, <4>3, StoreNetDoes
      <4>. QED
        BY <4>2, <4>3
    <3>5. Bits(n)'
      BY <1>4, <2>0, <3>1, <3>2, <3>4 DEF Bits, Connects, StoreIs
    <3>6. \A m \in Nets \ {n} : Bits(m)'
      BY <2>0, <3>1, <3>2, <3>4 DEF Bits, Connects, StoreIs
    <3>. QED
      BY <3>5, <3>6
  <2>5. CASE StoreOff(n) \/ StoreDrop(n)
    <3>1. UNCHANGED <<link, priv, reg, cm>> /\ store[n].pc \in {"off", "drop"}
      BY <2>5 DEF StoreOff, StoreDrop, StoreAt
    <3>2. store'[n].pc \in {"idle", "drop"}
      BY <2>5, StoreDoes DEF StoreIs
    <3>3. Bits(n)'
      BY <1>4, <2>0, <3>1, <3>2 DEF Bits, Connects
    <3>4. \A m \in Nets \ {n} : Bits(m)'
      BY <1>6, <2>0, <3>1 DEF Bits, Connects
    <3>. QED
      BY <3>3, <3>4
  <2>. QED
    BY <2>1, <2>2, <2>3, <2>4, <2>5 DEF Stores
<1>12. ASSUME "lost" \notin clash', "late" \notin clash' PROVE RealTracks'
  <2>0. RealTracks /\ \A m \in Nets : Bits(m)
    BY <1>1, <1>2, <1>12
  <2>1. CASE StoreLoad(n)
    <3>1. UNCHANGED <<link, carrier, real>>
      BY <2>1 DEF StoreLoad
    <3>2. store'[n].pc = "write"
      BY <2>1, StoreDoes DEF StoreIs
    <3>. QED
      BY <1>6, <2>0, <3>1, <3>2 DEF RealTracks
  <2>2. CASE StoreWrite(n)
    <3>1. /\ UNCHANGED <<carrier, real>> /\ store[n].pc = "write" /\ store[n].val = link
          /\ link' = IF store[n].on THEN link \cup {n} ELSE link \ {n}
          /\ store[n].on => Clearing = {}
      BY <1>12, <2>2 DEF StoreWrite, StoreAt
    <3>2. StoreIs(n, "on", store[n].on, store[n].old, link', store[n].net)
      BY <2>2, StoreDoes
    <3>3. carrier' \cap link' = {} \/ real'.carrier
      BY <1>1, <1>4, <2>0, <3>1 DEF RealTracks
    <3>4. store'[n].val = link' /\ store'[n].pc = "on"
      BY <3>2 DEF StoreIs
    <3>5. ASSUME NEW m \in Nets \ {n}
          PROVE  /\ store'[m].pc \in {"on", "net", "off"} /\ ~store'[m].on => link' \subseteq store'[m].val
                 /\ store'[m].pc = "drop" => link' = {} /\ ~store'[m].on
      <4>0. /\ store'[m] = store[m]
            /\ store[m].pc \in {"on", "net", "off"} /\ ~store[m].on => link \subseteq store[m].val
            /\ store[m].pc = "drop" => link = {} /\ ~store[m].on
        BY <1>6, <2>0 DEF RealTracks
      <4>1. CASE store[n].on
        BY <3>1, <4>0, <4>1 DEF Clearing
      <4>2. CASE ~store[n].on
        BY <3>1, <4>0, <4>2
      <4>. QED
        BY <4>1, <4>2
    <3>. QED
      BY <3>3, <3>4, <3>5 DEF RealTracks
  <2>3. CASE StoreOn(n)
    <3>1. UNCHANGED <<link, carrier>> /\ (real.carrier => real'.carrier) /\ store[n].pc = "on"
      BY <2>3, StoreDoes DEF StoreOn, StoreAt
    <3>2. /\ store'[n].pc \in {"idle", "net"}
          /\ store'[n].pc # "idle" => store'[n].val = store[n].val /\ store'[n].on = store[n].on
      BY <2>3, StoreDoes DEF StoreIs
    <3>. QED
      BY <1>6, <2>0, <3>1, <3>2 DEF RealTracks
  <2>4. CASE StoreNet(n)
    <3>1. UNCHANGED <<link, real>> /\ store[n].pc = "net"
      BY <2>4 DEF StoreNet, StoreAt
    <3>2. store'[n].pc = "off" /\ store'[n].val = store[n].val /\ store'[n].on = store[n].on
      BY <2>4, StoreDoes DEF StoreIs
    <3>3. \A bits \in Sees(n) : n \in bits <=> store[n].on
      BY <1>4, <2>0, <3>1 DEF Bits, Sees
    <3>4. \/ carrier' = carrier
          \/ \E bits \in Sees(n) :
                carrier' = IF n \in bits THEN carrier \cup ({n} \cap up) ELSE carrier \ ({n} \cap up)
      BY <2>4, StoreNetDoes
    <3>5. carrier' \subseteq carrier
      BY <1>4, <3>3, <3>4
    <3>6. carrier' \cap link' = {} \/ real'.carrier
      BY <2>0, <3>1, <3>5 DEF RealTracks
    <3>. QED
      BY <1>6, <2>0, <3>1, <3>2, <3>6 DEF RealTracks
  <2>5. CASE StoreOff(n)
    <3>1. UNCHANGED <<link, carrier, real>> /\ store[n].pc = "off"
      BY <2>5 DEF StoreOff, StoreAt
    <3>2. store'[n].pc = "idle" \/ (store'[n].pc = "drop" /\ {} \in Sees(n))
      BY <2>5, StoreDoes DEF StoreIs
    <3>3. store'[n].pc = "drop" => link' = {} /\ ~store'[n].on
      <4>1. SUFFICES ASSUME store'[n].pc = "drop" PROVE link' = {} /\ ~store'[n].on
        OBVIOUS
      <4>2. ~store[n].on
        BY <1>4, <2>0, <3>1, <3>2, <4>1 DEF Bits, Sees
      <4>3. link \subseteq store[n].val
        BY <2>0, <3>1, <4>2 DEF RealTracks
      <4>. QED
        BY <1>7, <3>1, <3>2, <4>1, <4>2, <4>3 DEF Sees
    <3>4. store'[n].pc \notin {"on", "net", "off"}
      BY <3>2
    <3>. QED
      BY <1>6, <2>0, <3>1, <3>3, <3>4 DEF RealTracks
  <2>6. CASE StoreDrop(n)
    <3>1. UNCHANGED <<link, carrier>> /\ store[n].pc = "drop"
      BY <2>6 DEF StoreDrop, StoreAt
    <3>2. store'[n].pc = "idle"
      BY <2>6, StoreDoes DEF StoreIs
    <3>3. carrier' \cap link' = {}
      BY <2>0, <3>1 DEF RealTracks
    <3>. QED
      BY <1>6, <2>0, <3>1, <3>2, <3>3 DEF RealTracks
  <2>. QED
    BY <2>1, <2>2, <2>3, <2>4, <2>5, <2>6 DEF Stores
<1>. QED
  BY <1>8, <1>9, <1>10, <1>11, <1>12 DEF Follows

\* A step of quectel-CM that leaves the calls and the bits alone.
LEMMA CmFollows ==
  ASSUME Types, Present, Follows, NEW n \in Nets, NEW to, cm' = [cm EXCEPT ![n] = to],
         store[n].pc = "idle", UNCHANGED <<reg, linkVars>>, to \in Connected <=> cm[n] \in Connected,
         real'.carrier = real.carrier \/ real'.carrier = TRUE,
         \/ up' = up /\ carrier' = carrier /\ (n \in up => to \in Opened)
         \/ up' = up \ {n} /\ carrier' = carrier \ {n}
         \/ /\ n \in reg /\ up' = up \cup {n} /\ carrier' = carrier \cup ({n} \cap priv)
            /\ (n \in priv => real'.carrier) /\ to \in Opened
  PROVE  Follows'
<1>1. /\ up \subseteq reg /\ carrier = up \cap priv
      /\ \A m \in Storing : cm[m] = IF store[m].on THEN "real_up" ELSE "read"
      /\ \A m \in up : cm[m] \in Opened
      /\ "lost" \notin clash => (\A m \in Nets : Bits(m)) /\ ("late" \notin clash => RealTracks)
  BY DEF Follows
<1>2. UNCHANGED <<reg, link, priv, store, clash>>
  BY DEF linkVars
<1>3. cm \in [Nets -> CmSteps] /\ up \subseteq Nets /\ Storing \subseteq Nets
  BY DEF Types, Storing
<1>4. \A m \in Nets : cm'[m] = IF m = n THEN to ELSE cm[m]
  BY <1>3
<1>5. up' \subseteq reg' /\ carrier' = up' \cap priv'
  BY <1>1, <1>2
<1>6. \A m \in Storing' : cm'[m] = IF store'[m].on THEN "real_up" ELSE "read"
  BY <1>1, <1>2, <1>3, <1>4 DEF Storing, StoreAt
<1>7. \A m \in up' : cm'[m] \in Opened
  BY <1>1, <1>3, <1>4
<1>8. ASSUME "lost" \notin clash' PROVE \A m \in Nets : Bits(m)'
  <2>1. \A m \in Nets : Bits(m) /\ (Connects(m)' <=> Connects(m))
    BY <1>1, <1>2, <1>4, <1>8 DEF Connects
  <2>. QED
    BY <1>2, <2>1 DEF Bits
<1>9. ASSUME "lost" \notin clash', "late" \notin clash' PROVE RealTracks'
  <2>1. RealTracks
    BY <1>1, <1>2, <1>9
  <2>2. carrier' \cap link' = {} \/ real'.carrier
    BY <1>1, <1>2, <2>1 DEF RealTracks
  <2>. QED
    BY <1>2, <2>1, <2>2 DEF RealTracks
<1>. QED
  BY <1>5, <1>6, <1>7, <1>8, <1>9 DEF Follows

\* quectel-CM calls link_state_store().
LEMMA CallFollows ==
  ASSUME Types, Present, Follows, NEW n \in Nets, StartLink(n) \/ StopLink(n)
  PROVE  Follows'
<1>1. /\ up \subseteq reg /\ carrier = up \cap priv
      /\ \A m \in Storing : cm[m] = IF store[m].on THEN "real_up" ELSE "read"
      /\ \A m \in up : cm[m] \in Opened
      /\ "lost" \notin clash => (\A m \in Nets : Bits(m)) /\ ("late" \notin clash => RealTracks)
  BY DEF Follows
<1>2. PICK on \in BOOLEAN :
        /\ link_state_store(n, on) /\ cm[n] = (IF on THEN "down" ELSE "up")
        /\ cm' = [cm EXCEPT ![n] = IF on THEN "real_up" ELSE "read"]
        /\ store[n].pc = "idle" /\ UNCHANGED <<reg, up, carrier, real>>
  <2>1. StartLink(n) => /\ link_state_store(n, TRUE) /\ cm[n] = "down" /\ cm' = [cm EXCEPT ![n] = "real_up"]
                        /\ store[n].pc = "idle" /\ UNCHANGED <<reg, up, carrier, real>>
    BY DEF StartLink, CmAt, StoreAt
  <2>2. StopLink(n) => /\ link_state_store(n, FALSE) /\ cm[n] = "up" /\ cm' = [cm EXCEPT ![n] = "read"]
                       /\ store[n].pc = "idle" /\ UNCHANGED <<reg, up, carrier, real>>
    BY DEF StopLink, CmAt, StoreAt
  <2>. QED
    BY <2>1, <2>2
<1>3. /\ StoreIs(n, "load", on, link, {}, FALSE) /\ UNCHANGED <<link, priv>>
      /\ clash' = clash
  BY <1>2, StoreDoes DEF link_state_store
<1>4. cm \in [Nets -> CmSteps] /\ up \subseteq Nets /\ Storing \subseteq Nets
  BY DEF Types, Storing
<1>5. \A m \in Nets : cm'[m] = IF m = n THEN (IF on THEN "real_up" ELSE "read") ELSE cm[m]
  BY <1>2, <1>4
<1>6. \A m \in Storing' : (m \in Storing \/ m = n) /\ cm'[m] = IF store'[m].on THEN "real_up" ELSE "read"
  BY <1>1, <1>3, <1>5 DEF Storing, StoreAt, StoreIs
<1>7. \A m \in up' : cm'[m] \in Opened
  BY <1>1, <1>2, <1>4, <1>5 DEF Opened
<1>8. ASSUME "lost" \notin clash' PROVE \A m \in Nets : Bits(m)'
  <2>0. \A m \in Nets : Bits(m)
    BY <1>1, <1>3, <1>8
  <2>1. \A m \in Nets \ {n} : Bits(m)'
    BY <1>2, <1>3, <1>5, <2>0 DEF Bits, StoreIs, Connects
  <2>2. Connects(n) <=> ~on
    BY <1>2 DEF Connects, Connected
  <2>3. Connects(n)' <=> on
    BY <1>5 DEF Connects, Connected
  <2>4. (n \in link <=> ~on) /\ (n \in reg => (n \in priv <=> ~on))
    BY <1>2, <2>0, <2>2 DEF Bits
  <2>5. Bits(n)'
    BY <1>2, <1>3, <2>3, <2>4 DEF Bits, StoreIs
  <2>. QED
    BY <2>1, <2>5
<1>9. ASSUME "lost" \notin clash', "late" \notin clash' PROVE RealTracks'
  <2>1. RealTracks
    BY <1>1, <1>3, <1>9
  <2>2. store'[n].pc = "load" /\ \A m \in Nets \ {n} : store'[m] = store[m]
    BY <1>3 DEF StoreIs
  <2>. QED
    BY <1>2, <1>3, <2>1, <2>2 DEF RealTracks
<1>10. up' \subseteq reg' /\ carrier' = up' \cap priv'
  BY <1>1, <1>2, <1>3
<1>. QED
  BY <1>6, <1>7, <1>8, <1>9, <1>10 DEF Follows

LEMMA FollowsKept ==
  ASSUME Types, Ends, Follows, QmapNext
  PROVE  Follows'
<1> SUFFICES ASSUME Present' PROVE Follows'
  BY DEF Follows
<1>1. /\ Present /\ leaving' = leaving
      /\ ~disconnect /\ ~usbnet_disconnect /\ \A n \in Nets : ~Unregisters(n)
  BY PresentBefore
<1>2. real \in Real /\ \A m \in up : cm[m] \in Opened
  BY <1>1 DEF Types, Follows
<1>3. ASSUME NEW n \in Nets, StartReal(n) PROVE Follows'
  <2>1. real'.carrier = real.carrier
    BY <1>2, <1>3 DEF StartReal, qmi_wwan_open, Real
  <2>2. /\ cm' = [cm EXCEPT ![n] = "close"] /\ cm[n] = "real_up" /\ store[n].pc = "idle"
        /\ UNCHANGED <<reg, linkVars, up, carrier>>
    BY <1>3 DEF StartReal, CmAt, StoreAt
  <2>3. n \notin up
    BY <1>2, <2>2 DEF Opened
  <2>. QED
    BY <1>1, <2>1, <2>2, <2>3, CmFollows DEF Connected
<1>4. ASSUME NEW n \in Nets, StartClose(n) PROVE Follows'
  <2>1. /\ cm' = [cm EXCEPT ![n] = "open"] /\ cm[n] = "close" /\ store[n].pc = "idle"
        /\ UNCHANGED <<reg, linkVars, real>> /\ up' = up \ {n} /\ carrier' = carrier \ {n}
    BY <1>4 DEF StartClose, CmAt, StoreAt, qmap_stop
  <2>. QED
    BY <1>1, <2>1, CmFollows DEF Connected
<1>5. ASSUME NEW n \in Nets, StartOpen(n) PROVE Follows'
  <2>1. /\ cm' = [cm EXCEPT ![n] = "up"] /\ cm[n] = "open" /\ store[n].pc = "idle"
        /\ UNCHANGED <<reg, linkVars>> /\ qmap_open(n)
    BY <1>5 DEF StartOpen, CmAt, StoreAt
  <2>2. "up" \in Connected /\ cm[n] \in Connected /\ "up" \in Opened
    BY <2>1 DEF Connected, Opened
  <2>3. CASE n \in reg /\ real.up
    <3>1. (real.carrier \/ n \in priv) \in BOOLEAN
      BY Zenon
    <3>2. real'.carrier = (real.carrier \/ n \in priv)
      BY <1>2, <2>1, <2>3, <3>1 DEF qmap_open, Real
    <3>3. /\ real'.carrier = real.carrier \/ real'.carrier = TRUE
          /\ n \in priv => real'.carrier
      <4>1. CASE n \in priv
        BY <3>2, <4>1
      <4>2. CASE n \notin priv
        <5>1. real'.carrier = (real.carrier \/ FALSE)
          BY <3>2, <4>2
        <5>2. real.carrier \in BOOLEAN
          BY <1>2 DEF Real
        <5>. QED
          BY <4>2, <5>1, <5>2
      <4>. QED
        BY <4>1, <4>2
    <3>4. up' = up \cup {n} /\ carrier' = carrier \cup ({n} \cap priv)
      BY <2>1, <2>3 DEF qmap_open
    <3>. QED
      BY <1>1, <2>1, <2>2, <2>3, <3>3, <3>4, CmFollows
  <2>4. CASE ~(n \in reg /\ real.up)
    <3>1. UNCHANGED <<up, carrier, real>>
      BY <2>1, <2>4 DEF qmap_open
    <3>. QED
      BY <1>1, <2>1, <2>2, <3>1, CmFollows
  <2>. QED
    BY <2>3, <2>4
<1>6. ASSUME NEW n \in Nets, StopRead(n) PROVE Follows'
  <2>1. PICK to \in {"real_down", "net_down"} : cm' = [cm EXCEPT ![n] = to]
    BY <1>6 DEF StopRead, CmAt
  <2>2. cm[n] = "read" /\ store[n].pc = "idle" /\ UNCHANGED <<reg, linkVars, real, up, carrier>>
    BY <1>6 DEF StopRead, CmAt, StoreAt, devVars
  <2>. QED
    BY <1>1, <2>1, <2>2, CmFollows DEF Connected, Opened
<1>7. ASSUME NEW n \in Nets, StopReal(n) PROVE Follows'
  <2>1. /\ cm' = [cm EXCEPT ![n] = "net_down"] /\ cm[n] = "real_down" /\ store[n].pc = "idle"
        /\ UNCHANGED <<reg, linkVars, up, carrier>>
    BY <1>7 DEF StopReal, CmAt, StoreAt
  <2>2. real'.carrier = real.carrier
    BY <1>2, <1>7 DEF StopReal, Real
  <2>. QED
    BY <1>1, <2>1, <2>2, CmFollows DEF Connected, Opened
<1>8. ASSUME NEW n \in Nets, StopNet(n) PROVE Follows'
  <2>1. /\ cm' = [cm EXCEPT ![n] = "down"] /\ cm[n] = "net_down" /\ store[n].pc = "idle"
        /\ UNCHANGED <<reg, linkVars, real>> /\ up' = up \ {n} /\ carrier' = carrier \ {n}
    BY <1>8 DEF StopNet, CmAt, StoreAt, qmap_stop
  <2>. QED
    BY <1>1, <2>1, CmFollows DEF Connected
<1>9. ASSUME UNCHANGED <<reg, linkVars, up, carrier, cm>>, real'.carrier = real.carrier PROVE Follows'
  BY <1>1, <1>9 DEF Follows, linkVars, Storing, StoreAt, Bits, Connects, RealTracks
<1>10. ASSUME RealSteps \/ qmi_wwan_suspend \/ qmi_wwan_resume PROVE Follows'
  <2>1. UNCHANGED <<reg, linkVars, up, carrier, cm>>
    BY <1>10 DEF RealSteps, RealXmit, RealCheck, qmi_wwan_start_xmit, Complete, qmi_wwan_suspend, qmi_wwan_resume
  <2>2. real'.carrier = real.carrier
    BY <1>2, <1>10
       DEF RealSteps, RealXmit, RealCheck, qmi_wwan_start_xmit, Complete, qmi_wwan_suspend, qmi_wwan_resume, Real
  <2>. QED
    BY <1>9, <2>1, <2>2
<1>11. ASSUME NEW n \in Nets, Xmits(n) \/ Flushes(n) \/ \E own \in BOOLEAN : rmnet_vnd_start_xmit(n, own)
       PROVE  Follows'
  <2>1. UNCHANGED <<reg, linkVars, up, carrier, cm, real>>
    BY <1>11
       DEF rmnet_vnd_start_xmit, Xmits, TxBusy, TxAlone, TxAggFreed, TxXmit, TxArm, TxAgg, Flushes,
           rmnet_usb_tx_agg_timer_cb, rmnet_usb_tx_agg_work, WorkXmit, devVars
  <2>. QED
    BY <1>9, <2>1
<1>12. ASSUME Tasklet \/ QmapSettings PROVE Follows'
  <2>1. UNCHANGED <<reg, linkVars, up, carrier, cm, real>>
    BY <1>12 DEF Tasklet, QmapSettings, devVars
  <2>. QED
    BY <1>9, <2>1
<1>13. ASSUME NEW n \in Nets, Stores(n) PROVE Follows'
  BY <1>1, <1>13, StoresFollow
<1>14. ASSUME NEW n \in Nets, StartLink(n) \/ StopLink(n) PROVE Follows'
  BY <1>1, <1>14, CallFollows
<1>. QED
  BY <1>1, <1>3, <1>4, <1>5, <1>6, <1>7, <1>8, <1>10, <1>11, <1>12, <1>13, <1>14 DEF QmapNext, Starts, Stops

\* No call looks another device up.
CallsKept ==
  \A m \in Nets : store'[m].net => store[m].net

\* What Ends says stays true when nothing it mentions changes but for net n.
LEMMA EndOfOne ==
  ASSUME Ends, NEW n \in Nets, EndOf(n)', budget' = budget, FreedUsedOnlyInRace',
         \A m \in Nets \ {n} :
           /\ leaving'[m] = leaving[m] /\ tx'[m] = tx[m] /\ (m \in raced => m \in raced')
           /\ (m \in reg' <=> m \in reg) /\ (m \in up' => m \in up) /\ (m \in timer' => m \in timer)
           /\ (m \in work' => m \in work) /\ (m \in stopped => m \in stopped')
           /\ (m \in freed' => m \in freed),
         CallsKept,
         Present => Present'
  PROVE  Ends'
<1>1. \A m \in Nets \ {n} : EndOf(m)'
  BY DEF Ends, EndOf, CallsKept
<1>. QED
  BY <1>1 DEF Ends

LEMMA EndsByTx ==
  ASSUME Types, Ends, NEW n \in Nets, NEW p, NEW s, NEW o, Becomes(n, p, s, o),
         UNCHANGED <<leaving, reg, up, work, freed, raced, budget, linkVars>>,
         stopped \subseteq stopped', timer' \subseteq timer \cup {n}, tx[n].pc # "idle" \/ n \in up \ stopped,
         tx[n].pc = "idle" => n \notin timer' \/ n \in timer,
         touched' => touched \/ n \in freed
  PROVE  Ends'
<1>0. CallsKept
  BY DEF CallsKept, linkVars
<1>1. EndOf(n) /\ leaving[n] \in Steps /\ FreedUsedOnlyInRace
  BY DEF Ends, Types
<1>2. leaving[n] \in {"no", "begin"} => n \in reg
  BY <1>1 DEF EndOf
<1>3. leaving[n] \in {"cancel", "free", "close"} => n \notin reg /\ n \in raced
  BY <1>1 DEF EndOf
<1>4. leaving[n] \notin {"gone", "off"}
  BY <1>1 DEF EndOf
<1>5. n \in freed => n \in raced
  BY <1>1, <1>3, <1>4 DEF EndOf
<1>6. EndOf(n)'
  BY <1>0, <1>1, <1>2, <1>3, <1>4 DEF EndOf, Steps, CallsKept
<1>7. FreedUsedOnlyInRace'
  BY <1>0, <1>1, <1>5 DEF FreedUsedOnlyInRace
<1>8. Present => Present'
  BY DEF Present
<1>. QED
  BY <1>0, <1>6, <1>7, <1>8, EndOfOne DEF Becomes

LEMMA EndsKept ==
  ASSUME Types, Ends, QmapNext
  PROVE  Ends'
<1>0. leaving \in [Nets -> Steps] /\ \A n \in Nets : EndOf(n)
  BY DEF Types, Ends
<1>1. ASSUME NEW n \in Nets, NEW own \in BOOLEAN, rmnet_vnd_start_xmit(n, own) PROVE Ends'
  <2>1. /\ UNCHANGED <<leaving, reg, up, work, freed, raced, budget, timer, touched, stopped, linkVars>>
        /\ n \in up \ stopped
    BY <1>1 DEF rmnet_vnd_start_xmit, devVars, linkVars, aggVars, endVars
  <2>2. PICK p, s, o : Becomes(n, p, s, o)
    BY <1>1, StartDoes
  <2>. QED
    BY <2>1, <2>2, EndsByTx
<1>2. ASSUME NEW n \in Nets, Xmits(n) PROVE Ends'
  <2>1. UNCHANGED <<leaving, reg, up, work, freed, raced, budget, linkVars>> /\ tx[n].pc # "idle"
    BY <1>2 DEF Xmits, TxBusy, TxAlone, TxAggFreed, TxXmit, TxArm, TxAgg, At, devVars, linkVars, aggVars, endVars
  <2>2. timer' \subseteq timer \cup {n} /\ stopped \subseteq stopped'
    BY <1>2 DEF Xmits, TxBusy, TxAlone, TxAggFreed, TxXmit, TxArm, TxAgg, Armed, aggVars
  <2>3. touched' => touched \/ n \in freed
    BY <1>2 DEF Xmits, TxBusy, TxAlone, TxAggFreed, TxXmit, TxArm, TxAgg, endVars
  <2>4. \E p, s, o : Becomes(n, p, s, o)
    BY <1>2, TxDoes, TxAggDoes DEF Xmits
  <2>. QED
    BY <2>1, <2>2, <2>3, <2>4, EndsByTx
<1>3. ASSUME NEW n \in Nets, rmnet_usb_tx_agg_timer_cb(n) PROVE Ends'
  <2>1. /\ UNCHANGED <<leaving, reg, up, stopped, tx, freed, raced, budget, linkVars>>
        /\ n \in timer /\ timer' = timer \ {n} /\ work' \subseteq work \cup {n}
        /\ leaving[n] \in {"gone", "off"} => work' = work
        /\ touched' => touched \/ leaving[n] \in {"gone", "off"}
    BY <1>3 DEF rmnet_usb_tx_agg_timer_cb, devVars, linkVars
  <2>3. UNCHANGED store /\ CallsKept
    BY <2>1 DEF linkVars, CallsKept
  <2>2. EndOf(n)' /\ FreedUsedOnlyInRace'
    BY <1>0, <2>1, <2>3 DEF EndOf, Ends, FreedUsedOnlyInRace, Steps
  <2>. QED
    BY <2>1, <2>2, <2>3, EndOfOne DEF Present
<1>4. ASSUME NEW n \in Nets, rmnet_usb_tx_agg_work(n) \/ WorkXmit(n) PROVE Ends'
  <2>1. /\ UNCHANGED <<leaving, reg, up, stopped, tx, freed, raced, budget, timer, linkVars>>
        /\ work' \subseteq work /\ (touched' => touched \/ (n \in freed /\ n \in work))
    BY <1>4 DEF rmnet_usb_tx_agg_work, WorkXmit, devVars, linkVars, endVars
  <2>3. UNCHANGED store /\ CallsKept
    BY <2>1 DEF linkVars, CallsKept
  <2>2. EndOf(n)' /\ FreedUsedOnlyInRace'
    BY <1>0, <2>1, <2>3 DEF EndOf, Ends, FreedUsedOnlyInRace, Steps
  <2>. QED
    BY <2>1, <2>2, <2>3, EndOfOne DEF Present
<1>5. ASSUME NEW n \in Nets, Starts(n) \/ StopLink(n) \/ Stops(n) PROVE Ends'
  <2>1. UNCHANGED <<leaving, reg, tx, freed, raced, timer, work, touched>>
    BY <1>5 DEF Starts, StartLink, StartReal, StartClose, StartOpen, StopLink, Stops, StopRead, StopReal, StopNet,
                devVars, linkVars, aggVars, endVars
  <2>2. up' \subseteq up \cup reg
    BY <1>5 DEF Starts, StartLink, StartReal, StartClose, StartOpen, StopLink, Stops, StopRead, StopReal, StopNet,
                devVars, linkVars, qmap_stop, qmap_open
  <2>3. stopped \subseteq stopped' \cup reg
    BY <1>5 DEF Starts, StartLink, StartReal, StartClose, StartOpen, StopLink, Stops, StopRead, StopReal, StopNet,
                link_state_store, qmap_stop, qmap_open
  <2>4. budget'.leaves = budget.leaves
    BY <1>5 DEF Types, Budget, Starts, StartLink, StartReal, StartClose, StartOpen, StopLink, Stops, StopRead,
                StopReal, StopNet
  <2>5. CallsKept
    <3>1. ASSUME StartLink(n) \/ StopLink(n)
          PROVE  \E on \in BOOLEAN : StoreIs(n, "load", on, link, {}, FALSE)
      BY <3>1, StoreDoes DEF StartLink, StopLink, link_state_store
    <3>2. ASSUME ~StartLink(n), ~StopLink(n) PROVE UNCHANGED store
      BY <1>5, <3>2 DEF Starts, StartReal, StartClose, StartOpen, Stops, StopRead, StopReal, StopNet, devVars, linkVars
    <3>. QED
      BY <3>1, <3>2 DEF StoreIs, CallsKept
  <2>. QED
    BY <2>1, <2>2, <2>3, <2>4, <2>5 DEF CallsKept, Ends, EndOf, FreedUsedOnlyInRace, Present
<1>6. ASSUME RealSteps \/ Tasklet \/ QmapSettings \/ qmi_wwan_suspend \/ qmi_wwan_resume PROVE Ends'
  <2>1. UNCHANGED <<leaving, reg, up, tx, freed, raced, timer, work, touched, store>>
    BY <1>6 DEF RealSteps, RealXmit, RealCheck, qmi_wwan_start_xmit, Complete, Tasklet, QmapSettings,
                qmi_wwan_suspend, qmi_wwan_resume, devVars, linkVars, aggVars, endVars
  <2>2. stopped \subseteq stopped' \cup reg
    BY <1>6 DEF RealSteps, RealXmit, RealCheck, qmi_wwan_start_xmit, Complete, Tasklet, QmapSettings,
                qmi_wwan_suspend, qmi_wwan_resume, qmap_wake_queue
  <2>3. budget'.leaves = budget.leaves
    BY <1>6 DEF Types, Budget, RealSteps, RealXmit, RealCheck, qmi_wwan_start_xmit, Complete, Tasklet,
                QmapSettings, qmi_wwan_suspend, qmi_wwan_resume
  <2>. QED
    BY <2>1, <2>2, <2>3 DEF Ends, EndOf, FreedUsedOnlyInRace, Present
<1>7. ASSUME disconnect PROVE Ends'
  <2>1. Present /\ budget'.leaves # 1
    BY <1>7 DEF disconnect, Ends, Types, Budget
  <2>2. /\ leaving' = [n \in Nets |-> "begin"]
        /\ UNCHANGED <<reg, up, tx, freed, raced, timer, work, touched, stopped, store>>
    BY <1>7 DEF disconnect, aggVars
  <2>. QED
    BY <1>0, <2>1, <2>2 DEF Ends, EndOf, FreedUsedOnlyInRace, Present
<1>8. ASSUME usbnet_disconnect PROVE Ends'
  <2>1. /\ \A n \in Nets : leaving[n] = "gone" /\ leaving'[n] = "off"
        /\ UNCHANGED <<reg, up, tx, freed, raced, timer, work, touched, stopped, budget, store>>
    BY <1>8 DEF usbnet_disconnect, aggVars, linkVars
  <2>2. ~Present
    BY <2>1, QmapAssumption DEF Present
  <2>. QED
    BY <1>0, <2>1, <2>2 DEF Ends, EndOf, FreedUsedOnlyInRace
<1>9. ASSUME NEW n \in Nets, Unregisters(n) PROVE Ends'
  <2>1. budget' = budget /\ tx' = tx /\ touched' = touched /\ leaving[n] # "no"
    BY <1>9 DEF Unregisters, UnregSkip, UnregStop, UnregCancel, UnregFree, UnregClose, Turn
  <2>2. ~Present
    BY <2>1 DEF Present
  <2>3. \A m \in Nets \ {n} :
           /\ leaving'[m] = leaving[m] /\ (m \in raced => m \in raced')
           /\ (m \in reg' <=> m \in reg) /\ (m \in up' => m \in up) /\ (m \in timer' => m \in timer)
           /\ (m \in work' => m \in work) /\ (m \in stopped => m \in stopped')
           /\ (m \in freed' => m \in freed)
    BY <1>0, <1>9
       DEF Unregisters, UnregSkip, UnregStop, UnregCancel, UnregFree, UnregClose, qmap_stop, devVars, linkVars, aggVars
  <2>4. raced \subseteq raced'
    BY <1>9 DEF Unregisters, UnregSkip, UnregStop, UnregCancel, UnregFree, UnregClose
  <2>7. store' = store
    BY <1>9 DEF Unregisters, UnregSkip, UnregStop, UnregCancel, UnregFree, UnregClose, devVars, linkVars
  <2>8. CallsKept
    BY <2>7 DEF CallsKept
  <2>5. FreedUsedOnlyInRace'
    BY <2>1, <2>4, <2>7 DEF Ends, FreedUsedOnlyInRace
  <2>6. EndOf(n)'
    <3>0. EndOf(n) /\ leaving[n] \in Steps
      BY <1>0
    <3>1. CASE UnregSkip(n)
      BY <1>0, <2>7, <3>0, <3>1 DEF UnregSkip, Turn, EndOf, devVars, linkVars, aggVars
    <3>2. CASE UnregStop(n)
      BY <1>0, <2>7, <3>0, <3>2 DEF UnregStop, Turn, EndOf, At, aggVars
    <3>3. CASE UnregCancel(n)
      BY <1>0, <2>7, <3>0, <3>3 DEF UnregCancel, EndOf, devVars, linkVars
    <3>4. CASE UnregFree(n)
      BY <1>0, <2>7, <3>0, <3>4 DEF UnregFree, EndOf, devVars, linkVars
    <3>5. CASE UnregClose(n)
      BY <1>0, <2>7, <3>0, <3>5 DEF UnregClose, EndOf, At, qmap_stop, aggVars
    <3>. QED
      BY <1>9, <3>1, <3>2, <3>3, <3>4, <3>5 DEF Unregisters
  <2>. QED
    BY <2>1, <2>2, <2>3, <2>5, <2>6, <2>8, EndOfOne
<1>10. ASSUME NEW n \in Nets, Stores(n) PROVE Ends'
  <2>1. UNCHANGED <<leaving, reg, up, tx, freed, raced, timer, work, budget>>
    BY <1>10 DEF Stores, StoreLoad, StoreWrite, StoreOn, StoreNet, StoreOff, StoreDrop, aggVars, endVars
  <2>2. \A m \in Nets \ {n} : store'[m] = store[m]
    BY <1>10, StoreDoes DEF Stores, StoreIs
  <2>3. store'[n].net => store[n].net \/ n \in reg
    <3>1. CASE StoreOn(n)
      BY <3>1, StoreDoes DEF StoreIs
    <3>2. CASE StoreLoad(n)
      BY <3>2, StoreDoes DEF StoreIs
    <3>3. CASE StoreWrite(n)
      BY <3>3, StoreDoes DEF StoreIs
    <3>4. CASE StoreNet(n) \/ StoreOff(n) \/ StoreDrop(n)
      BY <3>4, StoreDoes DEF StoreIs
    <3>. QED
      BY <1>10, <3>1, <3>2, <3>3, <3>4 DEF Stores
  <2>4. stopped \subseteq stopped' \cup reg \cup raced
    <3>1. CASE StoreNet(n)
      <4>1. stopped \subseteq stopped' \cup {n} /\ (store[n].net \/ stopped' = stopped)
        BY <3>1, StoreNetDoes
      <4>2. store[n].net => n \in reg \cup raced
        BY <1>0 DEF EndOf
      <4>. QED
        BY <4>1, <4>2
    <3>2. CASE ~StoreNet(n)
      BY <1>10, <3>2 DEF Stores, StoreLoad, StoreWrite, StoreOn, StoreOff, StoreDrop
    <3>. QED
      BY <3>1, <3>2
  <2>5. touched' => touched \/ n \in raced
    <3>1. CASE StoreNet(n)
      BY <1>0, <3>1, StoreNetDoes DEF EndOf
    <3>2. CASE ~StoreNet(n)
      BY <1>10, <3>2 DEF Stores, StoreLoad, StoreWrite, StoreOn, StoreOff, StoreDrop, endVars
    <3>. QED
      BY <3>1, <3>2
  <2>6. FreedUsedOnlyInRace'
    BY <2>1, <2>3, <2>5 DEF Ends, FreedUsedOnlyInRace
  <2>7. EndOf(n)'
    <3>1. leaving[n] \notin {"no", "begin"} => n \notin reg
      BY <1>0 DEF EndOf, Steps
    <3>. QED
      BY <1>0, <2>1, <2>3, <2>4, <3>1 DEF EndOf
  <2>8. \A m \in Nets \ {n} : EndOf(m)'
    BY <1>0, <2>1, <2>2, <2>3, <2>4 DEF EndOf
  <2>. QED
    BY <2>1, <2>6, <2>7, <2>8 DEF Ends, Present
<1>. QED
  BY <1>1, <1>2, <1>3, <1>4, <1>5, <1>6, <1>7, <1>8, <1>9, <1>10 DEF QmapNext, Flushes

-----------------------------------------------------------------------------
(* The flow of packets *)

LEMMA MadeTag ==
  ASSUME NEW n \in Nets, NEW p \in Made(n)
  PROVE  p[1] = n /\ p[2] \in 1 .. made[n] /\ p = <<n, p[2]>>
  BY DEF Made

\* The part of Conserved and of Ordered that one device has.
Kept(n) ==
  /\ Disjoint4(InAgg(n), InHeld(n), InOut(n), InSkb(n))
  /\ Hand(n) \subseteq Made(n) /\ Hand(n) \cap Left = {}
  /\ Made(n) \subseteq Hand(n) \cup Left
Sending == InQdisc \cup InTxq \cup OnWire
Older(n) ==
  /\ Before(InAgg(n) \cup InOut(n), InSkb(n))
  /\ Before(InHeld(n), InAgg(n) \cup InOut(n) \cup InSkb(n))
  /\ Before({p \in Sending : p[1] = n}, InAgg(n) \cup InOut(n) \cup InSkb(n))
Owned == \A p \in Left : \E n \in Nets : p \in Made(n)

FlowParts ==
  /\ Disjoint4(InQdisc, InTxq, OnWire, lost) /\ Owned /\ Apart(qdisc) /\ Apart(txq)
  /\ \A n \in Nets : Kept(n) /\ Older(n)

LEMMA FlowIs == Flow <=> FlowParts
  BY DEF FlowParts, Flow, Conserved, Ordered, Owned, Kept, Older, Sending

LEMMA FlowHas ==
  ASSUME Flow
  PROVE  /\ Disjoint4(InQdisc, InTxq, OnWire, lost) /\ Owned /\ Apart(qdisc) /\ Apart(txq)
         /\ \A n \in Nets : Kept(n) /\ Older(n)
  BY FlowIs DEF FlowParts

LEMMA FlowFrom ==
  ASSUME Disjoint4(InQdisc', InTxq', OnWire', lost'), Owned', Apart(qdisc)', Apart(txq)',
         \A n \in Nets : Kept(n)' /\ Older(n)'
  PROVE  Flow'
<1>1. FlowParts'
  BY DEF FlowParts
<1>. QED
  BY <1>1, FlowIs, PTL

\* Packets move between the buffer, the work item and start_xmit of a device.
LEMMA HandMoves ==
  ASSUME Flow, NEW n \in Nets, UNCHANGED <<qdisc, txq, wire, lost, made>>,
         \A m \in Nets \ {n} : agg'[m] = agg[m] /\ held'[m] = held[m] /\ tx'[m] = tx[m],
         Disjoint4(InAgg(n)', InHeld(n)', InOut(n)', InSkb(n)'), Hand(n)' = Hand(n), Older(n)'
  PROVE  Flow'
<1>1. /\ InQdisc' = InQdisc /\ InTxq' = InTxq /\ OnWire' = OnWire /\ Left' = Left /\ Sending' = Sending
      /\ Apart(qdisc)' /\ Apart(txq)'
  BY FlowHas DEF InQdisc, InTxq, OnWire, Left, Sending, Apart
<1>2. \A m \in Nets : Made(m)' = Made(m)
  BY DEF Made
<1>3. \A m \in Nets \ {n} : /\ InAgg(m)' = InAgg(m) /\ InHeld(m)' = InHeld(m)
                            /\ InOut(m)' = InOut(m) /\ InSkb(m)' = InSkb(m) /\ Hand(m)' = Hand(m)
  BY DEF InAgg, InHeld, InOut, InSkb, Hand
<1>4. ASSUME NEW m \in Nets \ {n} PROVE Kept(m)' /\ Older(m)'
  <2>1. Kept(m)'
    BY <1>1, <1>2, <1>3, FlowHas DEF Kept, Disjoint4
  <2>2. Older(m)'
    BY <1>1, <1>3, FlowHas DEF Older, Before
  <2>. QED
    BY <2>1, <2>2
<1>5. Kept(n)'
  BY <1>1, <1>2, FlowHas DEF Kept
<1>6. Owned'
  BY <1>1, <1>2, FlowHas DEF Owned
<1>7. Disjoint4(InQdisc', InTxq', OnWire', lost')
  BY <1>1, FlowHas DEF Disjoint4
<1>. QED
  BY <1>1, <1>4, <1>5, <1>6, <1>7, FlowFrom

\* Packets X of a device leave its hands: they are queued, or freed.
LEMMA HandLeaves ==
  ASSUME Flow, NEW n \in Nets, NEW X, X \subseteq Hand(n), UNCHANGED <<txq, wire, made>>,
         \A m \in Nets \ {n} : agg'[m] = agg[m] /\ held'[m] = held[m] /\ tx'[m] = tx[m],
         InAgg(n)' \subseteq InAgg(n), InHeld(n)' \subseteq InHeld(n),
         InOut(n)' \subseteq InOut(n), InSkb(n)' \subseteq InSkb(n), Hand(n)' = Hand(n) \ X,
         \/ lost' = lost \cup X /\ qdisc' = qdisc
         \/ /\ lost' = lost /\ InQdisc' = InQdisc \cup X /\ Apart(qdisc)'
            /\ Before(X, InAgg(n)' \cup InOut(n)' \cup InSkb(n)')
  PROVE  Flow'
<1>1. /\ InTxq' = InTxq /\ OnWire' = OnWire /\ Apart(txq)'
      /\ (qdisc' = qdisc => InQdisc' = InQdisc /\ Apart(qdisc)')
  BY FlowHas DEF InQdisc, InTxq, OnWire, Apart
<1>2. \A m \in Nets : Made(m)' = Made(m)
  BY DEF Made
<1>3. \A m \in Nets \ {n} : /\ InAgg(m)' = InAgg(m) /\ InHeld(m)' = InHeld(m)
                            /\ InOut(m)' = InOut(m) /\ InSkb(m)' = InSkb(m) /\ Hand(m)' = Hand(m)
  BY DEF InAgg, InHeld, InOut, InSkb, Hand
<1>4. Left' = Left \cup X /\ Apart(qdisc)'
  BY <1>1 DEF Left
<1>5. X \subseteq Made(n) /\ X \cap Left = {} /\ \A p \in X : p[1] = n
  BY FlowHas, MadeTag DEF Kept
<1>6. ASSUME NEW m \in Nets \ {n} PROVE Kept(m)' /\ Older(m)'
  <2>1. Hand(m) \cap X = {}
    BY <1>5, FlowHas, MadeTag DEF Kept
  <2>2. Kept(m)'
    BY <1>2, <1>3, <1>4, <1>6, <2>1, FlowHas DEF Kept
  <2>3. {p \in Sending' : p[1] = m} \subseteq {p \in Sending : p[1] = m}
    BY <1>1, <1>5, <1>6 DEF Sending
  <2>4. Older(m)'
    BY <1>3, <1>6, <2>3, FlowHas DEF Older, Before
  <2>. QED
    BY <2>2, <2>4
<1>7. Kept(n)'
  <2>1. Disjoint4(InAgg(n)', InHeld(n)', InOut(n)', InSkb(n)')
    BY FlowHas DEF Kept, Disjoint4
  <2>2. Hand(n)' \subseteq Made(n)' /\ Hand(n)' \cap Left' = {} /\ Made(n)' \subseteq Hand(n)' \cup Left'
    BY <1>2, <1>4, FlowHas DEF Kept
  <2>. QED
    BY <2>1, <2>2 DEF Kept
<1>8. Older(n)'
  <2>1. Before(InAgg(n)' \cup InOut(n)', InSkb(n)') /\ Before(InHeld(n)', InAgg(n)' \cup InOut(n)' \cup InSkb(n)')
    BY FlowHas DEF Older, Before
  <2>2. Before({p \in Sending : p[1] = n}, InAgg(n)' \cup InOut(n)' \cup InSkb(n)')
    BY FlowHas DEF Older, Before
  <2>3. CASE qdisc' = qdisc
    <3>1. Sending' = Sending
      BY <1>1, <2>3 DEF Sending
    <3>. QED
      BY <2>1, <2>2, <3>1 DEF Older
  <2>4. CASE InQdisc' = InQdisc \cup X /\ Before(X, InAgg(n)' \cup InOut(n)' \cup InSkb(n)')
    <3>1. Sending' = Sending \cup X
      BY <1>1, <2>4 DEF Sending
    <3>2. Before({p \in Sending' : p[1] = n}, InAgg(n)' \cup InOut(n)' \cup InSkb(n)')
      BY <2>2, <2>4, <3>1 DEF Before
    <3>. QED
      BY <2>1, <3>2 DEF Older
  <2>. QED
    BY <2>3, <2>4
<1>9. Owned'
  BY <1>2, <1>4, <1>5, FlowHas DEF Owned
<1>10. Disjoint4(InQdisc', InTxq', OnWire', lost')
  BY <1>1, <1>5, FlowHas DEF Disjoint4, Left
<1>. QED
  BY <1>1, <1>4, <1>6, <1>7, <1>8, <1>9, <1>10, FlowFrom

\* Packets that have left a device move on, or are freed.
LEMMA LeftMoves ==
  ASSUME Flow, UNCHANGED <<agg, held, tx, made>>, Left' = Left, Sending' \subseteq Sending,
         Disjoint4(InQdisc', InTxq', OnWire', lost'), Apart(qdisc)', Apart(txq)'
  PROVE  Flow'
<1>1. \A m \in Nets : /\ InAgg(m)' = InAgg(m) /\ InHeld(m)' = InHeld(m)
                      /\ InOut(m)' = InOut(m) /\ InSkb(m)' = InSkb(m) /\ Hand(m)' = Hand(m)
                      /\ Made(m)' = Made(m)
  BY DEF InAgg, InHeld, InOut, InSkb, Hand, Made
<1>2. \A m \in Nets : Kept(m)'
  BY <1>1, FlowHas DEF Kept
<1>3. \A m \in Nets : Older(m)'
  BY <1>1, FlowHas DEF Older, Before
<1>4. Owned'
  BY <1>1, FlowHas DEF Owned
<1>. QED
  BY <1>2, <1>3, <1>4, FlowFrom

LEMMA EnqueueFlow ==
  ASSUME Types, Flow, NEW n \in Nets, NEW f \in Frame, NEW X, X = ToSet(f.pkts), X \subseteq Hand(n), Enqueue(f)
  PROVE  \/ lost' = lost \cup X /\ qdisc' = qdisc
         \/ lost' = lost /\ InQdisc' = InQdisc \cup X /\ Apart(qdisc)'
<1>1. CASE real.up /\ real.carrier
  <2>1. qdisc' = Append(qdisc, f) /\ lost' = lost
    BY <1>1 DEF Enqueue
  <2>2. InQdisc \cap X = {} /\ Apart(qdisc)
    BY FlowHas DEF Kept, Left
  <2>3. qdisc \in Seq(Frame)
    BY DEF Types
  <2>4. Pkts(ToSet(Append(qdisc, f))) = Pkts(ToSet(qdisc)) \cup X /\ Apart(Append(qdisc, f))
    BY <2>2, <2>3, QueueFacts DEF InQdisc
  <2>5. InQdisc' = InQdisc \cup X
    BY <2>1, <2>4, Zenon DEF InQdisc
  <2>6. Apart(qdisc)'
    BY <2>1, <2>4, Zenon DEF Apart
  <2>. QED
    BY <2>1, <2>5, <2>6
<1>2. CASE ~(real.up /\ real.carrier)
  BY <1>2 DEF Enqueue
<1>. QED
  BY <1>1, <1>2

\* start_xmit takes no packet and gives none away.
LEMMA FlowSame ==
  ASSUME Flow, UNCHANGED <<qdisc, txq, wire, lost, made, agg, held>>, NEW n \in Nets,
         NEW p, NEW s, NEW o, Becomes(n, p, s, o), s = tx[n].skb, o = tx[n].out
  PROVE  Flow'
<1>1. InAgg(n)' = InAgg(n) /\ InHeld(n)' = InHeld(n) /\ InOut(n)' = InOut(n) /\ InSkb(n)' = InSkb(n)
  BY DEF InAgg, InHeld, InOut, InSkb, Becomes
<1>2. Sending' = Sending
  BY DEF Sending, InQdisc, InTxq, OnWire
<1>3. Older(n)'
  BY <1>1, <1>2, FlowHas DEF Older, Before
<1>4. Disjoint4(InAgg(n)', InHeld(n)', InOut(n)', InSkb(n)') /\ Hand(n)' = Hand(n)
  BY <1>1, FlowHas DEF Kept, Hand, Disjoint4
<1>. QED
  BY <1>3, <1>4, HandMoves DEF Becomes

\* The sets of a device as its start_xmit puts them.
LEMMA BecomesSets ==
  ASSUME NEW n \in Nets, NEW p, NEW s, NEW o, Becomes(n, p, s, o)
  PROVE  InOut(n)' = ToSet(o) /\ InSkb(n)' = ToSet(s)
  BY DEF Becomes, InOut, InSkb

\* The packets of start_xmit go through the buffer: all that is in the two
\* stays there, what is sent first is older.
LEMMA FlowCollects ==
  ASSUME Flow, NEW n \in Nets, UNCHANGED <<qdisc, txq, wire, lost, made, held>>,
         \A m \in Nets \ {n} : agg'[m] = agg[m] /\ tx'[m] = tx[m], InOut(n) = {},
         \/ InAgg(n)' = {} /\ InOut(n)' = InAgg(n) /\ InSkb(n)' = InSkb(n)
         \/ InAgg(n)' = {} /\ InOut(n)' = InAgg(n) \cup InSkb(n) /\ InSkb(n)' = {}
         \/ InAgg(n)' = InAgg(n) \cup InSkb(n) /\ InOut(n)' = {} /\ InSkb(n)' = {}
  PROVE  Flow'
<1>1. InHeld(n)' = InHeld(n) /\ Sending' = Sending
  BY DEF InHeld, Sending, InQdisc, InTxq, OnWire
<1>2. Hand(n)' = Hand(n)
  BY <1>1 DEF Hand
<1>3. Disjoint4(InAgg(n)', InHeld(n)', InOut(n)', InSkb(n)')
  BY <1>1, FlowHas DEF Kept, Disjoint4
<1>4. InAgg(n)' \cup InOut(n)' \cup InSkb(n)' = InAgg(n) \cup InOut(n) \cup InSkb(n)
  OBVIOUS
<1>5. Before(InAgg(n)' \cup InOut(n)', InSkb(n)')
  BY FlowHas DEF Older, Before
<1>6. Older(n)'
  BY <1>1, <1>4, <1>5, FlowHas DEF Older, Before
<1>. QED
  BY <1>2, <1>3, <1>6, HandMoves

LEMMA FlowTx ==
  ASSUME Types, Forms, Flow, NEW n \in Nets, TxAlone(n) \/ TxBusy(n) \/ TxArm(n)
  PROVE  Flow'
<1>0. Form(n) /\ UNCHANGED <<qdisc, txq, wire, lost, made, agg, held>>
  BY DEF Forms, TxAlone, TxBusy, TxArm, aggVars, sentVars
<1>1. CASE TxBusy(n) \/ TxArm(n)
  <2>1. Becomes(n, "idle", <<>>, <<>>)
    BY <1>1, TxDoes
  <2>2. tx[n].skb = <<>> /\ tx[n].out = <<>>
    BY <1>0, <1>1 DEF TxBusy, TxArm, At, Form
  <2>. QED
    BY <1>0, <2>1, <2>2, FlowSame
<1>2. CASE TxAlone(n)
  <2>1. Becomes(n, "xmit", <<>>, tx[n].skb)
    BY <1>2, TxDoes
  <2>2. agg[n] = <<>> /\ tx[n].out = <<>>
    BY <1>0, <1>2 DEF TxAlone, At, Form
  <2>3. InAgg(n) = {} /\ InAgg(n)' = {} /\ InOut(n) = {}
    BY <1>0, <2>2, ToSetEmpty DEF InAgg, InOut
  <2>4. InOut(n)' = InSkb(n) /\ InSkb(n)' = {}
    BY <2>1, BecomesSets, ToSetEmpty DEF InSkb
  <2>. QED
    BY <1>0, <2>1, <2>3, <2>4, FlowCollects DEF Becomes
<1>. QED
  BY <1>1, <1>2

LEMMA FlowAgg ==
  ASSUME Types, Forms, Flow, NEW n \in Nets, NEW fits \in BOOLEAN, NEW now \in BOOLEAN, TxAgg(n, fits, now)
  PROVE  Flow'
<1>0. /\ Form(n) /\ UNCHANGED <<qdisc, txq, wire, lost, made, held>> /\ tx[n].pc = "agg"
      /\ agg \in [Nets -> Seq(Pk)] /\ tx[n] \in Xmit
  BY DEF Forms, TxAgg, At, sentVars, Types
<1>1. PICK a \in Seq(Pk), o \in Seq(Pk), s \in Seq(Pk) :
           /\ agg' = [agg EXCEPT ![n] = a] /\ Becomes(n, "xmit", s, o)
           /\ Pass(agg[n], tx[n].skb, a, o, s)
  BY TxAggDoes
<1>2. agg'[n] = a /\ \A m \in Nets \ {n} : agg'[m] = agg[m]
  BY <1>0, <1>1
<1>3. InAgg(n)' = ToSet(a) /\ InOut(n)' = ToSet(o) /\ InSkb(n)' = ToSet(s)
  BY <1>1, <1>2, BecomesSets DEF InAgg
<1>4. InOut(n) = {}
  BY <1>0, ToSetEmpty DEF Form, InOut
<1>5. agg[n] \in Seq(Pk) /\ tx[n].skb \in Seq(Pk)
  BY <1>0 DEF Xmit
<1>6. ToSet(agg[n] \o tx[n].skb) = InAgg(n) \cup InSkb(n)
  BY <1>5, ToSetFacts DEF InAgg, InSkb
<1>7. agg[n] = <<>> => InAgg(n) = {}
  BY ToSetEmpty DEF InAgg
<1>8. ToSet(agg[n]) = InAgg(n) /\ ToSet(tx[n].skb) = InSkb(n)
  BY DEF InAgg, InSkb
<1>9. \/ InAgg(n)' = {} /\ InOut(n)' = InAgg(n) /\ InSkb(n)' = InSkb(n)
      \/ InAgg(n)' = {} /\ InOut(n)' = InAgg(n) \cup InSkb(n) /\ InSkb(n)' = {}
      \/ InAgg(n)' = InAgg(n) \cup InSkb(n) /\ InOut(n)' = {} /\ InSkb(n)' = {}
  <2>1. CASE a = <<>> /\ o = agg[n] /\ s = tx[n].skb
    BY <1>3, <1>8, <2>1, ToSetEmpty, Zenon
  <2>2. CASE a = <<>> /\ o = agg[n] \o tx[n].skb /\ s = <<>>
    BY <1>3, <1>6, <2>2, ToSetEmpty, Zenon
  <2>3. CASE agg[n] = <<>> /\ a = <<>> /\ o = tx[n].skb /\ s = <<>>
    <3>1. InAgg(n)' = {} /\ InOut(n)' = InSkb(n) /\ InSkb(n)' = {} /\ InAgg(n) = {}
      BY <1>3, <1>7, <1>8, <2>3, ToSetEmpty, Zenon
    <3>. QED
      BY <3>1
  <2>4. CASE a = agg[n] \o tx[n].skb /\ o = <<>> /\ s = <<>>
    BY <1>3, <1>6, <2>4, ToSetEmpty, Zenon
  <2>. QED
    BY <1>1, <2>1, <2>2, <2>3, <2>4 DEF Pass
<1>. QED
  BY <1>0, <1>1, <1>2, <1>4, <1>9, FlowCollects DEF Becomes

\* The work item takes the buffer.
LEMMA FlowWork ==
  ASSUME Types, Forms, Flow, NEW n \in Nets, rmnet_usb_tx_agg_work(n)
  PROVE  Flow'
<1>0. /\ Form(n) /\ UNCHANGED <<qdisc, txq, wire, lost, made, tx>> /\ held[n] = <<>>
      /\ agg \in [Nets -> Seq(Pk)] /\ held \in [Nets -> Seq(Pk)]
  BY DEF Forms, rmnet_usb_tx_agg_work, sentVars, Types
<1>1. InOut(n)' = InOut(n) /\ InSkb(n)' = InSkb(n) /\ Sending' = Sending
  BY <1>0 DEF InOut, InSkb, Sending, InQdisc, InTxq, OnWire
<1>2. CASE agg' = agg /\ held' = held
  <2>1. InAgg(n)' = InAgg(n) /\ InHeld(n)' = InHeld(n)
    BY <1>2 DEF InAgg, InHeld
  <2>2. Older(n)' /\ Hand(n)' = Hand(n)
    BY <1>1, <2>1, FlowHas DEF Older, Hand, Before
  <2>3. Disjoint4(InAgg(n)', InHeld(n)', InOut(n)', InSkb(n)')
    BY <1>1, <2>1, FlowHas DEF Kept, Disjoint4
  <2>. QED
    BY <1>0, <1>2, <2>2, <2>3, HandMoves
<1>3. CASE held' = [held EXCEPT ![n] = agg[n]] /\ agg' = [agg EXCEPT ![n] = <<>>]
  <2>1. /\ held'[n] = agg[n] /\ agg'[n] = <<>>
        /\ \A m \in Nets \ {n} : agg'[m] = agg[m] /\ held'[m] = held[m]
    BY <1>0, <1>3
  <2>2. InAgg(n)' = {} /\ InHeld(n)' = InAgg(n) /\ InHeld(n) = {}
    BY <1>0, <2>1, ToSetEmpty DEF InAgg, InHeld
  <2>3. InAgg(n) = {} \/ InOut(n) = {}
    BY <1>0, ToSetEmpty DEF Form, InAgg, InOut
  <2>4. Hand(n)' = Hand(n)
    BY <1>1, <2>2 DEF Hand
  <2>5. Disjoint4(InAgg(n)', InHeld(n)', InOut(n)', InSkb(n)')
    BY <1>1, <2>2, FlowHas DEF Kept, Disjoint4
  <2>6. Older(n)'
    BY <1>1, <2>2, <2>3, FlowHas DEF Older, Before
  <2>. QED
    BY <1>0, <2>1, <2>4, <2>5, <2>6, HandMoves
<1>. QED
  BY <1>2, <1>3 DEF rmnet_usb_tx_agg_work

LEMMA FlowXmit ==
  ASSUME Types, Forms, Flow, NEW n \in Nets, TxXmit(n)
  PROVE  Flow'
<1>0. Form(n) /\ UNCHANGED <<txq, wire, made, agg, held>> /\ tx[n] \in Xmit
  BY DEF Forms, TxXmit, aggVars, Types
<1>1. PICK p : Becomes(n, p, tx[n].skb, <<>>)
  BY TxDoes
<1>2. InAgg(n)' = InAgg(n) /\ InHeld(n)' = InHeld(n) /\ InOut(n)' = {} /\ InSkb(n)' = InSkb(n)
  <2>1. InOut(n)' = ToSet(<<>>) /\ InSkb(n)' = ToSet(tx[n].skb)
    BY <1>1, BecomesSets
  <2>. QED
    BY <1>0, <2>1, ToSetEmpty DEF InAgg, InHeld, InSkb
<1>3. CASE tx[n].out = <<>>
  BY <1>0, <1>1, <1>3, FlowSame DEF TxXmit
<1>4. CASE tx[n].out # <<>>
  <2> DEFINE f == [pkts |-> tx[n].out, hook |-> tx[n].hook]
  <2>1. f \in Frame /\ f.pkts = tx[n].out
    BY <1>0 DEF Xmit, Frame
  <2>2. Enqueue(f)
    BY <1>4 DEF TxXmit
  <2> HIDE DEF f
  <2>3. InOut(n) = ToSet(f.pkts) /\ InOut(n) \subseteq Hand(n)
    BY <2>1 DEF InOut, Hand
  <2>4. \/ lost' = lost \cup InOut(n) /\ qdisc' = qdisc
        \/ lost' = lost /\ InQdisc' = InQdisc \cup InOut(n) /\ Apart(qdisc)'
    BY <2>1, <2>2, <2>3, EnqueueFlow
  <2>5. InAgg(n) = {}
    BY <1>0, <1>4, ToSetEmpty DEF Form, InAgg
  <2>6. Before(InOut(n), InAgg(n)' \cup InOut(n)' \cup InSkb(n)')
    BY <1>2, <2>5, FlowHas DEF Older, Before
  <2>7. Hand(n)' = Hand(n) \ InOut(n)
    BY <1>2, FlowHas DEF Hand, Kept, Disjoint4
  <2>8. \A m \in Nets \ {n} : agg'[m] = agg[m] /\ held'[m] = held[m] /\ tx'[m] = tx[m]
    BY <1>0, <1>1 DEF Becomes
  <2>9. /\ InAgg(n)' \subseteq InAgg(n) /\ InHeld(n)' \subseteq InHeld(n)
        /\ InOut(n)' \subseteq InOut(n) /\ InSkb(n)' \subseteq InSkb(n)
    BY <1>2
  <2>. QED
    BY <1>0, <2>3, <2>4, <2>6, <2>7, <2>8, <2>9, HandLeaves
<1>. QED
  BY <1>3, <1>4

LEMMA FlowWorkXmit ==
  ASSUME Types, Flow, NEW n \in Nets, WorkXmit(n)
  PROVE  Flow'
<1>0. UNCHANGED <<txq, wire, made, agg, tx>> /\ held \in [Nets -> Seq(Pk)]
  BY DEF WorkXmit, Types
<1>1. held'[n] = <<>> /\ \A m \in Nets \ {n} : held'[m] = held[m]
  BY <1>0 DEF WorkXmit
<1>2. InAgg(n)' = InAgg(n) /\ InHeld(n)' = {} /\ InOut(n)' = InOut(n) /\ InSkb(n)' = InSkb(n)
  BY <1>0, <1>1, ToSetEmpty DEF InAgg, InHeld, InOut, InSkb
<1> DEFINE f == [pkts |-> held[n], hook |-> FALSE]
<1>3. FALSE \in BOOLEAN
  BY Zenon
<1>4. f \in Frame /\ f.pkts = held[n]
  BY <1>0, <1>3 DEF Frame
<1>5. Enqueue(f)
  BY DEF WorkXmit
<1> HIDE DEF f
<1>6. InHeld(n) = ToSet(f.pkts) /\ InHeld(n) \subseteq Hand(n)
  BY <1>4 DEF InHeld, Hand
<1>7. \/ lost' = lost \cup InHeld(n) /\ qdisc' = qdisc
      \/ lost' = lost /\ InQdisc' = InQdisc \cup InHeld(n) /\ Apart(qdisc)'
  BY <1>4, <1>5, <1>6, EnqueueFlow
<1>8. Before(InHeld(n), InAgg(n)' \cup InOut(n)' \cup InSkb(n)')
  BY <1>2, FlowHas DEF Older, Before
<1>9. Hand(n)' = Hand(n) \ InHeld(n)
  BY <1>2, FlowHas DEF Hand, Kept, Disjoint4
<1>10. \A m \in Nets \ {n} : agg'[m] = agg[m] /\ held'[m] = held[m] /\ tx'[m] = tx[m]
  BY <1>0, <1>1
<1>11. /\ InAgg(n)' \subseteq InAgg(n) /\ InHeld(n)' \subseteq InHeld(n)
       /\ InOut(n)' \subseteq InOut(n) /\ InSkb(n)' \subseteq InSkb(n)
  BY <1>2
<1>. QED
  BY <1>0, <1>6, <1>7, <1>8, <1>9, <1>10, <1>11, HandLeaves

\* What disconnect frees, and what start_xmit loses to a freed buffer.
LEMMA FlowFreed ==
  ASSUME Types, Forms, Flow, NEW n \in Nets, UnregFree(n) \/ TxAggFreed(n)
  PROVE  Flow'
<1>1. CASE UnregFree(n)
  <2>0. UNCHANGED <<qdisc, txq, wire, made, held, tx>> /\ agg \in [Nets -> Seq(Pk)]
    BY <1>1 DEF UnregFree, sentVars, Types
  <2>1. lost' = lost \cup InAgg(n) /\ agg'[n] = <<>> /\ \A m \in Nets \ {n} : agg'[m] = agg[m]
    BY <1>1, <2>0 DEF UnregFree, InAgg
  <2>2. InAgg(n)' = {} /\ InHeld(n)' = InHeld(n) /\ InOut(n)' = InOut(n) /\ InSkb(n)' = InSkb(n)
    BY <2>0, <2>1, ToSetEmpty DEF InAgg, InHeld, InOut, InSkb
  <2>3. Hand(n)' = Hand(n) \ InAgg(n) /\ InAgg(n) \subseteq Hand(n)
    BY <2>2, FlowHas DEF Hand, Kept, Disjoint4
  <2>4. /\ InAgg(n)' \subseteq InAgg(n) /\ InHeld(n)' \subseteq InHeld(n)
        /\ InOut(n)' \subseteq InOut(n) /\ InSkb(n)' \subseteq InSkb(n)
    BY <2>2
  <2>. QED
    BY <2>0, <2>1, <2>3, <2>4, HandLeaves
<1>2. CASE TxAggFreed(n)
  <2>0. UNCHANGED <<qdisc, txq, wire, made, held, agg>> /\ Form(n) /\ tx[n].pc = "agg"
    BY <1>2 DEF TxAggFreed, aggVars, sentVars, At, Forms
  <2>1. Becomes(n, "idle", <<>>, <<>>) /\ lost' = lost \cup InSkb(n)
    BY <1>2, TxDoes DEF TxAggFreed, InSkb
  <2>2. InAgg(n)' = InAgg(n) /\ InHeld(n)' = InHeld(n) /\ InOut(n)' = {} /\ InSkb(n)' = {} /\ InOut(n) = {}
    <3>1. InOut(n)' = ToSet(<<>>) /\ InSkb(n)' = ToSet(<<>>)
      BY <2>1, BecomesSets
    <3>. QED
      BY <2>0, <3>1, ToSetEmpty DEF InAgg, InHeld, InOut, Form
  <2>3. Hand(n)' = Hand(n) \ InSkb(n) /\ InSkb(n) \subseteq Hand(n)
    BY <2>2, FlowHas DEF Hand, Kept, Disjoint4
  <2>4. /\ InAgg(n)' \subseteq InAgg(n) /\ InHeld(n)' \subseteq InHeld(n)
        /\ InOut(n)' \subseteq InOut(n) /\ InSkb(n)' \subseteq InSkb(n)
    BY <2>2
  <2>. QED
    BY <2>0, <2>1, <2>3, <2>4, HandLeaves DEF Becomes
<1>. QED
  BY <1>1, <1>2

LEMMA FlowRealXmit ==
  ASSUME Types, Flow, RealXmit
  PROVE  Flow'
<1>0. /\ UNCHANGED <<agg, held, tx, made, wire, lost>> /\ qdisc \in Seq(Frame) /\ txq \in Seq(Frame)
      /\ qdisc # <<>> /\ txq' = Append(txq, Head(qdisc)) /\ qdisc' = Tail(qdisc)
  BY DEF RealXmit, aggVars, Types
<1>1. PICK X : X = ToSet(Head(qdisc).pkts)
  OBVIOUS
<1>2. Apart(qdisc) /\ Apart(txq) /\ Disjoint4(InQdisc, InTxq, OnWire, lost)
  BY FlowHas
<1>3. /\ Head(qdisc) \in Frame /\ Pkts(ToSet(qdisc)) = X \cup Pkts(ToSet(Tail(qdisc)))
      /\ Apart(Tail(qdisc)) /\ X \cap Pkts(ToSet(Tail(qdisc))) = {}
  BY <1>0, <1>1, <1>2, QueueFacts
<1>4. InQdisc' = Pkts(ToSet(Tail(qdisc))) /\ InQdisc = X \cup InQdisc' /\ X \cap InQdisc' = {} /\ Apart(qdisc)'
  BY <1>0, <1>3, Zenon DEF InQdisc, Apart
<1>5. InTxq \cap X = {}
  BY <1>2, <1>4 DEF Disjoint4
<1>6. Pkts(ToSet(Append(txq, Head(qdisc)))) = Pkts(ToSet(txq)) \cup X /\ Apart(Append(txq, Head(qdisc)))
  BY <1>0, <1>1, <1>2, <1>3, <1>5, QueueFacts DEF InTxq
<1>7. InTxq' = InTxq \cup X /\ Apart(txq)'
  BY <1>0, <1>6, Zenon DEF InTxq, Apart
<1>8. OnWire' = OnWire
  BY <1>0 DEF OnWire
<1>9. Left' = Left /\ Sending' = Sending /\ Disjoint4(InQdisc', InTxq', OnWire', lost')
  BY <1>0, <1>2, <1>4, <1>7, <1>8 DEF Left, Sending, Disjoint4
<1>. QED
  BY <1>0, <1>4, <1>7, <1>9, LeftMoves

LEMMA FlowComplete ==
  ASSUME Types, Flow, Complete
  PROVE  Flow'
<1>0. /\ UNCHANGED <<agg, held, tx, made, qdisc, lost>> /\ txq \in Seq(Frame) /\ wire \in Seq(Pk)
      /\ txq # <<>> /\ txq' = Tail(txq) /\ wire' = wire \o Head(txq).pkts
  BY DEF Complete, aggVars, Types
<1>1. PICK X : X = ToSet(Head(txq).pkts)
  OBVIOUS
<1>2. Apart(qdisc) /\ Apart(txq) /\ Disjoint4(InQdisc, InTxq, OnWire, lost)
  BY FlowHas
<1>3. /\ Head(txq) \in Frame /\ Pkts(ToSet(txq)) = X \cup Pkts(ToSet(Tail(txq)))
      /\ Apart(Tail(txq)) /\ X \cap Pkts(ToSet(Tail(txq))) = {}
  BY <1>0, <1>1, <1>2, QueueFacts
<1>4. InTxq' = Pkts(ToSet(Tail(txq))) /\ InTxq = X \cup InTxq' /\ X \cap InTxq' = {} /\ Apart(txq)'
  BY <1>0, <1>3, Zenon DEF InTxq, Apart
<1>5. OnWire' = OnWire \cup X
  <2>1. Head(txq).pkts \in Seq(Pk)
    BY <1>3 DEF Frame
  <2>2. ToSet(wire \o Head(txq).pkts) = ToSet(wire) \cup X
    BY <1>0, <1>1, <2>1, ToSetFacts
  <2>. QED
    BY <1>0, <2>2, Zenon DEF OnWire
<1>6. InQdisc' = InQdisc /\ Apart(qdisc)'
  BY <1>0, <1>2 DEF InQdisc, Apart
<1>7. Left' = Left /\ Sending' = Sending /\ Disjoint4(InQdisc', InTxq', OnWire', lost')
  BY <1>0, <1>2, <1>4, <1>5, <1>6 DEF Left, Sending, Disjoint4
<1>. QED
  BY <1>0, <1>4, <1>6, <1>7, LeftMoves

\* The real device frees all it has queued.
LEMMA FlowDown ==
  ASSUME Types, Flow, usbnet_disconnect \/ \E n \in Nets : StopReal(n)
  PROVE  Flow'
<1>0. /\ UNCHANGED <<agg, held, tx, made, wire>> /\ qdisc' = <<>> /\ txq' = <<>>
      /\ lost' = lost \cup Pkts(ToSet(qdisc \o txq)) /\ qdisc \in Seq(Frame) /\ txq \in Seq(Frame)
  BY DEF usbnet_disconnect, StopReal, aggVars, Types
<1>1. Pkts(ToSet(qdisc \o txq)) = InQdisc \cup InTxq
  <2>1. ToSet(qdisc \o txq) = ToSet(qdisc) \cup ToSet(txq)
    BY <1>0, ToSetFacts
  <2>2. Pkts(ToSet(qdisc) \cup ToSet(txq)) = Pkts(ToSet(qdisc)) \cup Pkts(ToSet(txq))
    BY DEF Pkts
  <2>. QED
    BY <2>1, <2>2, Zenon DEF InQdisc, InTxq
<1>2. lost' = lost \cup InQdisc \cup InTxq
  BY <1>0, <1>1
<1>3. InQdisc' = {} /\ InTxq' = {}
  BY <1>0, ToSetEmpty, PktsEmpty, Zenon DEF InQdisc, InTxq
<1>4. OnWire' = OnWire
  BY <1>0 DEF OnWire
<1>5. Apart(qdisc)' /\ Apart(txq)'
  BY <1>0 DEF Apart
<1>6. Left' = Left /\ Sending' \subseteq Sending /\ Disjoint4(InQdisc', InTxq', OnWire', lost')
  BY <1>2, <1>3, <1>4, FlowHas DEF Left, Sending, Disjoint4
<1>. QED
  BY <1>0, <1>5, <1>6, LeftMoves

\* The stack hands over a packet younger than all before it.
LEMMA FlowMakes ==
  ASSUME Types, Forms, Flow, NEW n \in Nets, NEW own \in BOOLEAN, rmnet_vnd_start_xmit(n, own)
  PROVE  Flow'
<1>0. /\ UNCHANGED <<qdisc, txq, wire, lost, agg, held>> /\ Form(n) /\ tx[n].pc = "idle"
      /\ made \in [Nets -> Nat]
  BY DEF rmnet_vnd_start_xmit, aggVars, sentVars, At, Forms, Types
<1>1. tx[n].skb = <<>> /\ tx[n].out = <<>>
  BY <1>0 DEF Form
<1>2. CASE Becomes(n, "busy", tx[n].skb, tx[n].out) /\ made' = made
  BY <1>0, <1>2, FlowSame
<1>3. CASE /\ Becomes(n, "agg", << <<n, made[n] + 1>> >>, <<>>)
           /\ made' = [made EXCEPT ![n] = made[n] + 1]
  <2>1. PICK x : x = <<n, made[n] + 1>>
    OBVIOUS
  <2>2. x[1] = n /\ x[2] = made[n] + 1 /\ made'[n] = made[n] + 1 /\ \A m \in Nets \ {n} : made'[m] = made[m]
    BY <1>0, <1>3, <2>1
  <2>3. Made(n)' = Made(n) \cup {x} /\ x \notin Made(n)
    <3>1. 1 .. made[n] + 1 = (1 .. made[n]) \cup {made[n] + 1} /\ made[n] + 1 \notin 1 .. made[n]
      BY <1>0
    <3>2. Made(n)' = {<<n, k>> : k \in 1 .. made[n] + 1}
      BY <2>2 DEF Made
    <3>. QED
      BY <2>1, <2>2, <3>1, <3>2, MadeTag DEF Made
  <2>4. \A m \in Nets \ {n} : Made(m)' = Made(m)
    BY <2>2 DEF Made
  <2>5. InAgg(n)' = InAgg(n) /\ InHeld(n)' = InHeld(n) /\ InOut(n) = {} /\ InSkb(n) = {}
    BY <1>0, <1>1, ToSetEmpty DEF InAgg, InHeld, InOut, InSkb
  <2>6. InOut(n)' = {} /\ InSkb(n)' = {x}
    <3>1. InOut(n)' = ToSet(<<>>) /\ InSkb(n)' = ToSet(<<x>>)
      BY <1>3, <2>1, BecomesSets
    <3>2. ToSet(<<x>>) = {x}
      BY DEF ToSet
    <3>. QED
      BY <3>1, <3>2, ToSetEmpty
  <2>7. \A m \in Nets \ {n} : /\ InAgg(m)' = InAgg(m) /\ InHeld(m)' = InHeld(m)
                              /\ InOut(m)' = InOut(m) /\ InSkb(m)' = InSkb(m) /\ Hand(m)' = Hand(m)
    BY <1>0, <1>3 DEF InAgg, InHeld, InOut, InSkb, Hand, Becomes
  <2>8. /\ InQdisc' = InQdisc /\ InTxq' = InTxq /\ OnWire' = OnWire /\ Left' = Left /\ Sending' = Sending
        /\ Apart(qdisc)' /\ Apart(txq)' /\ Disjoint4(InQdisc', InTxq', OnWire', lost')
    BY <1>0, FlowHas DEF InQdisc, InTxq, OnWire, Left, Sending, Apart
  <2>9. x \notin Left /\ \A p \in Left : p[1] = n => p \in Made(n)
    <3>1. \A p \in Left : p[1] = n => p \in Made(n)
      BY FlowHas, MadeTag DEF Owned
    <3>. QED
      BY <2>2, <2>3, <3>1
  <2>10. ASSUME NEW m \in Nets \ {n} PROVE Kept(m)' /\ Older(m)'
    <3>1. Kept(m)'
      BY <2>4, <2>7, <2>8, FlowHas DEF Kept, Disjoint4
    <3>2. Older(m)'
      BY <2>7, <2>8, FlowHas DEF Older, Before
    <3>. QED
      BY <3>1, <3>2
  <2>11. Hand(n)' = Hand(n) \cup {x}
    BY <2>5, <2>6 DEF Hand
  <2>12. x \notin Hand(n)
    BY <2>3, FlowHas DEF Kept
  <2>13. Kept(n)'
    <3>1. Disjoint4(InAgg(n)', InHeld(n)', InOut(n)', InSkb(n)')
      BY <2>5, <2>6, <2>12, FlowHas DEF Kept, Disjoint4, Hand
    <3>2. Hand(n)' \subseteq Made(n)' /\ Hand(n)' \cap Left' = {} /\ Made(n)' \subseteq Hand(n)' \cup Left'
      BY <2>3, <2>8, <2>9, <2>11, FlowHas DEF Kept
    <3>. QED
      BY <3>1, <3>2 DEF Kept
  <2>14. Older(n)'
    <3>1. \A p \in Made(n) : p[2] < x[2]
      BY <1>0, <2>2, MadeTag
    <3>2. \A p \in Hand(n) : p[2] < x[2]
      BY <3>1, FlowHas DEF Kept
    <3>3. \A p \in Sending : p[1] = n => p[2] < x[2]
      BY <2>9, <3>1 DEF Sending, Left
    <3>4. Before(InAgg(n)' \cup InOut(n)', InSkb(n)')
      BY <2>5, <2>6, <3>2 DEF Before, Hand
    <3>5. Before(InHeld(n)', InAgg(n)' \cup InOut(n)' \cup InSkb(n)')
      BY <2>5, <2>6, <3>2, FlowHas DEF Before, Hand, Older
    <3>6. Before({p \in Sending' : p[1] = n}, InAgg(n)' \cup InOut(n)' \cup InSkb(n)')
      BY <2>5, <2>6, <2>8, <3>3, FlowHas DEF Before, Older
    <3>. QED
      BY <3>4, <3>5, <3>6 DEF Older
  <2>15. Owned'
    <3>1. \A m \in Nets : Made(m) \subseteq Made(m)'
      BY <2>3, <2>4
    <3>. QED
      BY <2>8, <3>1, FlowHas DEF Owned
  <2>. QED
    BY <2>8, <2>10, <2>13, <2>14, <2>15, FlowFrom
<1>. QED
  BY <1>2, <1>3, StartDoes

LEMMA FlowStill ==
  ASSUME Flow, UNCHANGED <<agg, held, tx, qdisc, txq, wire, made, lost>>
  PROVE  Flow'
<1>1. Left' = Left /\ Sending' = Sending /\ Disjoint4(InQdisc', InTxq', OnWire', lost')
  BY FlowHas DEF Left, Sending, InQdisc, InTxq, OnWire
<1>2. Apart(qdisc)' /\ Apart(txq)'
  BY FlowHas DEF Apart
<1>. QED
  BY <1>1, <1>2, LeftMoves

LEMMA FlowKept ==
  ASSUME Types, Forms, Flow, QmapNext
  PROVE  Flow'
<1>1. Rests => Flow'
  BY RestsKeep, FlowStill
<1>. QED
  BY <1>1, NextCases, FlowMakes, FlowTx, FlowAgg, FlowFreed, FlowXmit, FlowWork, FlowWorkXmit, FlowRealXmit,
     FlowComplete, FlowDown DEF Moves

-----------------------------------------------------------------------------
(* The invariant *)

LEMMA InitHolds ==
  ASSUME QmapInit
  PROVE  IInv
<1>0. PICK b \in Budgets : budget = b
  BY DEF QmapInit
<1>1. budget \in Budget
  BY <1>0, QmapAssumption DEF Budget, NetSets, Quotas
<1>2. Types
  <2>1. FALSE \in BOOLEAN
    BY Zenon
  <2>2. real \in Real
    BY <2>1 DEF QmapInit, Real
  <2>3. tasklet \in BOOLEAN /\ touched \in BOOLEAN
    BY <2>1, Zenon DEF QmapInit
  <2>4. agg \in [Nets -> Seq(Pk)] /\ held \in [Nets -> Seq(Pk)] /\ tx \in [Nets -> Xmit]
    BY IdleTypes DEF QmapInit
  <2>5. cm \in [Nets -> CmSteps] /\ leaving \in [Nets -> Steps] /\ made \in [Nets -> Nat]
    BY DEF QmapInit, CmSteps, Steps
  <2>6. store \in [Nets -> Store] /\ clash \subseteq Clashes
    BY RestingTypes DEF QmapInit
  <2>. QED
    BY <1>1, <2>2, <2>3, <2>4, <2>5, <2>6 DEF QmapInit, Types
<1>3. /\ \A n \in Nets : /\ agg[n] = <<>> /\ held[n] = <<>> /\ tx[n].pc = "idle" /\ tx[n].skb = <<>> /\ tx[n].out = <<>>
                         /\ made[n] = 0 /\ leaving[n] = "no" /\ cm[n] = "down"
      /\ qdisc = <<>> /\ txq = <<>> /\ wire = <<>> /\ lost = {}
  BY DEF QmapInit, Idle
<1>10. \A n \in Nets : store[n].pc = "idle" /\ ~store[n].net
  BY DEF QmapInit, Resting
<1>4. Forms /\ QueuesFit
  BY <1>3, QmapAssumption DEF Forms, Form, QueuesFit
<1>5. Sizes /\ Shape
  BY <1>4, FormsAre
<1>6. Flow
  <2>1. \A n \in Nets : InAgg(n) = {} /\ InHeld(n) = {} /\ InOut(n) = {} /\ InSkb(n) = {}
    BY <1>3, ToSetEmpty DEF InAgg, InHeld, InOut, InSkb
  <2>2. InQdisc = {} /\ InTxq = {} /\ OnWire = {}
    BY <1>3, ToSetEmpty, PktsEmpty, Zenon DEF InQdisc, InTxq, OnWire
  <2>3. \A n \in Nets : Made(n) = {} /\ Hand(n) = {}
    BY <1>3, <2>1 DEF Made, Hand
  <2>4. Left = {} /\ Sending = {}
    BY <1>3, <2>2 DEF Left, Sending
  <2>5. Apart(qdisc) /\ Apart(txq)
    BY <1>3 DEF Apart
  <2>6. FlowParts
    BY <1>3, <2>1, <2>2, <2>3, <2>4, <2>5 DEF FlowParts, Owned, Kept, Older, Before, Disjoint4
  <2>. QED
    BY <2>6, FlowIs
<1>7. WithinBudget
  BY <1>0, <1>1, <1>3 DEF WithinBudget, Budget, Quotas
<1>8. Ends
  BY <1>3, <1>10 DEF QmapInit, Ends, EndOf, FreedUsedOnlyInRace, Present
<1>9. Follows
  BY <1>3, <1>10 DEF QmapInit, Follows, Storing, StoreAt, Bits, RealTracks, Connects, Connected
<1>. QED
  BY <1>2, <1>5, <1>6, <1>7, <1>8, <1>9 DEF IInv

LEMMA StepKeeps ==
  ASSUME IInv, [QmapNext]_qmapVars
  PROVE  IInv'
<1>1. CASE QmapNext
  <2>1. Types'
    BY <1>1, NextCases, MovesTypes, RestsTypes DEF IInv
  <2>2. Forms /\ QueuesFit
    BY FormsAre DEF IInv
  <2>3. Forms' /\ QueuesFit'
    BY <1>1, <2>2, FormsKept, QueuesFitKept DEF IInv
  <2>4. Sizes' /\ Shape'
    BY <2>3, FormsAre, PTL
  <2>5. Flow'
    BY <1>1, <2>2, FlowKept DEF IInv
  <2>6. WithinBudget' /\ Ends' /\ Follows'
    BY <1>1, BudgetKept, EndsKept, FollowsKept DEF IInv
  <2>. QED
    BY <2>1, <2>4, <2>5, <2>6 DEF IInv
<1>2. CASE UNCHANGED qmapVars
  <2>1. /\ UNCHANGED <<reg, link, priv, store, clash, up, carrier, real, datagrams, agg, timer, work, held>>
        /\ UNCHANGED <<qdisc, txq, wire>>
        /\ UNCHANGED <<leaving, freed, raced, touched, stopped, tx, tasklet, cm, made, lost, budget>>
    BY <1>2 DEF qmapVars, devVars, linkVars, aggVars, sentVars, endVars
  <2>2. Types'
    BY <2>1 DEF IInv, Types
  <2>3. Sizes' /\ Shape'
    BY <2>1 DEF IInv, Sizes, Shape
  <2>4. Flow'
    BY <2>1, FlowStill DEF IInv
  <2>5. WithinBudget' /\ Ends' /\ Follows'
    BY <2>1 DEF IInv, WithinBudget, Ends, EndOf, FreedUsedOnlyInRace, Present, Follows, Storing, StoreAt, Bits,
                Connects, RealTracks
  <2>. QED
    BY <2>2, <2>3, <2>4, <2>5 DEF IInv
<1>. QED
  BY <1>1, <1>2

\* The invariant holds in every state of the uplink, with any number of
\* devices and any limits.
THEOREM UplinkInvariant == QmapSpec => []IInv
<1>1. QmapInit => IInv
  BY InitHolds
<1>2. IInv /\ [QmapNext]_qmapVars => IInv'
  BY StepKeeps
<1>. QED
  BY <1>1, <1>2, PTL DEF QmapSpec

\* Until the modem is disconnected, whatever calls of link_state_store() by
\* several managers are under way: a virtual device without one has a carrier
\* exactly when it is up and its context is connected, until a call writes back
\* a bit that another has changed meanwhile; and the real device has a carrier
\* whenever a connected device has one, until a call also sets its bit while
\* another that cleared its own still looks for one (link_state_store,
\* qmap_open, qmap_stop).
THEOREM CarriersAgree == QmapSpec => []CarrierAgrees
<1>1. ASSUME IInv, leaving = [n \in Nets |-> "no"], "lost" \notin clash PROVE CarrierAgrees
  <2>1. /\ up \subseteq reg /\ carrier = up \cap priv
        /\ \A n \in Nets : Bits(n)
        /\ "late" \notin clash => RealTracks
    BY <1>1 DEF IInv, Follows, Present
  <2>2. ASSUME NEW n \in Nets \ Storing PROVE n \in carrier <=> n \in up \cap link
    BY <2>1, <2>2 DEF Bits, Storing, StoreAt
  <2>. QED
    BY <2>1, <2>2 DEF CarrierAgrees, RealTracks
<1>2. IInv => CarrierAgrees
  BY <1>1 DEF CarrierAgrees
<1>. QED
  BY <1>2, UplinkInvariant, PTL

-----------------------------------------------------------------------------
(* The uplink *)

LEMMA TypesHold ==
  ASSUME IInv
  PROVE  QmapTypeOK
<1>0. Types /\ Sizes /\ Flow /\ WithinBudget
  BY DEF IInv
<1>1. \A n \in Nets : Made(n) \subseteq Packets
  <2> SUFFICES ASSUME NEW n \in Nets, NEW k \in 1 .. made[n] PROVE <<n, k>> \in Packets
    BY DEF Made
  <2>1. PICK b \in Budgets : b.pkts = budget.pkts
    BY <1>0 DEF WithinBudget
  <2>2. made[n] \in Nat /\ b.pkts[n] \in Nat /\ made[n] <= b.pkts[n]
    BY <1>0, <2>1 DEF WithinBudget, Types, Budget, Quotas
  <2>3. k \in 1 .. b.pkts[n]
    BY <2>2
  <2>4. <<n, k>> \in {<<n, i>> : i \in 1 .. b.pkts[n]}
    BY <2>3
  <2>5. {<<n, i>> : i \in 1 .. b.pkts[n]} \in {{<<m, i>> : i \in 1 .. c.pkts[m]} : m \in Nets, c \in Budgets}
    BY <2>1
  <2>6. \A S, T, x : x \in S /\ S \in T => x \in UNION T
    OBVIOUS
  <2> DEFINE T == {{<<m, i>> : i \in 1 .. c.pkts[m]} : m \in Nets, c \in Budgets}
  <2>7. Packets = UNION T
    BY DEF Packets
  <2> HIDE DEF T
  <2>8. {<<n, i>> : i \in 1 .. b.pkts[n]} \in T
    BY <2>5 DEF T
  <2>. QED
    BY <2>4, <2>6, <2>7, <2>8, Zenon
<1>2. Left \subseteq Packets
  BY <1>0, <1>1, FlowHas DEF Owned
<1>3. lost \subseteq Packets /\ ToSet(wire) \subseteq Packets
  BY <1>2 DEF Left, OnWire
<1>4. \A f \in ToSet(qdisc \o txq) : f.hook \in BOOLEAN /\ Len(f.pkts) \in 1 .. MaxDatagrams
  <2>1. qdisc \in Seq(Frame) /\ txq \in Seq(Frame)
    BY <1>0 DEF Types
  <2>2. ToSet(qdisc \o txq) = ToSet(qdisc) \cup ToSet(txq) /\ ToSet(qdisc) \subseteq Frame /\ ToSet(txq) \subseteq Frame
    BY <2>1, ToSetFacts
  <2>3. \A f \in ToSet(qdisc) \cup ToSet(txq) : FrameOK(f)
    BY <1>0, <2>1 DEF Sizes, ToSet
  <2>4. \A f \in ToSet(qdisc) \cup ToSet(txq) : f.hook \in BOOLEAN /\ Len(f.pkts) \in 1 .. MaxDatagrams
    BY <2>2, <2>3 DEF Frame, FrameOK
  <2>. QED
    BY <2>2, <2>4
<1>. QED
  BY <1>0, <1>3, <1>4 DEF Types, Sizes, QmapTypeOK, Real, Store

\* Exactly one of eight is true.
LEMMA OneOfEight ==
  ASSUME NEW w \in Seq(BOOLEAN), Len(w) = 8, NEW i \in 1 .. 8, w[i], \A j \in 1 .. 8 : w[j] => j = i
  PROVE  Cardinality({j \in DOMAIN w : w[j]}) = 1
<1>1. {j \in DOMAIN w : w[j]} = {i}
  OBVIOUS
<1>. QED
  BY <1>1, FS_Singleton, Zenon

LEMMA ConservedHolds ==
  ASSUME IInv
  PROVE  PacketsConserved
<1>0. Flow
  BY DEF IInv
<1> SUFFICES ASSUME NEW n \in Nets, NEW k \in 1 .. made[n], NEW p, p = <<n, k>>,
                    NEW w, w = <<p \in ToSet(agg[n]), p \in ToSet(held[n]), p \in ToSet(tx[n].out),
                                 p \in ToSet(tx[n].skb), p \in Pkts(ToSet(qdisc)), p \in Pkts(ToSet(txq)),
                                 p \in ToSet(wire), p \in lost>>
             PROVE  Cardinality({i \in DOMAIN w : w[i]}) = 1
  BY Zenon DEF PacketsConserved
<1>1. p \in Made(n)
  BY DEF Made
<1>2. p \in Hand(n) \cup Left /\ ~(p \in Hand(n) /\ p \in Left)
  BY <1>0, <1>1, FlowHas DEF Kept
<1>3. /\ w \in Seq(BOOLEAN) /\ Len(w) = 8
      /\ w[1] = (p \in InAgg(n)) /\ w[2] = (p \in InHeld(n)) /\ w[3] = (p \in InOut(n)) /\ w[4] = (p \in InSkb(n))
      /\ w[5] = (p \in InQdisc) /\ w[6] = (p \in InTxq) /\ w[7] = (p \in OnWire) /\ w[8] = (p \in lost)
  BY DEF InAgg, InHeld, InOut, InSkb, InQdisc, InTxq, OnWire
<1>4. /\ (w[1] <=> p \in InAgg(n)) /\ (w[2] <=> p \in InHeld(n)) /\ (w[3] <=> p \in InOut(n))
      /\ (w[4] <=> p \in InSkb(n)) /\ (w[5] <=> p \in InQdisc) /\ (w[6] <=> p \in InTxq)
      /\ (w[7] <=> p \in OnWire) /\ (w[8] <=> p \in lost)
  BY <1>3, Zenon
<1>5. /\ Disjoint4(InAgg(n), InHeld(n), InOut(n), InSkb(n)) /\ Disjoint4(InQdisc, InTxq, OnWire, lost)
      /\ p \in Hand(n) => p \notin Left
  BY <1>0, <1>2, FlowHas DEF Kept
<1>6. \A j \in 1 .. 8 : j = 1 \/ j = 2 \/ j = 3 \/ j = 4 \/ j = 5 \/ j = 6 \/ j = 7 \/ j = 8
  OBVIOUS
<1> SUFFICES \E i \in 1 .. 8 : w[i] /\ \A j \in 1 .. 8 : w[j] => j = i
  BY <1>3, OneOfEight, Zenon
<1>7. CASE p \in InAgg(n)
  <2>1. /\ p \notin InHeld(n) /\ p \notin InOut(n) /\ p \notin InSkb(n)
        /\ p \notin InQdisc /\ p \notin InTxq /\ p \notin OnWire /\ p \notin lost
    BY <1>5, <1>7 DEF Disjoint4, Hand, Left
  <2>2. w[1] /\ \A j \in 1 .. 8 : w[j] => j = 1
    BY <1>4, <1>6, <1>7, <2>1, Zenon
  <2>3. 1 \in 1 .. 8
    OBVIOUS
  <2>. QED
    BY <2>2, <2>3, Zenon
<1>8. CASE p \in InHeld(n)
  <2>1. /\ p \notin InAgg(n) /\ p \notin InOut(n) /\ p \notin InSkb(n)
        /\ p \notin InQdisc /\ p \notin InTxq /\ p \notin OnWire /\ p \notin lost
    BY <1>5, <1>8 DEF Disjoint4, Hand, Left
  <2>2. w[2] /\ \A j \in 1 .. 8 : w[j] => j = 2
    BY <1>4, <1>6, <1>8, <2>1, Zenon
  <2>3. 2 \in 1 .. 8
    OBVIOUS
  <2>. QED
    BY <2>2, <2>3, Zenon
<1>9. CASE p \in InOut(n)
  <2>1. /\ p \notin InAgg(n) /\ p \notin InHeld(n) /\ p \notin InSkb(n)
        /\ p \notin InQdisc /\ p \notin InTxq /\ p \notin OnWire /\ p \notin lost
    BY <1>5, <1>9 DEF Disjoint4, Hand, Left
  <2>2. w[3] /\ \A j \in 1 .. 8 : w[j] => j = 3
    BY <1>4, <1>6, <1>9, <2>1, Zenon
  <2>3. 3 \in 1 .. 8
    OBVIOUS
  <2>. QED
    BY <2>2, <2>3, Zenon
<1>10. CASE p \in InSkb(n)
  <2>1. /\ p \notin InAgg(n) /\ p \notin InHeld(n) /\ p \notin InOut(n)
        /\ p \notin InQdisc /\ p \notin InTxq /\ p \notin OnWire /\ p \notin lost
    BY <1>5, <1>10 DEF Disjoint4, Hand, Left
  <2>2. w[4] /\ \A j \in 1 .. 8 : w[j] => j = 4
    BY <1>4, <1>6, <1>10, <2>1, Zenon
  <2>3. 4 \in 1 .. 8
    OBVIOUS
  <2>. QED
    BY <2>2, <2>3, Zenon
<1>11. CASE p \in InQdisc
  <2>1. /\ p \notin InAgg(n) /\ p \notin InHeld(n) /\ p \notin InOut(n) /\ p \notin InSkb(n)
        /\ p \notin InTxq /\ p \notin OnWire /\ p \notin lost
    BY <1>5, <1>11 DEF Disjoint4, Hand, Left
  <2>2. w[5] /\ \A j \in 1 .. 8 : w[j] => j = 5
    BY <1>4, <1>6, <1>11, <2>1, Zenon
  <2>3. 5 \in 1 .. 8
    OBVIOUS
  <2>. QED
    BY <2>2, <2>3, Zenon
<1>12. CASE p \in InTxq
  <2>1. /\ p \notin InAgg(n) /\ p \notin InHeld(n) /\ p \notin InOut(n) /\ p \notin InSkb(n)
        /\ p \notin InQdisc /\ p \notin OnWire /\ p \notin lost
    BY <1>5, <1>12 DEF Disjoint4, Hand, Left
  <2>2. w[6] /\ \A j \in 1 .. 8 : w[j] => j = 6
    BY <1>4, <1>6, <1>12, <2>1, Zenon
  <2>3. 6 \in 1 .. 8
    OBVIOUS
  <2>. QED
    BY <2>2, <2>3, Zenon
<1>13. CASE p \in OnWire
  <2>1. /\ p \notin InAgg(n) /\ p \notin InHeld(n) /\ p \notin InOut(n) /\ p \notin InSkb(n)
        /\ p \notin InQdisc /\ p \notin InTxq /\ p \notin lost
    BY <1>5, <1>13 DEF Disjoint4, Hand, Left
  <2>2. w[7] /\ \A j \in 1 .. 8 : w[j] => j = 7
    BY <1>4, <1>6, <1>13, <2>1, Zenon
  <2>3. 7 \in 1 .. 8
    OBVIOUS
  <2>. QED
    BY <2>2, <2>3, Zenon
<1>14. CASE p \in lost
  <2>1. /\ p \notin InAgg(n) /\ p \notin InHeld(n) /\ p \notin InOut(n) /\ p \notin InSkb(n)
        /\ p \notin InQdisc /\ p \notin InTxq /\ p \notin OnWire
    BY <1>5, <1>14 DEF Disjoint4, Hand, Left
  <2>2. w[8] /\ \A j \in 1 .. 8 : w[j] => j = 8
    BY <1>4, <1>6, <1>14, <2>1, Zenon
  <2>3. 8 \in 1 .. 8
    OBVIOUS
  <2>. QED
    BY <2>2, <2>3, Zenon
<1>. QED
  BY <1>2, <1>7, <1>8, <1>9, <1>10, <1>11, <1>12, <1>13, <1>14 DEF Hand, Left

LEMMA OrderHolds ==
  ASSUME IInv
  PROVE  OvertakenOnlyInWork
<1>0. Flow /\ Types
  BY DEF IInv
<1> SUFFICES ASSUME NEW n \in Nets, NEW j \in 1 .. made[n], NEW k \in 1 .. made[n], j < k,
                    <<n, k>> \in Sent, <<n, j>> \in Taken(n), <<n, j>> \notin ToSet(held[n])
             PROVE  FALSE
  BY DEF OvertakenOnlyInWork
<1>1. <<n, k>> \in Sending
  <2>1. ToSet(qdisc \o txq) = ToSet(qdisc) \cup ToSet(txq)
    BY <1>0, ToSetFacts DEF Types
  <2>2. Pkts(ToSet(qdisc) \cup ToSet(txq)) = Pkts(ToSet(qdisc)) \cup Pkts(ToSet(txq))
    BY DEF Pkts
  <2>3. Sent = Sending
    BY <2>1, <2>2, Zenon DEF Sent, Sending, InQdisc, InTxq, OnWire
  <2>. QED
    BY <2>3
<1>2. <<n, j>> \in InAgg(n) \cup InOut(n) \cup InSkb(n)
  BY DEF Taken, InAgg, InOut, InSkb
<1>3. k < j
  <2>1. <<n, k>> \in {p \in Sending : p[1] = n}
    BY <1>1
  <2>2. <<n, k>>[2] < <<n, j>>[2]
    BY <1>0, <1>2, <2>1, FlowHas, Zenon DEF Older, Before
  <2>. QED
    BY <2>2
<1>4. made[n] \in Nat
  BY <1>0 DEF Types
<1>. QED
  BY <1>3, <1>4

\* A packet taken from the stack is in exactly one place, is overtaken only
\* while the work item holds it behind agg_lock, and a freed buffer is used only
\* by the start_xmit that ran when the queue was stopped, or by the timer it
\* armed (rmnet_usb_tx_agg, rmnet_usb_tx_agg_work, qmap_unregister_device).
THEOREM UplinkIsInOrder == QmapSpec => []UplinkInOrder
<1>1. IInv => UplinkInOrder
  BY TypesHold, ConservedHolds, OrderHolds DEF IInv, Ends, UplinkInOrder
<1>. QED
  BY <1>1, UplinkInvariant, PTL

-----------------------------------------------------------------------------
(* The downlink: the inductive invariant *)

Packet == [id : Nat, mux : Nat, cd : BOOLEAN, ip : BOOLEAN, pay : Nat, cut : BOOLEAN]
Skb == [id : Nat, mux : Muxes, len : 0 .. MaxPay]

DataTypes ==
  /\ mode \in {"raw", "qmap", "rmnet"} /\ present \subseteq Muxes
  /\ minPad \in {0, MinPad} /\ usedPad \in {0, MinPad} /\ linkOn \in BOOLEAN
  /\ rxpc \in {"idle", "decode", "ended", "error"}
  /\ given \in Transfers \cup {<<>>} /\ left \in Seq(Packet) /\ got \in Seq(Skb)
  /\ bridge \in BOOLEAN /\ mac \in Hosts \cup {"none"} /\ bridged \in Hosts \cup {"none"}
  /\ dest \in Hosts \cup {"none", "self"} /\ rounds \in 0 .. MaxRounds

\* How many packets of the transfer were looked at; the rest is left.
Looked == Len(given) - Len(left)

RestIsLeft ==
  /\ Len(left) <= Len(given)
  /\ \A i \in 1 .. Len(left) : left[i] = given[Looked + i]
  /\ rxpc = "decode" => left # <<>>
  /\ rxpc = "ended" => left = <<>>

\* The chain comes from the packets looked at, in their order.
FromLooked(i, j) ==
  /\ given[j].id = got[i].id /\ given[j].mux = got[i].mux
  /\ usedPad = MinPad => got[i].len = given[j].pay

ChainIsLooked ==
  \A i \in 1 .. Len(got) : \E j \in 1 .. Looked :
    FromLooked(i, j) /\ (i > 1 => got[i].id > got[i - 1].id)

\* What was looked at and has a device is in the chain.
LookedIsChained ==
  \A j \in 1 .. Looked :
    ~given[j].cd /\ given[j].mux \in present => \E i \in 1 .. Len(got) : got[i].id = given[j].id

DataInv == DataTypes /\ RestIsLeft /\ ChainIsLooked /\ LookedIsChained /\ OneHostServed

-----------------------------------------------------------------------------
(* The downlink: lemmas about the operators *)

\* A transfer is a sequence of packets numbered in their order.
LEMMA TransferOK ==
  ASSUME NEW t \in Transfers \cup {<<>>}
  PROVE  /\ t \in Seq(Packet) /\ DOMAIN t = 1 .. Len(t) /\ Len(t) \in Nat
         /\ \A i \in 1 .. Len(t) : t[i] \in Packet
         /\ \A i, j \in 1 .. Len(t) : i < j => t[i].id < t[j].id
<1>1. t \in Seq(Packet)
  BY DataAssumption, EmptySeq DEF Packet
<1>2. DOMAIN t = 1 .. Len(t) /\ Len(t) \in Nat /\ \A i \in 1 .. Len(t) : t[i] \in Packet
  BY <1>1, LenProperties, ElementOfSeq
<1>3. CASE t = <<>>
  BY <1>1, <1>2, <1>3
<1>4. CASE t \in Transfers
  BY <1>1, <1>2, <1>4, TransferAssumption
<1> QED BY <1>3, <1>4

\* IsSuffix of the community modules, place by place.
LEMMA SuffixByPlace ==
  ASSUME NEW S, NEW s \in Seq(S), NEW t \in Seq(S), Len(s) <= Len(t),
         \A i \in 1 .. Len(s) : s[i] = t[Len(t) - Len(s) + i]
  PROVE  IsSuffix(s, t)
<1> DEFINE rs == Reverse(s)
           rt == Reverse(t)
<1>1. Len(s) \in Nat /\ Len(t) \in Nat
  BY LenProperties
<1>2. rs = [i \in 1 .. Len(s) |-> s[(Len(s) - i) + 1]] /\ Len(rs) = Len(s)
  BY <1>1 DEF Reverse
<1>3. rt = [i \in 1 .. Len(t) |-> t[(Len(t) - i) + 1]] /\ Len(rt) = Len(t)
  BY <1>1 DEF Reverse
<1>4. ASSUME NEW i \in 1 .. Len(s)
      PROVE  rs[i] = rt[i]
  <2>1. (Len(s) - i) + 1 \in 1 .. Len(s)
    BY <1>1
  <2>2. s[(Len(s) - i) + 1] = t[Len(t) - Len(s) + ((Len(s) - i) + 1)]
    BY <2>1
  <2>3. Len(t) - Len(s) + ((Len(s) - i) + 1) = (Len(t) - i) + 1
    BY <1>1
  <2>4. i \in 1 .. Len(t)
    BY <1>1
  <2> QED BY <1>2, <1>3, <2>2, <2>3, <2>4
<1> HIDE DEF rs, rt
<1>5. SubSeq(rs, 1, Len(rs)) = SubSeq(rt, 1, Len(rs))
  BY <1>1, <1>2, <1>4 DEF SubSeq
<1> QED BY <1>1, <1>2, <1>3, <1>5 DEF IsSuffix, IsPrefix, rs, rt

\* The length a delivered packet is given.
LEMMA SkbLenOK ==
  ASSUME NEW p \in Packet, usedPad \in {0, MinPad}, Verdict(p) = "deliver"
  PROVE  /\ SkbLen(p) \in 0 .. MaxPay /\ (usedPad = MinPad => SkbLen(p) = p.pay)
         /\ ~p.cd /\ p.mux \in Muxes /\ p.mux \in present
<1>1. p.pay \in Nat /\ MinPad \in Nat /\ MaxPay \in Nat
  BY DataAssumption DEF Packet
<1>2. Pad(p.pay) \in Nat
  BY <1>1 DEF Pad
<1>3. SkbLen(p) = p.pay + MinPad - usedPad
  BY <1>1, <1>2 DEF SkbLen, PktLen
<1>4. ~(SkbLen(p) > MaxPay) /\ ~p.cd /\ p.mux \in Muxes /\ p.mux \in present
  BY DEF Verdict
<1> QED BY <1>1, <1>3, <1>4

\* A packet that is skipped costs nothing.
LEMMA SkipOK ==
  ASSUME NEW p, Verdict(p) = "skip"
  PROVE  p.cd \/ p.mux \notin present
BY DEF Verdict

-----------------------------------------------------------------------------
(* The downlink: preservation *)

\* A step that leaves the receive path alone and adds no device.
LEMMA RxUntouched ==
  ASSUME DataInv, UNCHANGED rxVars, present' \subseteq present
  PROVE  RestIsLeft' /\ ChainIsLooked' /\ LookedIsChained'
BY DEF rxVars, DataInv, RestIsLeft, ChainIsLooked, LookedIsChained, FromLooked, Looked

\* The settings, the devices and single frames.
LEMMA OthersKeep ==
  ASSUME DataInv,
         \/ NoHeadroom \/ PadStored \/ LinkStored \/ bridge_mode_store
         \/ \E m \in Muxes : NetGone(m)
         \/ \E h \in Hosts, k \in Kinds : qmap_qmi_wwan_tx_fixup(h, k)
         \/ \E k \in {"ip4", "ip6", "unicast", "multicast", "other", "short"} : RawArrives(k)
  PROVE  DataInv'
<1> USE DEF DataInv
<1>1. UNCHANGED rxVars /\ present' \subseteq present
  BY DEF NoHeadroom, PadStored, LinkStored, bridge_mode_store, NetGone, Round, rxVars, hostVars,
         qmap_qmi_wwan_tx_fixup, RawArrives
<1>2. RestIsLeft' /\ ChainIsLooked' /\ LookedIsChained'
  BY <1>1, RxUntouched
<1>3. DataTypes' /\ OneHostServed'
  <2>0. /\ MaxRounds \in Nat /\ (Round => rounds' \in 0 .. MaxRounds)
        /\ mac = bridged /\ rounds \in 0 .. MaxRounds
    BY DataAssumption DEF Round, DataTypes, OneHostServed
  <2>1. ASSUME NEW h \in Hosts, NEW k \in Kinds, qmap_qmi_wwan_tx_fixup(h, k)
        PROVE  mac' = bridged' /\ mac' \in Hosts \cup {"none"}
    <3>1. CASE UNCHANGED <<mac, bridged>>
      BY <3>1, <2>0 DEF DataTypes
    <3>2. CASE /\ mac' = Learned(h, k).mac
               /\ bridged' = IF Learned(h, k).passes THEN h ELSE bridged
      <4>1. CASE k = "dhcp"
        BY <4>1, <3>2, <2>0 DEF Learned, DataTypes
      <4>2. CASE k = "arp"
        BY <4>2, <3>2, <2>0 DEF Learned, DataTypes
      <4>3. CASE k = "ip"
        BY <4>3, <3>2, <2>0 DEF Learned, DataTypes
      <4> QED BY <4>1, <4>2, <4>3 DEF Kinds
    <3> QED BY <2>1, <3>1, <3>2 DEF qmap_qmi_wwan_tx_fixup, qmi_wwan_tx_fixup
  <2>2. CASE \E h \in Hosts, k \in Kinds : qmap_qmi_wwan_tx_fixup(h, k)
    BY <2>0, <2>1, <2>2 DEF qmap_qmi_wwan_tx_fixup, DataTypes, OneHostServed, rxVars
  <2>3. CASE NoHeadroom \/ PadStored \/ LinkStored
    BY <2>0, <2>3 DEF NoHeadroom, PadStored, LinkStored, DataTypes, OneHostServed, rxVars, hostVars
  <2>4. CASE bridge_mode_store
    <3>1. bridge' \in BOOLEAN
      BY <2>4, Zenon DEF bridge_mode_store
    <3> QED BY <2>4, <3>1 DEF bridge_mode_store, DataTypes, OneHostServed, rxVars
  <2>5. CASE \E m \in Muxes : NetGone(m)
    BY <2>5 DEF NetGone, DataTypes, OneHostServed, rxVars, hostVars
  <2>6. CASE \E k \in {"ip4", "ip6", "unicast", "multicast", "other", "short"} : RawArrives(k)
    BY <2>0, <2>6 DEF RawArrives, Destination, DataTypes, OneHostServed, rxVars
  <2> QED BY <2>2, <2>3, <2>4, <2>5, <2>6
<1> QED BY <1>2, <1>3

\* A new transfer: nothing is looked at yet.
LEMMA DecodeKeeps ==
  ASSUME DataInv, NEW t \in Transfers,
         qmap_qmi_wwan_rx_fixup(t) \/ rmnet_usb_rx_handler(t)
  PROVE  DataInv'
<1> USE DEF DataInv
<1>1. Decode(t)
  BY DEF qmap_qmi_wwan_rx_fixup, rmnet_usb_rx_handler
<1>2. t \in Seq(Packet) /\ t # <<>> /\ Len(t) \in Nat
  BY TransferOK, TransferAssumption
<1>3. got' = <<>> /\ Len(got') = 0 /\ got' \in Seq(Skb)
  BY <1>1, EmptySeq DEF Decode
<1>4. DataTypes' /\ OneHostServed'
  BY <1>1, <1>2, <1>3, DataAssumption DEF Decode, Round, DataTypes, OneHostServed, hostVars
<1>5. Looked' = 0 /\ left' = given' /\ rxpc' = "decode" /\ given' = t
  BY <1>1, <1>2 DEF Decode, Looked
<1>6. RestIsLeft'
  BY <1>2, <1>5 DEF RestIsLeft
<1>7. ChainIsLooked' /\ LookedIsChained'
  BY <1>3, <1>5 DEF ChainIsLooked, LookedIsChained
<1> QED BY <1>4, <1>6, <1>7

\* One packet is looked at: a facts lemma about what is left after it.
LEMMA LookFacts ==
  ASSUME DataInv, rxpc = "decode"
  PROVE  /\ Head(left) = given[Looked + 1] /\ Looked + 1 \in 1 .. Len(given) /\ Looked \in Nat
         /\ Head(left) \in Packet /\ given \in Transfers \cup {<<>>} /\ Len(left) \in Nat \ {0}
         /\ Tail(left) \in Seq(Packet) /\ Len(Tail(left)) = Len(left) - 1
         /\ \A i \in 1 .. Len(left) - 1 : Tail(left)[i] = given[Looked + 1 + i]
<1>1. left \in Seq(Packet) /\ left # <<>> /\ given \in Transfers \cup {<<>>}
  BY DEF DataInv, DataTypes, RestIsLeft
<1>2. Len(left) \in Nat \ {0} /\ Len(given) \in Nat
  BY <1>1, EmptySeq, TransferOK
<1>3. Looked \in Nat /\ Looked + 1 \in 1 .. Len(given)
  BY <1>2 DEF Looked, DataInv, RestIsLeft
<1>4. /\ Head(left) = left[1] /\ Head(left) \in Packet /\ Tail(left) \in Seq(Packet)
      /\ Len(Tail(left)) = Len(left) - 1
      /\ \A i \in 1 .. Len(left) - 1 : Tail(left)[i] = left[i + 1]
  BY <1>1, <1>2, HeadTailProperties
<1>5. \A i \in 1 .. Len(left) : left[i] = given[Looked + i]
  BY DEF DataInv, RestIsLeft
<1>6. left[1] = given[Looked + 1]
  BY <1>5, <1>2
<1>7. ASSUME NEW i \in 1 .. Len(left) - 1
      PROVE  left[i + 1] = given[Looked + 1 + i]
  <2>1. i + 1 \in 1 .. Len(left) /\ Looked + (i + 1) = Looked + 1 + i
    BY <1>2, <1>3
  <2> QED BY <2>1, <1>5
<1> QED BY <1>1, <1>2, <1>3, <1>4, <1>6, <1>7

\* What is left after a packet was looked at and the decode goes on or ends.
LEMMA LookedOneMore ==
  ASSUME DataInv, rxpc = "decode", left' = Tail(left), UNCHANGED given,
         rxpc' = IF Len(left) = 1 THEN "ended" ELSE "decode"
  PROVE  RestIsLeft' /\ Looked' = Looked + 1
<1>1. Len(left) \in Nat /\ Len(given) \in Nat /\ Len(left) <= Len(given)
  BY LookFacts, TransferOK DEF DataInv, RestIsLeft
<1>2. Looked' = Looked + 1
  BY <1>1, LookFacts DEF Looked
<1>3. Len(left') = 0 => left' = <<>>
  BY LookFacts, EmptySeq
<1>4. left' = <<>> => Len(left') = 0
  BY EmptySeq
<1> QED BY <1>1, <1>2, <1>3, <1>4, LookFacts DEF RestIsLeft

\* A decode that only moves the receive path keeps the rest of the types.
LEMMA DecodeTypes ==
  ASSUME DataTypes, left' \in Seq(Packet), got' \in Seq(Skb),
         rxpc' \in {"idle", "decode", "ended", "error"},
         UNCHANGED <<mode, present, minPad, linkOn, given, usedPad, hostVars, rounds>>
  PROVE  DataTypes' /\ (OneHostServed => OneHostServed')
BY DEF DataTypes, OneHostServed, hostVars

\* error_pkt and a failed allocation: nothing more is looked at.
LEMMA GivenUp ==
  ASSUME DataInv, rxpc' = "error",
         UNCHANGED <<mode, present, minPad, linkOn, given, left, usedPad, got, hostVars, rounds>>
  PROVE  DataInv'
<1>1. DataTypes' /\ OneHostServed'
  BY DecodeTypes DEF DataInv, DataTypes
<1> QED BY <1>1 DEF DataInv, RestIsLeft, ChainIsLooked, LookedIsChained, FromLooked, Looked

\* skip_pkt: the packet is looked at and the chain stays.
LEMMA SkipKeeps ==
  ASSUME DataInv, rxpc = "decode", Verdict(Head(left)) = "skip", left' = Tail(left),
         rxpc' = IF Len(left) = 1 THEN "ended" ELSE "decode",
         UNCHANGED <<mode, present, minPad, linkOn, given, usedPad, got, hostVars, rounds>>
  PROVE  DataInv'
<1>1. DataTypes' /\ OneHostServed'
  BY DecodeTypes, LookFacts DEF DataInv, DataTypes
<1>2. RestIsLeft' /\ Looked' = Looked + 1
  BY LookedOneMore
<1>3. ChainIsLooked'
  <2>1. \A j \in 1 .. Looked : j \in 1 .. Looked'
    BY <1>2, LookFacts
  <2> QED BY <2>1 DEF DataInv, ChainIsLooked, FromLooked
<1>4. LookedIsChained'
  <2>1. \A j \in 1 .. Looked' : j \in 1 .. Looked \/ j = Looked + 1
    BY <1>2, LookFacts
  <2>2. given[Looked + 1].cd \/ given[Looked + 1].mux \notin present
    BY SkipOK, LookFacts
  <2> QED BY <2>1, <2>2 DEF DataInv, LookedIsChained
<1> QED BY <1>1, <1>2, <1>3, <1>4 DEF DataInv

\* A packet is appended to the chain: its number is above every one in it.
LEMMA DeliverKeeps ==
  ASSUME DataInv, rxpc = "decode", Verdict(Head(left)) = "deliver",
         left' = Tail(left), got' = Chained(Head(left)),
         rxpc' = IF Len(left) = 1 THEN "ended" ELSE "decode",
         UNCHANGED <<mode, present, minPad, linkOn, given, usedPad, hostVars, rounds>>
  PROVE  DataInv'
<1> DEFINE p == Head(left)
           skb == [id |-> p.id, mux |-> p.mux, len |-> SkbLen(p)]
           n == Looked + 1
<1>1. p \in Packet /\ p = given[n] /\ n \in 1 .. Len(given) /\ Looked \in Nat
  BY LookFacts
<1>2. /\ SkbLen(p) \in 0 .. MaxPay /\ (usedPad = MinPad => SkbLen(p) = p.pay)
      /\ p.mux \in Muxes
  BY <1>1, SkbLenOK DEF DataInv, DataTypes
<1>3. skb \in Skb
  BY <1>1, <1>2 DEF Skb, Packet
<1>4. got \in Seq(Skb) /\ Len(got) \in Nat
  BY LenProperties DEF DataInv, DataTypes
<1>5. /\ got' \in Seq(Skb) /\ Len(got') = Len(got) + 1 /\ got'[Len(got) + 1] = skb
      /\ \A i \in 1 .. Len(got) : got'[i] = got[i]
  BY <1>3, <1>4, AppendProperties DEF Chained
<1>6. DataTypes' /\ OneHostServed'
  BY <1>5, DecodeTypes, LookFacts DEF DataInv, DataTypes
<1>7. RestIsLeft' /\ Looked' = n
  BY LookedOneMore
<1>8. skb.id = given[n].id /\ skb.mux = given[n].mux /\ skb.len = SkbLen(p)
  BY <1>1
<1> HIDE DEF skb, p
<1>9. ChainIsLooked'
  <2> SUFFICES ASSUME NEW i \in 1 .. Len(got')
               PROVE  \E j \in 1 .. n : /\ given[j].id = got'[i].id /\ given[j].mux = got'[i].mux
                                        /\ usedPad = MinPad => got'[i].len = given[j].pay
                                        /\ i > 1 => got'[i].id > got'[i - 1].id
    BY <1>7 DEF ChainIsLooked, FromLooked
  <2>1. CASE i \in 1 .. Len(got)
    <3>1. PICK j \in 1 .. Looked : FromLooked(i, j) /\ (i > 1 => got[i].id > got[i - 1].id)
      BY <2>1 DEF DataInv, ChainIsLooked
    <3>2. j \in 1 .. n /\ got'[i] = got[i] /\ (i > 1 => got'[i - 1] = got[i - 1])
      BY <1>1, <1>4, <1>5, <2>1
    <3> QED BY <3>1, <3>2 DEF FromLooked
  <2>2. CASE i = Len(got) + 1
    <3>1. got'[i] = skb /\ n \in 1 .. n
      BY <1>1, <1>5, <2>2
    <3>2. usedPad = MinPad => skb.len = given[n].pay
      BY <1>1, <1>2, <1>8
    <3>3. ASSUME i > 1
          PROVE  got'[i].id > got'[i - 1].id
      <4>1. i - 1 \in 1 .. Len(got) /\ got'[i - 1] = got[i - 1]
        BY <1>4, <1>5, <2>2, <3>3
      <4>2. PICK j \in 1 .. Looked : given[j].id = got[i - 1].id
        BY <4>1 DEF DataInv, ChainIsLooked, FromLooked
      <4>3. j \in 1 .. Len(given) /\ j < n
        BY <1>1
      <4>4. given[j].id < given[n].id /\ given[j].id \in Nat /\ given[n].id \in Nat
        BY <1>1, <4>3, TransferOK, LookFacts DEF Packet
      <4> QED BY <3>1, <4>1, <4>2, <4>4, <1>8
    <3> QED BY <3>1, <3>2, <3>3, <1>8
  <2> QED BY <1>4, <1>5, <2>1, <2>2
<1>10. LookedIsChained'
  <2> SUFFICES ASSUME NEW j \in 1 .. n, ~given[j].cd, given[j].mux \in present
               PROVE  \E i \in 1 .. Len(got') : got'[i].id = given[j].id
    BY <1>7 DEF LookedIsChained
  <2>1. CASE j \in 1 .. Looked
    <3>1. PICK i \in 1 .. Len(got) : got[i].id = given[j].id
      BY <2>1 DEF DataInv, LookedIsChained
    <3>2. i \in 1 .. Len(got') /\ got'[i] = got[i]
      BY <1>4, <1>5
    <3> QED BY <3>1, <3>2
  <2>2. CASE j = n
    <3>1. Len(got) + 1 \in 1 .. Len(got')
      BY <1>4, <1>5
    <3> QED BY <3>1, <2>2, <1>5, <1>8
  <2> QED BY <1>1, <2>1, <2>2
<1> QED BY <1>6, <1>7, <1>9, <1>10 DEF DataInv

LEMMA DataInitHolds == DataInit => DataInv
<1> SUFFICES ASSUME DataInit PROVE DataInv
  OBVIOUS
<1>1. Len(<<>>) = 0 /\ <<>> \in Seq(Packet) /\ <<>> \in Seq(Skb)
  BY EmptySeq
<1>2. linkOn \in BOOLEAN /\ bridge \in BOOLEAN
  BY Zenon DEF DataInit
<1>4. DataTypes /\ OneHostServed
  BY <1>1, <1>2, DataAssumption DEF DataInit, DataTypes, OneHostServed
<1>3. Looked = 0 /\ Len(left) = 0 /\ Len(got) = 0
  BY <1>1 DEF DataInit, Looked
<1> QED BY <1>1, <1>3, <1>4
        DEF DataInv, DataInit, RestIsLeft, ChainIsLooked, LookedIsChained

LEMMA DataStepKeeps == DataInv /\ [DataNext]_dataVars => DataInv'
<1> SUFFICES ASSUME DataInv, [DataNext]_dataVars PROVE DataInv'
  OBVIOUS
<1>1. CASE UNCHANGED dataVars
  <2>1. UNCHANGED <<mode, present, minPad, linkOn, rxVars, bridge, mac, bridged, dest, rounds>>
    BY <1>1 DEF dataVars, hostVars
  <2>2. RestIsLeft' /\ ChainIsLooked' /\ LookedIsChained'
    BY <2>1, RxUntouched
  <2> QED BY <2>1, <2>2 DEF DataInv, DataTypes, OneHostServed, rxVars
<1>2. CASE \E t \in Transfers : qmap_qmi_wwan_rx_fixup(t) \/ rmnet_usb_rx_handler(t)
  BY <1>2, DecodeKeeps
<1>3. CASE qmap_packet_decode
  <2>1. CASE Verdict(Head(left)) = "deliver"
    BY <1>3, <2>1, DeliverKeeps DEF qmap_packet_decode
  <2>2. CASE Verdict(Head(left)) = "skip"
    BY <1>3, <2>2, SkipKeeps DEF qmap_packet_decode, AfterSkip
  <2>3. CASE Verdict(Head(left)) = "error"
    BY <1>3, <2>3, GivenUp DEF qmap_packet_decode
  <2> QED BY <1>3, <2>1, <2>2, <2>3 DEF qmap_packet_decode
<1>4. CASE AllocFails
  BY <1>4, GivenUp DEF AllocFails
<1> QED BY <1>1, <1>2, <1>3, <1>4, OthersKeep DEF DataNext

\* Everything the decoder has looked at is accounted for: delivered in its
\* order, a command, or for a device that is gone (qmap_packet_decode).
THEOREM DataInvariant == DataSpec => []DataInv
BY DataInitHolds, DataStepKeeps, PTL DEF DataSpec

\* Whatever the modem sends and whatever goes away during a decode, the
\* packets of a transfer reach the device of their mux id, complete, in order
\* and with their length, and the bridge serves the host it let pass last
\* (qmap_packet_decode, bridge_mode_tx_fixup, bridge_mode_rx_fixup).
THEOREM DownlinkIsAsSent == DataSpec => []DownlinkAsSent
<1>1. DataInv => DownlinkAsSent
  <2> SUFFICES ASSUME DataInv PROVE DownlinkAsSent
    OBVIOUS
  <2>1. /\ given \in Transfers \cup {<<>>} /\ given \in Seq(Packet) /\ Len(given) \in Nat
        /\ DOMAIN given = 1 .. Len(given)
    BY TransferOK DEF DataInv, DataTypes
  <2>2. /\ left \in Seq(Packet) /\ Len(left) \in Nat /\ got \in Seq(Skb)
        /\ DOMAIN got = 1 .. Len(got)
    BY LenProperties DEF DataInv, DataTypes
  <2>3. Len(left) <= Len(given) /\ Looked \in 0 .. Len(given)
    BY <2>1, <2>2 DEF DataInv, RestIsLeft, Looked
  <2>4. DataTypeOK
    <3>1. IsSuffix(left, given)
      BY <2>1, <2>2, <2>3, SuffixByPlace DEF DataInv, RestIsLeft, Looked
    <3> QED BY <3>1 DEF DataInv, DataTypes, DataTypeOK, Skb
  <2>5. DeliveredAsSent
    <3> SUFFICES ASSUME NEW i \in 1 .. Len(got)
                 PROVE  \E j \in 1 .. Len(given) :
                          FromLooked(i, j) /\ (i > 1 => got[i].id > got[i - 1].id)
      BY <2>1, <2>2 DEF DeliveredAsSent, FromLooked
    <3>1. PICK j \in 1 .. Looked : FromLooked(i, j) /\ (i > 1 => got[i].id > got[i - 1].id)
      BY DEF DataInv, ChainIsLooked
    <3>2. j \in 1 .. Len(given)
      BY <2>1, <2>3
    <3> QED BY <3>1, <3>2
  <2>6. RestDelivered
    <3>1. rxpc = "ended" => Looked = Len(given)
      BY <2>1, EmptySeq DEF DataInv, RestIsLeft, Looked
    <3> QED BY <2>1, <2>2, <3>1 DEF DataInv, LookedIsChained, RestDelivered
  <2> QED BY <2>4, <2>5, <2>6 DEF DownlinkAsSent, DataInv
<1> QED BY <1>1, DataInvariant, PTL
=============================================================================
