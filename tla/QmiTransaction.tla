--------------------------- MODULE QmiTransaction ---------------------------
(***************************************************************************)
(* The QMI transaction layer of quectel-CM: the main thread that sends one *)
(* request and waits for its answer (QmiThreadSendQMITimeout), the reader  *)
(* thread of the device (QmiWwanThread, GobiNetThread), the mutex and the  *)
(* condition variable between them, the control socket pair, and a modem   *)
(* that answers late, never, or hangs up.                                  *)
(*                                                                         *)
(* A critical section of cm_command_mutex is one step, with one exception: *)
(* the sender holds the mutex from its look at cdc_wdm_fd to its write,    *)
(* and the reader may close the device in between ("sending").  The timed  *)
(* wait is Quarters waits in a row; a wait that expired ("expired") has    *)
(* left the condition variable and misses a signal sent before it waits    *)
(* again.                                                                  *)
(***************************************************************************)
EXTENDS Naturals, Sequences, SequencesExt

CONSTANTS
  Services,    \* QMI services with a client id of ours
  Ctl,         \* QMUX_TYPE_CTL: its own 8 bit transaction counter
  MaxTid,      \* largest transaction id: 0xFF for CTL, 0xFFFF for the others
  Quarters,    \* waits of pthread_cond_timeout_np (4)
  MaxCalls,    \* bound: requests of the main thread
  MaxInds,     \* bound: indications of the modem
  MaxStops     \* bound: SIGINT/SIGTERM received

ASSUME TidAssumption == MaxTid \in Nat \ {0}
ASSUME QuartersAssumption == Quarters \in Nat \ {0}
ASSUME BoundsAssumption ==
  MaxCalls \in Nat /\ MaxInds \in Nat /\ MaxStops \in Nat /\ Ctl \notin Services

VARIABLES
  mpc,         \* main: idle, sending, waiting, expired, woken, joining, ended
  quarter,     \* waits that expired in this call
  tid,         \* last transaction id of each counter (CTL, QMUX)
  nreq,        \* requests issued
  sRequest,    \* s_pRequest
  sResponse,   \* s_pResponse
  result,      \* what the last call returned
  rpc,         \* reader: opening, running, closed, leaving, done
  waitForQuit, \* wait_for_request_quit
  fd,          \* cdc_wdm_fd is open
  hangup,      \* the device is gone (POLLHUP)
  toReader,    \* qmidevice_control_fd, written by main and the signal handler
  toMain,      \* events the reader has written to qmidevice_control_fd
  pending,     \* requests the modem has received and not run
  ran,         \* numbers of the requests the modem has run
  fromModem,   \* messages the device holds for the reader
  ninds,       \* indications sent so far
  nstops       \* signals received so far

mainVars   == <<mpc, quarter, tid, nreq, result>>
sharedVars == <<sRequest, sResponse>>
readerVars == <<rpc, waitForQuit, fd>>
modemVars  == <<pending, ran, fromModem, ninds, hangup>>
vars == <<mainVars, sharedVars, readerVars, modemVars, toReader, toMain, nstops>>

NULL == [svc |-> Ctl, tid |-> 0, n |-> 0]
Indication(s) == [svc |-> s, tid |-> 0, n |-> 0]
IsIndication(m) == m.tid = 0

Counter(s) == IF s = Ctl THEN "ctl" ELSE "mux"

\* GetQCTLTransactionId, GetQMUXTransactionId: 0 is never used
NextTid(t) == IF t + 1 > MaxTid THEN 1 ELSE t + 1

\* ComposeQCTLMsg, ComposeQMUXMsg: n tells the requests apart for the reader
Compose(s) == [svc |-> s, tid |-> NextTid(tid[Counter(s)]), n |-> nreq + 1]

is_response(request, response) ==
  request.svc = response.svc /\ request.tid = response.tid

Results == {"none", "answer", "null", "ETIMEDOUT", "error"}
NoResult == [kind |-> "none", n |-> 0]

TypeOK ==
  /\ mpc \in {"idle", "sending", "waiting", "expired", "woken", "joining", "ended"}
  /\ quarter \in 0..Quarters
  /\ tid \in [{"ctl", "mux"} -> 0..MaxTid]
  /\ nreq \in 0..MaxCalls
  /\ \A r \in {sRequest, sResponse} \cup pending :
        r \in [svc : Services \cup {Ctl}, tid : 0..MaxTid, n : 0..MaxCalls]
  /\ result \in [kind : Results, n : 0..MaxCalls]
  /\ rpc \in {"opening", "running", "closed", "leaving", "done"}
  /\ waitForQuit \in BOOLEAN /\ fd \in BOOLEAN /\ hangup \in BOOLEAN
  /\ ToSet(toReader) \subseteq {"RIL_REQUEST_QUIT", "SIG_EVENT_STOP"}
  /\ toMain \subseteq {"CONNECTED", "DISCONNECTED", "INDICATION"}
  /\ ran \subseteq 1..MaxCalls
  /\ ninds \in 0..MaxInds /\ nstops \in 0..MaxStops

Init ==
  /\ mpc = "idle" /\ quarter = 0 /\ nreq = 0 /\ result = NoResult
  /\ tid = [c \in {"ctl", "mux"} |-> 0]
  /\ sRequest = NULL /\ sResponse = NULL
  /\ rpc = "opening" /\ waitForQuit = FALSE /\ fd = FALSE
  /\ toReader = <<>> /\ toMain = {}
  /\ pending = {} /\ ran = {} /\ fromModem = <<>> /\ ninds = 0
  /\ hangup = FALSE /\ nstops = 0

-----------------------------------------------------------------------------
(* The main thread *)

Return(kind, n) ==
  /\ mpc' = "idle"
  /\ quarter' = 0
  /\ result' = [kind |-> kind, n |-> n]
  /\ UNCHANGED <<tid, nreq>>

\* Mutant of BeginSend: the answer of the last call is left in s_pResponse.
BeginSendStale(s) ==
  /\ mpc = "idle"
  /\ nreq < MaxCalls
  /\ "CONNECTED" \in toMain
  /\ nreq' = nreq + 1
  /\ tid' = [tid EXCEPT ![Counter(s)] = NextTid(@)]
  /\ sRequest' = Compose(s)
  /\ IF fd THEN /\ mpc' = "sending" /\ result' = NoResult
           ELSE /\ mpc' = "idle" /\ result' = [kind |-> "error", n |-> 0]
  /\ UNCHANGED <<quarter, sResponse, readerVars, modemVars, toReader, toMain, nstops>>

\* lock, s_pRequest = pRequest, s_pResponse = NULL; a closed device is
\* refused (-ENODEV) before anything is written, with s_pRequest left set
BeginSend(s) ==
  /\ mpc = "idle"
  /\ nreq < MaxCalls
  /\ "CONNECTED" \in toMain
  /\ nreq' = nreq + 1
  /\ tid' = [tid EXCEPT ![Counter(s)] = NextTid(@)]
  /\ sRequest' = Compose(s)
  /\ sResponse' = NULL
  /\ IF fd THEN /\ mpc' = "sending" /\ result' = NoResult
           ELSE /\ mpc' = "idle" /\ result' = [kind |-> "error", n |-> 0]
  /\ UNCHANGED <<quarter, readerVars, modemVars, toReader, toMain, nstops>>

\* the write succeeds, or poll() timed out and its 0 is returned as success
\* although nothing was written
SendQMI(written) ==
  /\ mpc = "sending"
  /\ fd
  /\ mpc' = "waiting"
  /\ pending' = IF written /\ ~hangup THEN pending \cup {sRequest} ELSE pending
  /\ UNCHANGED <<quarter, tid, nreq, result, sharedVars, readerVars, ran,
                 fromModem, ninds, hangup, toReader, toMain, nstops>>

\* poll() or write() fails: the device was closed or is gone
SendFails ==
  /\ mpc = "sending"
  /\ ~fd \/ hangup
  /\ Return("error", 0)
  /\ UNCHANGED <<sharedVars, readerVars, modemVars, toReader, toMain, nstops>>

\* one pthread_cond_timedwait ends with ETIMEDOUT
QuarterExpires ==
  /\ mpc = "waiting"
  /\ quarter' = quarter + 1
  /\ mpc' = "expired"
  /\ UNCHANGED <<tid, nreq, result, sharedVars, readerVars, modemVars,
                 toReader, toMain, nstops>>

\* the mutex is taken again: wait once more, or give up, whatever s_pResponse
\* holds by now
AfterExpiry ==
  /\ mpc = "expired"
  /\ IF quarter < Quarters
     THEN mpc' = "waiting" /\ UNCHANGED <<quarter, tid, nreq, result>>
     ELSE Return("ETIMEDOUT", 0)
  /\ UNCHANGED <<sharedVars, readerVars, modemVars, toReader, toMain, nstops>>

\* signalled (or woken for no reason, which POSIX allows): 0 is returned,
\* with the answer if there is one and with no answer otherwise
Wake ==
  /\ mpc \in {"woken", "waiting"}
  /\ IF sResponse # NULL THEN Return("answer", sResponse.n) ELSE Return("null", 0)
  /\ UNCHANGED <<sharedVars, readerVars, modemVars, toReader, toMain, nstops>>

\* SIG_EVENT_STOP or a reset of the modem: RIL_REQUEST_QUIT, then pthread_join
QuitRequest ==
  /\ mpc = "idle"
  /\ "CONNECTED" \in toMain
  /\ mpc' = "joining"
  /\ toReader' = Append(toReader, "RIL_REQUEST_QUIT")
  /\ UNCHANGED <<quarter, tid, nreq, result, sharedVars, readerVars, modemVars,
                 toMain, nstops>>

\* RIL_INDICATE_DEVICE_DISCONNECTED: the reader has left by itself, join only
QuitOnDisconnect ==
  /\ mpc = "idle"
  /\ "DISCONNECTED" \in toMain
  /\ mpc' = "joining"
  /\ UNCHANGED <<quarter, tid, nreq, result, sharedVars, readerVars, modemVars,
                 toReader, toMain, nstops>>

Join ==
  /\ mpc = "joining"
  /\ rpc = "done"
  /\ mpc' = "ended"
  /\ UNCHANGED <<quarter, tid, nreq, result, sharedVars, readerVars, modemVars,
                 toReader, toMain, nstops>>

\* ql_sigaction: the handler tells the reader that main may be waiting
Signal ==
  /\ nstops < MaxStops
  /\ mpc # "ended"
  /\ nstops' = nstops + 1
  /\ toReader' = Append(toReader, "SIG_EVENT_STOP")
  /\ UNCHANGED <<mainVars, sharedVars, readerVars, modemVars, toMain>>

-----------------------------------------------------------------------------
(* The reader thread *)

Event(e) == toMain' = toMain \cup {e}

\* pthread_cond_signal: only a thread inside the wait is woken
CondSignal ==
  /\ mpc' = IF mpc = "waiting" THEN "woken" ELSE mpc
  /\ UNCHANGED <<quarter, tid, nreq, result>>

\* the mutex is free
Unlocked == mpc # "sending"

OpenDevice ==
  /\ rpc = "opening"
  /\ \/ /\ fd' = TRUE /\ rpc' = "running" /\ Event("CONNECTED")
     \/ /\ fd' = FALSE /\ rpc' = "done" /\ Event("DISCONNECTED")
  /\ UNCHANGED <<mainVars, sharedVars, waitForQuit, modemVars, toReader, nstops>>

\* QmiThreadRecvQMI(pResponse)
RecvQMI(m) ==
  \/ /\ sRequest # NULL /\ is_response(sRequest, m)
     /\ sRequest' = NULL
     /\ sResponse' = m
     /\ CondSignal
     /\ UNCHANGED toMain
  \/ /\ sRequest = NULL \/ ~is_response(sRequest, m)
     /\ IF IsIndication(m) THEN Event("INDICATION") ELSE UNCHANGED toMain
     /\ UNCHANGED <<mainVars, sharedVars>>

\* Mutant of RecvNull: the condition is not signalled.
RecvNullSilently ==
  /\ sRequest' = NULL /\ sResponse' = NULL
  /\ UNCHANGED <<mainVars, toMain>>

\* QmiThreadRecvQMI(NULL)
RecvNull ==
  /\ IF sRequest # NULL
     THEN /\ sRequest' = NULL /\ sResponse' = NULL /\ CondSignal
     ELSE UNCHANGED <<mainVars, sharedVars>>
  /\ UNCHANGED toMain

ReadMessage ==
  /\ rpc = "running"
  /\ Unlocked
  /\ fromModem # <<>>
  /\ RecvQMI(Head(fromModem))
  /\ fromModem' = Tail(fromModem)
  /\ UNCHANGED <<readerVars, pending, ran, ninds, hangup, toReader, nstops>>

\* poll() saw nothing for a second after SIG_EVENT_STOP
PollTimeout ==
  /\ rpc = "running"
  /\ waitForQuit
  /\ Unlocked
  /\ fromModem = <<>> /\ toReader = <<>> /\ ~hangup
  /\ RecvNull
  /\ UNCHANGED <<readerVars, modemVars, toReader, nstops>>

\* Mutant of ReadControl: RIL_REQUEST_QUIT is ignored.
ReadControlStopOnly ==
  /\ rpc = "running"
  /\ toReader # <<>>
  /\ toReader' = Tail(toReader)
  /\ waitForQuit' = (waitForQuit \/ Head(toReader) = "SIG_EVENT_STOP")
  /\ UNCHANGED <<mainVars, sharedVars, rpc, fd, modemVars, toMain, nstops>>

ReadControl ==
  /\ rpc = "running"
  /\ toReader # <<>>
  /\ toReader' = Tail(toReader)
  /\ \/ /\ Head(toReader) = "SIG_EVENT_STOP"
        /\ waitForQuit' = TRUE /\ UNCHANGED <<rpc, fd>>
     \/ /\ Head(toReader) = "RIL_REQUEST_QUIT"
        /\ rpc' = "closed" /\ fd' = FALSE /\ UNCHANGED waitForQuit
  /\ UNCHANGED <<mainVars, sharedVars, modemVars, toMain, nstops>>

PollHup ==
  /\ rpc = "running"
  /\ hangup
  /\ rpc' = "closed" /\ fd' = FALSE
  /\ UNCHANGED <<mainVars, sharedVars, waitForQuit, modemVars, toReader, toMain, nstops>>

ReportDisconnect ==
  /\ rpc = "closed"
  /\ rpc' = "leaving"
  /\ Event("DISCONNECTED")
  /\ UNCHANGED <<mainVars, sharedVars, waitForQuit, fd, modemVars, toReader, nstops>>

\* main thread may pending on QmiThreadSendQMI()
ReaderExit ==
  /\ rpc = "leaving"
  /\ Unlocked
  /\ rpc' = "done"
  /\ RecvNull
  /\ UNCHANGED <<waitForQuit, fd, modemVars, toReader, nstops>>

-----------------------------------------------------------------------------
(* The modem *)

ModemRuns(r) ==
  /\ pending' = pending \ {r}
  /\ ran' = ran \cup {r.n}
  /\ \/ fromModem' = Append(fromModem, r)
     \/ UNCHANGED fromModem                       \* the answer is lost
  /\ UNCHANGED <<mainVars, sharedVars, readerVars, ninds, hangup, toReader,
                 toMain, nstops>>

ModemIndicates(s) ==
  /\ ninds < MaxInds
  /\ ~hangup
  /\ ninds' = ninds + 1
  /\ fromModem' = Append(fromModem, Indication(s))
  /\ UNCHANGED <<mainVars, sharedVars, readerVars, pending, ran, hangup,
                 toReader, toMain, nstops>>

ModemHangup ==
  /\ ~hangup /\ fd
  /\ hangup' = TRUE
  /\ UNCHANGED <<mainVars, sharedVars, readerVars, pending, ran, fromModem,
                 ninds, toReader, toMain, nstops>>

Ended == mpc = "ended" /\ UNCHANGED vars

MainStep ==
  \/ \E s \in Services \cup {Ctl} : BeginSend(s)
  \/ \E w \in BOOLEAN : SendQMI(w)
  \/ SendFails
  \/ QuarterExpires
  \/ AfterExpiry
  \/ Wake
  \/ QuitRequest
  \/ QuitOnDisconnect
  \/ Join

ReaderStep ==
  \/ OpenDevice
  \/ ReadMessage
  \/ PollTimeout
  \/ ReadControl
  \/ PollHup
  \/ ReportDisconnect
  \/ ReaderExit

ModemStep ==
  \/ \E r \in pending : ModemRuns(r)
  \/ \E s \in Services : ModemIndicates(s)
  \/ ModemHangup

Next == MainStep \/ ReaderStep \/ ModemStep \/ Signal \/ Ended

Spec == Init /\ [][Next]_vars

\* Threads run and time passes: a wait that is not signalled expires, a
\* reader with something to do does it.  Nothing is asked of the modem.
FairSpec == Spec /\ WF_vars(MainStep) /\ WF_vars(ReaderStep)

-----------------------------------------------------------------------------
(* Properties *)

InCall == mpc \in {"sending", "waiting", "expired", "woken"}

\* An answer handed to a caller is the answer of its own request, which the
\* modem has run: the late answer of a request given up earlier never is.
AnswerIsMine ==
  result.kind = "answer" => result.n = nreq /\ result.n \in ran

\* The reader leaves no caller behind: once it has ended, main waits for an
\* answer that cannot come only if the wake-up of QmiThreadRecvQMI(NULL)
\* fell between two of its timed waits.
StrandedOnlyBetweenWaits ==
  rpc = "done" /\ mpc = "waiting" => quarter > 0

\* A request handed to the modem is still s_pRequest or has been answered,
\* woken or given up: a caller still inside its first wait can be woken by
\* the message the reader reads next.
WaiterIsRegistered ==
  mpc = "waiting" /\ quarter = 0 => sRequest # NULL /\ sRequest.n = nreq

\* The layer implements the exchange the request functions rely on.
Exchange == INSTANCE QmiExchange WITH
  issued <- nreq, active <- InCall, executed <- ran,
  answer <- IF result.kind = "answer" THEN result.n ELSE 0
ImplementsExchange == Exchange!Spec

\* Every call of QmiThreadSendQMITimeout returns, whatever the modem does.
CallReturns == InCall ~> ~InCall

\* pthread_join() of the reader returns once main has decided to quit.
JoinReturns == mpc = "joining" ~> mpc = "ended"

\* A caller gets its own answer and is left waiting by nobody but the gap
\* between two waits (QmiThreadSendQMITimeout, QmiThreadRecvQMI).
WaiterIsServed ==
  TypeOK /\ AnswerIsMine /\ StrandedOnlyBetweenWaits /\ WaiterIsRegistered

\* Calls of QmiThreadSendQMITimeout and the join of the reader return.
CallsReturn == CallReturns /\ JoinReturns
=============================================================================
