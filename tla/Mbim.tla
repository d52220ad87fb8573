-------------------------------- MODULE Mbim --------------------------------
(***************************************************************************)
(* quectel-CM over MBIM (mbim-cm.c): the command exchange between the main *)
(* thread and the reader thread, the MBIM request functions, the copies of *)
(* the modem's states that decide which indications reach the main thread, *)
(* and the shutdown after SIGINT or SIGTERM.  One IPv4 session; the main   *)
(* loop is reduced to which request follows which (CmMain has the loop).   *)
(*                                                                         *)
(* A critical section of mbim_command_mutex is one step.  The host's copy  *)
(* of a state is written by the main thread after it has left the mutex,   *)
(* so that the reader may compare an indication with the copy from before  *)
(* the answer it has just delivered.                                       *)
(***************************************************************************)
EXTENDS Naturals, Sequences, SequencesExt, FiniteSets

CONSTANTS
  MaxFaults,   \* bound: commands not answered in time, errors, hangups
  MaxChanges,  \* bound: changes made by the network
  MaxStops     \* bound: SIGINT/SIGTERM received

ASSUME BoundsAssumption ==
  MaxFaults \in Nat /\ MaxChanges \in Nat /\ MaxStops \in Nat

VARIABLES
  step,     \* main: the command it runs, loop, joining, ended
  why,      \* what the registration query is for: init, net, check
  mpc,      \* exchange: ready, waiting, woken
  request,  \* mbim_pRequest
  response, \* mbim_pResponse
  opens,    \* tries of mbim_open_device
  ps,       \* PSAttachedState
  conn,     \* IPv4ConnectionStatus
  old,      \* oldRegisterState, oldPacketServiceState, oldActivationState
  events,   \* qmidevice_control_fd, events to main
  stopAsked,\* SIG_EVENT_STOP waits for main
  reader,   \* reader: running, closing, done
  waitQuit, \* wait_for_request_quit
  quitSent, \* RIL_REQUEST_QUIT is on its way to the reader
  pending,  \* modem: commands received and not run
  modem,    \* modem: the same states as in old
  opened,   \* modem: the device is open
  fromModem,\* messages the device holds for the reader
  hangup,   \* the device is gone
  clean,    \* every command was answered, and in time
  nfault, nchange, nstop

hostVars   == <<step, why, opens, ps, conn, old>>
exchVars   == <<mpc, request, response>>
readerVars == <<reader, waitQuit, quitSent>>
modemVars  == <<pending, modem, opened, fromModem, hangup>>
countVars  == <<clean, nfault, nchange, nstop>>
vars == <<hostVars, exchVars, events, stopAsked, readerVars, modemVars, countVars>>

Down == "disconnected"
Up == "connected"
Unknow == "unknow"

Kinds == {"register", "packet", "call"}
Values == {"unknown", "yes", "no"}
Starting == {"open", "caps", "services", "radio", "sim"}
Commands == Starting \cup
  {"register", "packet", "attach", "connect", "ip", "query", "deactivate", "close"}

NULL == [id |-> 0, op |-> "none"]
NoAnswer == [id |-> 0, op |-> "none", ok |-> FALSE, kind |-> "none", value |-> "unknown"]
Indication(k) == [NoAnswer EXCEPT !.kind = k, !.value = modem[k]]
IsIndication(m) == m.id = 0

TypeOK ==
  /\ step \in Commands \cup {"loop", "joining", "ended"}
  /\ why \in {"init", "net", "check"}
  /\ mpc \in {"ready", "waiting", "woken"}
  /\ opens \in 0..10
  /\ ps \in BOOLEAN /\ conn \in {Down, Up, Unknow}
  /\ old \in [Kinds -> Values] /\ modem \in [Kinds -> {"yes", "no"}]
  /\ events \in Seq({"NET", "CALL", "DISCONNECTED"})
  /\ reader \in {"running", "closing", "done"}
  /\ {stopAsked, waitQuit, quitSent, opened, hangup, clean} \subseteq BOOLEAN
  /\ nfault \in 0..MaxFaults /\ nchange \in 0..MaxChanges /\ nstop \in 0..MaxStops

\* The modem may be open and connected: the manager before was killed.
Init ==
  /\ step = "open" /\ why = "init" /\ opens = 0
  /\ ps = FALSE /\ conn = Unknow /\ old = [k \in Kinds |-> "unknown"]
  /\ mpc = "ready" /\ request = NULL /\ response = NoAnswer
  /\ events = <<>> /\ stopAsked = FALSE
  /\ reader = "running" /\ waitQuit = FALSE /\ quitSent = FALSE
  /\ pending = {} /\ fromModem = <<>> /\ hangup = FALSE
  /\ opened \in BOOLEAN
  /\ modem = [k \in Kinds |-> IF k = "register" \/ opened THEN "yes" ELSE "no"]
  /\ clean = TRUE /\ nfault = 0 /\ nchange = 0 /\ nstop = 0

-----------------------------------------------------------------------------
(* The exchange: mbim_send_command() *)

Live == {m.id : m \in ToSet(fromModem) \cup pending}

\* TransactionId++: an id that nothing on its way carries
NextId == CHOOSE i \in 1..(Cardinality(Live) + 1) : i \notin Live

\* mbim_fd is open
Open == reader = "running"

\* mbim_pRequest is registered and the message is written
mbim_send_command ==
  /\ step \in Commands /\ mpc = "ready" /\ Open
  /\ request' = [id |-> NextId, op |-> step]
  /\ response' = NoAnswer
  /\ mpc' = "waiting"
  /\ pending' = IF hangup THEN pending ELSE pending \cup {request'}
  /\ UNCHANGED <<hostVars, events, stopAsked, readerVars, modem, opened,
                 fromModem, hangup, countVars>>

\* the next command of the main thread, or its return to the loop
Then(s) == step' = s
Loop == Then("loop")

\* mbim_update_state: the copy follows the answer
Learned(k) == [old EXCEPT ![k] = response.value]

Answered == response # NoAnswer
Ok == Answered /\ response.ok

\* requestRegistrationState: registered, attached, or the packet service is
\* asked to attach; what comes after depends on who asked
AfterRegistration(attachedNow) ==
  /\ ps' = attachedNow
  /\ CASE why = "check" /\ conn # Down -> Then("query")
       [] why # "init" /\ conn = Down /\ attachedNow -> Then("connect")
       [] OTHER -> Loop

(* The request functions.  ok is FALSE for an error of the modem, ETIMEDOUT,
   8888 without an answer, and -ENODEV once the reader has closed the device *)

\* a step of mbim_init: any error ends the program
Initial(ok, s, next) ==
  /\ step = s
  /\ Then(IF ok THEN next ELSE "ended")
  /\ UNCHANGED <<why, opens, ps, conn, old>>

mbim_open_device(ok)           == Initial(ok, "open", "caps")
mbim_device_caps_query(ok)     == Initial(ok, "caps", "services")
mbim_device_services_query(ok) == Initial(ok, "services", "radio")
mbim_set_radio_state(ok)       == Initial(ok, "radio", "sim")

requestGetSIMStatus(ok) ==
  /\ step = "sim" /\ Then("register")
  /\ UNCHANGED <<why, opens, ps, conn, old>>

\* requestRegistrationState asks for the registration, then for the packet
\* service: a registered modem whose packet service is unknown counts as
\* attached, one that is detached is asked to attach
mbim_register_state_query(ok) ==
  /\ step = "register"
  /\ old' = IF ok THEN Learned("register") ELSE old
  /\ IF ok /\ response.value = "yes" THEN Then("packet") /\ ps' = TRUE
                                      ELSE AfterRegistration(FALSE)
  /\ UNCHANGED <<why, opens, conn>>

mbim_packet_service_query(ok) ==
  /\ step = "packet"
  /\ old' = IF ok THEN Learned("packet") ELSE old
  /\ IF ok /\ response.value # "yes" THEN Then("attach") /\ ps' = FALSE
                                      ELSE AfterRegistration(TRUE)
  /\ UNCHANGED <<why, opens, conn>>

mbim_packet_service_set(ok) ==
  /\ step = "attach"
  /\ old' = IF ok THEN Learned("packet") ELSE old
  /\ AfterRegistration(FALSE)
  /\ UNCHANGED <<why, opens, conn>>

\* the session is activated or deactivated, ActivationState follows
mbim_set_connect(ok, s) ==
  /\ step = s
  /\ old' = IF ok THEN Learned("call") ELSE old
  /\ UNCHANGED <<why, opens, ps, conn>>

requestSetupDataCall(ok) ==
  mbim_set_connect(ok, "connect") /\ Then(IF ok THEN "ip" ELSE "loop")

\* a call of which no address is known is taken for down, and set up again
\* if it was found by a query
mbim_ip_config(ok) ==
  /\ step = "ip"
  /\ conn' = IF ok THEN Up ELSE Down
  /\ Then(IF ~ok /\ conn = Up /\ ps THEN "connect" ELSE "loop")
  /\ UNCHANGED <<why, opens, ps, old>>

requestQueryDataCall(ok) ==
  /\ step = "query"
  /\ old' = IF ok THEN Learned("call") ELSE old
  /\ conn' = IF ok /\ response.value = "yes" THEN Up ELSE Down
  /\ Then(CASE conn' = Up /\ conn = Up -> "loop"
            [] conn' = Up /\ conn # Up -> "ip"
            [] conn' = Down /\ ps -> "connect"
            [] OTHER -> "loop")
  /\ UNCHANGED <<why, opens, ps>>

requestDeactivateDefaultPDP(ok) ==
  mbim_set_connect(ok, "deactivate") /\ Then("close")

mbim_close_device(ok) ==
  /\ step = "close" /\ Then("joining")
  /\ UNCHANGED <<why, opens, ps, conn, old>>

GoOn(ok) ==
  \/ mbim_open_device(ok) \/ mbim_device_caps_query(ok)
  \/ mbim_device_services_query(ok) \/ mbim_set_radio_state(ok)
  \/ requestGetSIMStatus(ok)
  \/ mbim_register_state_query(ok) \/ mbim_packet_service_query(ok)
  \/ mbim_packet_service_set(ok)
  \/ requestSetupDataCall(ok) \/ mbim_ip_config(ok) \/ requestQueryDataCall(ok)
  \/ requestDeactivateDefaultPDP(ok) \/ mbim_close_device(ok)

\* mbim_pRequest = mbim_pResponse = NULL, then the request function goes on
Done == mpc' = "ready" /\ request' = NULL /\ response' = NoAnswer

QuitAfterClose == quitSent' = (quitSent \/ step = "close")

\* mbim_check_err: woken by the reader
Return ==
  /\ mpc = "woken"
  /\ GoOn(Ok)
  /\ Done /\ QuitAfterClose
  /\ UNCHANGED <<events, stopAsked, reader, waitQuit, modemVars, countVars>>

\* mbim_init tries to open the device ten times
OpenAgain == step = "open" /\ opens < 10

Timeout ==
  /\ mpc = "waiting"
  /\ reader = "done" \/ nfault < MaxFaults
  /\ nfault' = IF reader = "done" THEN nfault ELSE nfault + 1
  /\ clean' = FALSE
  /\ IF OpenAgain THEN opens' = opens + 1 /\ UNCHANGED <<step, why, ps, conn, old>>
                  ELSE GoOn(FALSE)
  /\ Done /\ QuitAfterClose
  /\ UNCHANGED <<events, stopAsked, reader, waitQuit, modemVars, nchange, nstop>>

\* -ENODEV, -EINVAL, or write() to a closed descriptor
Refused ==
  /\ step \in Commands /\ mpc = "ready" /\ ~Open
  /\ clean' = FALSE
  /\ GoOn(FALSE)
  /\ QuitAfterClose
  /\ UNCHANGED <<exchVars, events, stopAsked, reader, waitQuit, modemVars,
                 nfault, nchange, nstop>>

-----------------------------------------------------------------------------
(* The main loop, as far as it decides which request is next *)

LoopStep ==
  /\ step = "loop"
  /\ UNCHANGED <<exchVars, readerVars, modemVars, countVars, opens, old>>

Registration(w) == step' = "register" /\ why' = w /\ UNCHANGED <<ps, conn>>

\* Mutant of Check: a connected call is not asked for.
CheckTrusts ==
  \/ ~ps /\ Registration("check")
  \/ ps /\ Then(IF conn = Up THEN "loop" ELSE "connect") /\ UNCHANGED <<why, ps, conn>>

\* SIG_EVENT_CHECK; a family that is down is not asked for but called again
Check ==
  \/ ~ps /\ Registration("check")
  \/ ps /\ conn # Down /\ Then("query") /\ UNCHANGED <<why, ps, conn>>
  \/ ps /\ conn = Down /\ Then("connect") /\ UNCHANGED <<why, ps, conn>>

\* signals are read before events
MainEvent ==
  /\ LoopStep /\ ~stopAsked /\ events # <<>>
  /\ events' = Tail(events)
  /\ CASE Head(events) = "NET" -> Registration("net")
       [] Head(events) = "CALL" -> Check
       [] OTHER -> Then("joining") /\ UNCHANGED <<why, ps, conn>>
  /\ UNCHANGED stopAsked

\* 15 seconds without an event, or the first SIG_EVENT_CHECK
PollTimeout ==
  /\ LoopStep /\ ~stopAsked /\ events = <<>>
  /\ Check
  /\ UNCHANGED <<events, stopAsked>>

MainStop ==
  /\ LoopStep /\ stopAsked
  /\ Then(IF conn = Up THEN "deactivate" ELSE "close")
  /\ UNCHANGED <<why, ps, conn, events, stopAsked>>

Join ==
  /\ step = "joining" /\ reader = "done"
  /\ step' = "ended"
  /\ UNCHANGED <<why, opens, ps, conn, old, exchVars, events, stopAsked,
                 readerVars, modemVars, countVars>>

\* ql_sigaction: both the main loop and the reader are told
Signal ==
  /\ nstop < MaxStops /\ step \notin {"ended", "joining"}
  /\ nstop' = nstop + 1
  /\ stopAsked' = TRUE /\ waitQuit' = TRUE
  /\ UNCHANGED <<hostVars, exchVars, events, reader, quitSent, modemVars,
                 clean, nfault, nchange>>

-----------------------------------------------------------------------------
(* The reader thread: mbim_read_thread(), mbim_recv_command() *)

CondSignal == mpc' = IF mpc = "waiting" THEN "woken" ELSE mpc

\* Mutant of Matches: any answer is taken for the one waited for.
MatchesAny(m) == request # NULL /\ ~IsIndication(m)

Matches(m) == request # NULL /\ request.id = m.id

\* an indication is passed on only if the state differs from the host's copy
Notify(m) ==
  events' = IF IsIndication(m) /\ m.value # old[m.kind]
            THEN Append(events, IF m.kind = "call" THEN "CALL" ELSE "NET")
            ELSE events

mbim_recv_command(m) ==
  IF Matches(m) THEN response' = m /\ CondSignal /\ UNCHANGED <<request, events>>
                ELSE Notify(m) /\ UNCHANGED exchVars

ReadMessage ==
  /\ reader = "running" /\ fromModem # <<>>
  /\ mbim_recv_command(Head(fromModem))
  /\ fromModem' = Tail(fromModem)
  /\ UNCHANGED <<hostVars, stopAsked, readerVars, pending, modem, opened,
                 hangup, countVars>>

\* RIL_REQUEST_QUIT, the device is gone, or a second of silence after a stop
ReaderCloses ==
  /\ reader = "running"
  /\ quitSent \/ hangup \/ (waitQuit /\ fromModem = <<>>)
  /\ reader' = "closing"
  /\ clean' = (clean /\ (quitSent \/ step \notin Commands))
  /\ UNCHANGED <<hostVars, exchVars, events, stopAsked, waitQuit, quitSent,
                 modemVars, nfault, nchange, nstop>>

\* mbim_recv_command(NULL)
ReaderLeaves ==
  /\ reader = "closing"
  /\ reader' = "done"
  /\ CondSignal
  /\ events' = Append(events, "DISCONNECTED")
  /\ UNCHANGED <<hostVars, request, response, stopAsked, waitQuit, quitSent,
                 modemVars, countVars>>

-----------------------------------------------------------------------------
(* The modem *)

Drop(f) == [f EXCEPT !["call"] = "no"]

\* what a command does to the states, and whether it succeeds
Effect(op) ==
  CASE op = "connect" /\ modem["packet"] = "yes" -> [modem EXCEPT !["call"] = "yes"]
    [] op = "deactivate" -> Drop(modem)
    [] op = "close" -> Drop(modem)
    [] op = "attach" /\ modem["register"] = "yes" -> [modem EXCEPT !["packet"] = "yes"]
    [] OTHER -> modem
Succeeds(op) ==
  CASE op = "connect" -> modem["packet"] = "yes"
    [] op = "attach" -> modem["register"] = "yes"
    [] op = "ip" -> modem["call"] = "yes"
    [] OTHER -> TRUE

KindOf(op) ==
  CASE op = "register" -> "register"
    [] op \in {"packet", "attach"} -> "packet"
    [] OTHER -> "call"

Answer(r) == [id |-> r.id, op |-> r.op, ok |-> Succeeds(r.op), kind |-> KindOf(r.op),
              value |-> Effect(r.op)[KindOf(r.op)]]

\* the answer, and indications of what has changed
Inform(before, after, first) ==
  fromModem \o first \o
    SetToSeq({[NoAnswer EXCEPT !.kind = k, !.value = after[k]] :
                k \in {x \in Kinds : before[x] # after[x]}})

ModemRuns(r) ==
  /\ ~hangup
  /\ pending' = pending \ {r}
  /\ modem' = Effect(r.op)
  /\ opened' = IF r.op = "open" THEN TRUE ELSE IF r.op = "close" THEN FALSE ELSE opened
  /\ fromModem' = Inform(modem, Effect(r.op), <<Answer(r)>>)
  /\ UNCHANGED <<hostVars, exchVars, events, stopAsked, readerVars, hangup, countVars>>

\* the network takes a service away or gives it
NetworkChange(k) ==
  /\ nchange < MaxChanges /\ ~hangup /\ step # "ended"
  /\ nchange' = nchange + 1
  /\ LET after == CASE modem[k] = "no" /\ k = "register" -> [modem EXCEPT ![k] = "yes"]
                    [] modem[k] = "yes" /\ k = "register" -> [x \in Kinds |-> "no"]
                    [] k = "packet" /\ modem[k] = "yes" -> Drop([modem EXCEPT ![k] = "no"])
                    [] k = "call" -> Drop(modem)
                    [] OTHER -> modem
     IN /\ after # modem
        /\ modem' = after
        /\ fromModem' = Inform(modem, after, <<>>)
  /\ UNCHANGED <<hostVars, exchVars, events, stopAsked, readerVars, pending,
                 opened, hangup, clean, nfault, nstop>>

Hangup ==
  /\ nfault < MaxFaults /\ ~hangup /\ step # "ended"
  /\ nfault' = nfault + 1 /\ clean' = FALSE
  /\ hangup' = TRUE /\ pending' = {} /\ opened' = FALSE
  /\ modem' = [k \in Kinds |-> "no"]
  /\ UNCHANGED <<hostVars, exchVars, events, stopAsked, readerVars, fromModem,
                 nchange, nstop>>

-----------------------------------------------------------------------------

MainStep ==
  \/ mbim_send_command \/ Return \/ Refused
  \/ MainEvent \/ PollTimeout \/ MainStop \/ Join
ReaderStep == ReadMessage \/ ReaderCloses \/ ReaderLeaves
ModemStep == \E r \in pending : ModemRuns(r)

Ended == step = "ended" /\ UNCHANGED vars

Next ==
  \/ MainStep \/ Timeout \/ ReaderStep \/ ModemStep \/ Signal \/ Hangup
  \/ \E k \in Kinds : NetworkChange(k)
  \/ Ended

Spec == Init /\ [][Next]_vars

\* Both threads run, and the modem answers what it does not leave to a timeout.
FairSpec ==
  Spec /\ WF_vars(MainStep) /\ WF_vars(ReaderStep) /\ WF_vars(ModemStep)

-----------------------------------------------------------------------------
(* Properties *)

\* The answer a command works with is the modem's answer to that command,
\* never the late one of a command that was given up.
AnswerIsMine == mpc = "woken" /\ Answered => response.op = step

\* A manager told to stop whose commands were answered in time leaves the
\* modem without its call, and closed.
StopLeavesNoCall ==
  step = "ended" /\ nstop > 0 /\ clean => modem["call"] = "no" /\ ~opened

\* A command returns, also when the reader leaves while it waits.
CommandReturns == mpc = "waiting" ~> mpc # "waiting"

\* A stop ends the program.
StopEnds == stopAsked ~> step = "ended"

Over == step \in {"joining", "ended"} \/ hangup

\* Whatever indication was lost on the way, the host's view of the call is
\* right in the end, once the network is stable.
CallViewSettles == <>Over \/ <>[]((conn = Up) <=> (modem["call"] = "yes"))

\* A modem that stays registered gets its call.
GetsConnected == <>Over \/ <>(~clean) \/ ([]<>(modem["register"] = "no")) \/ []<>(conn = Up)

\* Commands work with their own answers, and a stop leaves no call
\* (mbim_send_command, mbim_recv_command, mbim_deinit).
CallUnderControl == TypeOK /\ AnswerIsMine /\ StopLeavesNoCall

\* Commands return, a stop ends the program, a registered modem gets its call,
\* and the host's view of the call becomes right.
CallSettles == CommandReturns /\ StopEnds /\ CallViewSettles /\ GetsConnected
=============================================================================
