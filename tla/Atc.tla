-------------------------------- MODULE Atc ---------------------------------
(***************************************************************************)
(* quectel-CM over AT commands: the channel (atchannel.c) with its pending *)
(* command, its line reader and its handshake, and on it the start of the  *)
(* device and the request functions of atc.c.  The main loop is reduced to *)
(* which request follows which (CmMain has the loop).                      *)
(*                                                                         *)
(* An AT answer carries no transaction id.  A line is attributed to the    *)
(* command that is pending when it is read: a line has the prefix and the  *)
(* value it carries, and of, the command it really answers, which the code *)
(* cannot see.  A critical section of cm_command_mutex is one step.        *)
(***************************************************************************)
EXTENDS Naturals, Sequences, SequencesExt, FiniteSets

CONSTANTS
  Setups,      \* the modems and profiles to start with
  Handshakes,  \* HANDSHAKE_RETRY_COUNT
  StatusTries, \* polls of AT+QNETDEVSTATUS after a dial
  MaxFaults,   \* bound: late answers, hangups, lines that nobody asked for
  MaxChanges,  \* bound: changes made by the network
  MaxStops,    \* bound: SIGINT/SIGTERM received
  MaxTrouble   \* bound: all of them and the restarts together

ASSUME BoundsAssumption ==
  /\ {Handshakes, StatusTries} \subseteq Nat \ {0}
  /\ {MaxFaults, MaxChanges, MaxStops, MaxTrouble} \subseteq Nat

\* A modem answers AT+QNETDEVSTATUS (rg) or knows AT+QNETDEVCTL only (asr).
Modems == [style : {"rg", "asr"}, nat : {"0", "1"}, sim : {"READY", "PIN"},
           registered : BOOLEAN, active : BOOLEAN, bound : BOOLEAN, awake : BOOLEAN]
Profiles == [set : BOOLEAN, differs : BOOLEAN, empty : BOOLEAN]

ASSUME SetupsAssumption ==
  \A s \in Setups : s.modem \in Modems /\ s.profile \in Profiles

VARIABLES
  step,      \* main: the command it runs, pause, loop, joining, ended, failed
  why,       \* what the registration query is for: start, net, check
  tries,     \* handshakes, or polls after a dial
  asr,       \* asr_style_atc
  ps,        \* PSAttachedState
  conn,      \* IPv4ConnectionStatus
  again,     \* g_donot_exit_when_modem_hangup
  mpc,       \* the caller: ready, waiting, woken
  response,  \* sp_response, or NULL
  closed,    \* s_readerClosed
  reader,    \* readerLoop: running, gone
  sms,       \* the reader holds the first line of a message
  events,    \* qmidevice_control_fd, events to main
  stopAsked, \* SIG_EVENT_STOP waits for main
  device,    \* atc_read_thread: running, done
  waitQuit,  \* wait_for_request_quit
  quitSent,  \* RIL_REQUEST_QUIT is on its way to atc_read_thread
  modem,     \* modem: awake, style, nat, sim, registered, active, bound
  profile,   \* the profile asks for an apn, and the modem's differs
  pending,   \* modem: commands received and not answered
  told,      \* modem: it was told to restart and has not done so
  wire,      \* lines on their way to the reader
  hangup,    \* the device is gone
  slip,      \* an answer was late or not whole, or another line was taken for
             \* one: never, running, starting
  reboots, nfault, nchange, nstop

hostVars   == <<step, why, tries, asr, ps, conn, again>>
chanVars   == <<mpc, response, closed>>
readVars   == <<reader, sms>>
deviceVars == <<device, waitQuit, quitSent>>
modemVars  == <<modem, profile, pending, told, wire, hangup>>
countVars  == <<slip, reboots, nfault, nchange, nstop>>
vars == <<hostVars, chanVars, readVars, events, stopAsked, deviceVars,
          modemVars, countVars>>

Down == "disconnected"
Up == "connected"
Unknow == "unknow"

NO_RESULT == "no result"
NUMERIC == "numeric"
SINGLELINE == "single line"
MULTILINE == "multiline"

\* the commands of atc_init and of the requests before the loop; regs is one
\* of AT+CGREG=2, AT+CEREG=2 and AT+C5GREG=2
Starting == {"ate", "usbnet", "devctls", "regs", "style", "nat", "setnat", "cfun",
             "cgmr", "cpin", "pin", "iccid", "imsi", "getprofile", "fixprofile",
             "cgdcont", "setprofile", "setcont"}

\* s_type and s_responsePrefix: the commands that expect one line or several
SingleOps == {"usbnet", "style", "nat", "cpin", "iccid", "getprofile", "reg", "status",
              "query", "ip", "ipaddr", "sigcops"}
MultiOps == {"devctls", "cgmr", "cgdcont", "cops", "actset", "ctlq", "actq", "qeng", "endc"}
Bare == {"ate", "regs", "setnat", "cfun", "pin", "fixprofile",
         "setprofile", "setcont", "act", "dial", "hang"}
Commands == Bare \cup {"imsi"} \cup SingleOps \cup MultiOps

TypeOf(op) == CASE op \in Bare -> NO_RESULT
                [] op = "imsi" -> NUMERIC
                [] op \in SingleOps -> SINGLELINE
                [] OTHER -> MULTILINE
PrefixOf(op) == CASE op \in {"usbnet", "nat"} -> "+QCFG"
                  [] op \in {"style", "status", "query", "ip"} -> "+QNETDEVSTATUS"
                  [] op \in {"devctls", "ctlq"} -> "+QNETDEVCTL"
                  [] op \in {"actset", "actq"} -> "+CGACT"
                  [] op \in {"cops", "sigcops"} -> "+COPS"
                  [] op = "cpin" -> "+CPIN"
                  [] op = "iccid" -> "+QCCID"
                  [] op = "getprofile" -> "+QICSGP"
                  [] op = "reg" -> "+CREG"
                  [] op = "ipaddr" -> "+CGPADDR"
                  [] op = "cgdcont" -> "+CGDCONT"
                  [] op = "qeng" -> "+QENG"
                  [] op = "endc" -> "+QENDC"
                  [] op = "cgmr" -> "any"
                  [] OTHER -> "none"

Line(op, p, v) == [of |-> op, prefix |-> p, value |-> v]
NULL == [final |-> Line("none", "none", "none"), lines |-> <<>>, set |-> FALSE]
Pending == [NULL EXCEPT !.set = TRUE]
HasFinal == response.final.prefix # "none"

Trouble == nfault + nchange + nstop + reboots
MayFault  == nfault < MaxFaults /\ Trouble < MaxTrouble
MayChange == nchange < MaxChanges /\ Trouble < MaxTrouble
MayStop   == nstop < MaxStops /\ Trouble < MaxTrouble

\* bound: an event that waits already is not queued again, main would only
\* ask the modem once more
Posted(e) == IF e \in ToSet(events) THEN events ELSE Append(events, e)

CallUp == modem.active /\ modem.bound

TypeOK ==
  /\ step \in Commands \cup {"pause", "loop", "joining", "ended", "failed"}
  /\ why \in {"start", "net", "check"} /\ tries \in Nat
  /\ {asr, ps, again, closed, sms, stopAsked, waitQuit, quitSent, told, hangup} \subseteq BOOLEAN
  /\ conn \in {Down, Up, Unknow} /\ slip \in {"never", "running", "starting"}
  /\ mpc \in {"ready", "waiting", "woken"}
  /\ mpc = "ready" <=> ~response.set
  /\ TypeOf(step) \in {SINGLELINE, NUMERIC} => Len(response.lines) <= 1
  /\ reader \in {"running", "gone"} /\ device \in {"running", "done"}
  /\ nfault \in 0..MaxFaults /\ nchange \in 0..MaxChanges /\ nstop \in 0..MaxStops

\* at_open: the channel is new, the reader runs; main() keeps its flag
Fresh ==
  /\ step' = "ate" /\ why' = "start" /\ tries' = 0 /\ ps' = FALSE /\ conn' = Unknow
  /\ mpc' = "ready" /\ response' = NULL /\ closed' = FALSE
  /\ reader' = "running" /\ sms' = FALSE /\ events' = <<>> /\ stopAsked' = FALSE
  /\ device' = "running" /\ waitQuit' = FALSE /\ quitSent' = FALSE
  /\ pending' = <<>> /\ wire' = <<>> /\ hangup' = FALSE

\* A modem with a call: the manager before was killed.
Init ==
  /\ step = "ate" /\ why = "start" /\ tries = 0 /\ asr = FALSE /\ ps = FALSE
  /\ conn = Unknow /\ again = FALSE
  /\ mpc = "ready" /\ response = NULL /\ closed = FALSE
  /\ reader = "running" /\ sms = FALSE /\ events = <<>> /\ stopAsked = FALSE
  /\ device = "running" /\ waitQuit = FALSE /\ quitSent = FALSE
  /\ \E s \in Setups : modem = s.modem /\ profile = s.profile
  /\ pending = <<>> /\ told = FALSE /\ wire = <<>> /\ hangup = FALSE
  /\ slip = "never" /\ reboots = 0 /\ nfault = 0 /\ nchange = 0 /\ nstop = 0

-----------------------------------------------------------------------------
(* at_send_command_full() *)

\* writeline, then the command is pending
Send ==
  /\ step \in Commands /\ mpc = "ready" /\ ~closed
  /\ response' = Pending
  /\ mpc' = "waiting"
  /\ pending' = IF hangup THEN pending ELSE Append(pending, step)
  /\ UNCHANGED <<hostVars, closed, readVars, events, stopAsked, deviceVars, modem,
                 profile, told, wire, hangup, countVars>>

\* an answer is late or broken; the start of the device has no idle time to
\* find back into step
Slips == slip' = IF step \in Starting \/ slip = "starting" THEN "starting" ELSE "running"

\* the command is over: clearPendingCommand
Cleared == mpc' = "ready" /\ response' = NULL

Then(s) == step' = s /\ UNCHANGED <<why, tries, asr, ps, conn, again>>

SetupOp == IF asr THEN "actset" ELSE "dial"
QueryOp == IF asr THEN "ctlq" ELSE "query"
IpOp == IF asr THEN "ipaddr" ELSE "ip"
StartProfile == IF profile.set /\ profile.differs THEN "setprofile" ELSE "cops"

\* SIG_EVENT_START, if the modem is attached
DialIf(attached) == IF attached THEN SetupOp ELSE "loop"

\* requestRegistrationState is over; what comes next depends on who asked
AfterRegistration(attached) ==
  /\ ps' = attached
  /\ step' = CASE why = "check" /\ conn # Down -> QueryOp
               [] why # "start" /\ conn = Down -> DialIf(attached)
               [] OTHER -> "loop"
  /\ why' = "start"
  /\ UNCHANGED <<tries, asr, conn, again>>

\* SIG_EVENT_CHECK after requestGetSignalInfo
CheckCall ==
  IF ps THEN Then(IF conn # Down THEN QueryOp ELSE SetupOp)
        ELSE step' = "cops" /\ why' = "check" /\ UNCHANGED <<tries, asr, ps, conn, again>>

\* the call is found up or down; a call not known before has no address yet
CallSeen(isUp) ==
  /\ conn' = IF isUp THEN Up ELSE Down
  /\ step' = IF ~isUp THEN DialIf(ps) ELSE IF conn = Up THEN "loop" ELSE IpOp
  /\ UNCHANGED <<why, tries, asr, ps, again>>

\* a modem that does not know the command, or whose answer is missed
StyleFrom(ok) == asr \/ ~ok

newNat == IF asr THEN "1" ELSE "0"

NatDiffers(ok, v) == ok /\ v # newNat

\* a handshake that fails is tried again
at_handshake(err) ==
  /\ step = "ate"
  /\ tries' = IF err THEN tries + 1 ELSE 0
  /\ step' = IF ~err THEN "pause" ELSE IF tries + 1 < Handshakes THEN "ate" ELSE "failed"
  /\ UNCHANGED <<why, asr, ps, conn, again>>

\* the style of the modem is learned, its NAT mode is set once and takes a
\* restart of the modem
atc_init(ok, err, v) ==
  \/ step = "usbnet" /\ Then("devctls")
  \/ step = "devctls" /\ Then("regs")
  \/ step = "regs" /\ Then("style")
  \/ /\ step = "style" /\ step' = "nat" /\ asr' = StyleFrom(ok)
     /\ UNCHANGED <<why, tries, ps, conn, again>>
  \/ step = "nat" /\ Then(IF NatDiffers(ok, v) THEN "setnat" ELSE "cgmr")
  \/ step = "setnat" /\ Then(IF ok THEN "cfun" ELSE "cgmr")
  \/ /\ step = "cfun" /\ step' = "cgmr" /\ again' = (again \/ ~err)
     /\ UNCHANGED <<why, tries, asr, ps, conn>>

requestBaseBandVersion == step = "cgmr" /\ Then("cpin")

requestGetSIMStatus(ok, v) ==
  /\ step = "cpin"
  /\ Then(IF ~ok THEN "getprofile" ELSE IF v = "READY" THEN "iccid" ELSE "pin")

requestEnterSimPin == step = "pin" /\ Then("getprofile")
requestGetICCID == step = "iccid" /\ Then("imsi")
requestGetIMSI == step = "imsi" /\ Then("getprofile")

\* an answer without its line (RG801H): the profile is written and read again
requestGetProfile(ok) ==
  \/ /\ step = "getprofile"
     /\ Then(IF response.final.prefix = "OK" /\ response.lines = <<>> THEN "fixprofile" ELSE
             IF ok THEN StartProfile ELSE "cgdcont")
  \/ step = "fixprofile" /\ Then(IF ok THEN "getprofile" ELSE "cgdcont")
  \/ step = "cgdcont" /\ Then(StartProfile)

requestSetProfile(ok) ==
  \/ step = "setprofile" /\ Then(IF ok THEN "cops" ELSE "setcont")
  \/ step = "setcont" /\ Then("cops")

\* a dial is polled until the modem has an address; the list is checked then
\* in any case
Polled(ok, err) ==
  IF ~ok /\ ~err /\ tries + 1 < StatusTries
  THEN tries' = tries + 1 /\ UNCHANGED <<step, why, asr, ps, conn, again, events>>
  ELSE /\ tries' = 0
       /\ step' = IF err THEN "loop" ELSE IpOp
       /\ events' = IF err THEN events ELSE Posted("CALL")
       /\ UNCHANGED <<why, asr, ps, conn, again>>

requestRegistrationState(ok, v) ==
  \/ /\ step = "cops"
     /\ IF ok /\ v = "LTE" THEN Then("reg") ELSE AfterRegistration(FALSE)
  \/ step = "reg" /\ AfterRegistration(ok /\ v = "yes")

\* a refused activation or dial is no error of the function: the address is
\* asked for
requestSetupDataCall(ok, err, v) ==
  \/ /\ step = "actset" /\ UNCHANGED events
     /\ Then(IF err THEN "loop" ELSE IF ~ok THEN IpOp ELSE IF v = "yes" THEN "dial" ELSE "act")
  \/ /\ step = "act" /\ UNCHANGED events
     /\ Then(IF err THEN "loop" ELSE IF ok THEN "dial" ELSE IpOp)
  \/ /\ step = "dial"
     /\ Then(IF ok /\ ~asr THEN "status" ELSE IF err THEN "loop" ELSE IpOp)
     /\ events' = IF ok /\ asr THEN Posted("CALL") ELSE events
  \/ step = "status" /\ Polled(ok, err)

requestGetIPAddress(ok) ==
  /\ step \in {"ip", "ipaddr"}
  /\ conn' = IF ok THEN Up ELSE IF conn = Up THEN Down ELSE conn
  /\ step' = IF ~ok /\ conn = Up THEN DialIf(ps) ELSE "loop"
  /\ UNCHANGED <<why, tries, asr, ps, again>>

requestQueryDataCall(ok, v) ==
  \/ step = "query" /\ CallSeen(ok)
  \/ step = "ctlq" /\ IF ok /\ v = "yes" THEN Then("actq") ELSE CallSeen(FALSE)
  \/ step = "actq" /\ CallSeen(ok /\ v = "yes")

requestGetSignalInfo(ok, v) ==
  \/ step = "sigcops" /\ IF ok /\ v = "LTE" THEN Then("qeng") ELSE CheckCall
  \/ step = "qeng" /\ IF ok /\ v = "NSA" THEN Then("endc") ELSE CheckCall
  \/ step = "endc" /\ CheckCall

requestDeactivateDefaultPDP == step = "hang" /\ Then("joining")

\* what the caller does with err and the response it has
Returned(err) ==
  LET first == IF response.lines = <<>> THEN "none" ELSE Head(response.lines).value
      \* a successful command must have an intermediate response
      invalid == /\ TypeOf(step) \in {SINGLELINE, NUMERIC} /\ step # "usbnet"
                 /\ response.final.prefix = "OK" /\ response.lines = <<>>
      ok == ~err /\ ~invalid /\ response.final.prefix = "OK"
      bad == err \/ invalid
  IN /\ \/ requestSetupDataCall(ok, bad, first)
        \/ /\ UNCHANGED events
           /\ \/ at_handshake(bad) \/ atc_init(ok, bad, first)
              \/ requestBaseBandVersion \/ requestGetSIMStatus(ok, first)
              \/ requestEnterSimPin \/ requestGetICCID \/ requestGetIMSI
              \/ requestGetProfile(ok) \/ requestSetProfile(ok)
              \/ requestRegistrationState(ok, first) \/ requestGetIPAddress(ok)
              \/ requestQueryDataCall(ok, first) \/ requestGetSignalInfo(ok, first)
              \/ requestDeactivateDefaultPDP
     /\ quitSent' = (quitSent \/ step = "hang")

\* woken by the final response or by the end of the channel
Return ==
  /\ mpc = "woken"
  /\ Returned(closed)
  /\ Cleared
  /\ UNCHANGED <<closed, readVars, stopAsked, device, waitQuit, modemVars, countVars>>

\* nothing is left that could answer: only the timeout ends the wait
Starved == closed \/ (pending = <<>> /\ wire = <<>>)
Late == step = "ate" /\ ~modem.awake

\* Mutant of Timeout: only the handshake is timed.
TimeoutHandshake ==
  /\ mpc = "waiting" /\ step = "ate"
  /\ Late \/ Starved \/ MayFault
  /\ nfault' = IF Late \/ Starved THEN nfault ELSE nfault + 1
  /\ Returned(TRUE)
  /\ Cleared
  /\ UNCHANGED <<closed, readVars, stopAsked, device, waitQuit, modemVars,
                 slip, reboots, nchange, nstop>>

\* ETIMEDOUT; also when the final response comes just between two of the
\* four waits, for the wait does not look at it
Timeout ==
  /\ mpc = "waiting" \/ (mpc = "woken" /\ HasFinal)
  /\ Late \/ Starved \/ MayFault
  /\ nfault' = IF Late \/ Starved THEN nfault ELSE nfault + 1
  /\ IF step = "ate" THEN UNCHANGED slip ELSE Slips
  /\ Returned(TRUE)
  /\ Cleared
  /\ UNCHANGED <<closed, readVars, stopAsked, device, waitQuit, modemVars,
                 reboots, nchange, nstop>>

\* AT_ERROR_CHANNEL_CLOSED
Refused ==
  /\ step \in Commands /\ mpc = "ready" /\ closed
  /\ Returned(TRUE)
  /\ Slips
  /\ UNCHANGED <<chanVars, readVars, stopAsked, device, waitQuit, modemVars,
                 reboots, nfault, nchange, nstop>>

\* Mutant of PauseOver: the commands follow at once.
PauseSkipped ==
  /\ step = "pause" /\ Then("usbnet")
  /\ UNCHANGED <<chanVars, readVars, events, stopAsked, deviceVars, modemVars, countVars>>

\* at_handshake: a second for the unmatched answers of earlier tries
PauseOver ==
  /\ step = "pause" /\ Starved
  /\ Then("usbnet")
  /\ UNCHANGED <<chanVars, readVars, events, stopAsked, deviceVars, modemVars, countVars>>

-----------------------------------------------------------------------------
(* The main loop, as far as it decides which request is next *)

LoopStep ==
  /\ step = "loop"
  /\ UNCHANGED <<chanVars, readVars, device, waitQuit, modemVars, countVars>>

\* signals are read before events
MainEvent ==
  /\ LoopStep /\ ~stopAsked /\ events # <<>>
  /\ events' = Tail(events)
  /\ CASE Head(events) = "NET" ->
            step' = "cops" /\ why' = "net" /\ UNCHANGED <<tries, asr, ps, conn, again>>
       [] Head(events) = "CALL" -> Then("sigcops")
       [] OTHER -> Then("joining")
  /\ UNCHANGED <<stopAsked, quitSent>>

\* 15 seconds without an event, enough for an answer given up to come in
PollTimeout ==
  /\ LoopStep /\ ~stopAsked /\ events = <<>> /\ Starved
  /\ Then("sigcops")
  /\ UNCHANGED <<events, stopAsked, quitSent>>

MainStop ==
  /\ LoopStep /\ stopAsked
  /\ IF conn = Up THEN Then("hang") /\ UNCHANGED quitSent
                  ELSE Then("joining") /\ quitSent' = TRUE
  /\ UNCHANGED <<events, stopAsked>>

Join ==
  /\ step = "joining" /\ device = "done"
  /\ Then("ended")
  /\ UNCHANGED <<chanVars, readVars, events, stopAsked, deviceVars, modemVars, countVars>>

\* the program starts over; once a modem was told to restart it does so after
\* every end of a round, until a stop clears the flag; it sleeps for 3 seconds
\* first, in which the modem does what it was told
Again ==
  /\ step = "ended" /\ again /\ ~told
  /\ Fresh
  /\ UNCHANGED <<asr, again, modem, profile, told, countVars>>

\* ql_sigaction: both threads are told
Signal ==
  /\ MayStop /\ step \notin {"ended", "failed", "joining"}
  /\ nstop' = nstop + 1
  /\ again' = FALSE
  /\ stopAsked' = TRUE /\ waitQuit' = TRUE
  /\ UNCHANGED <<step, why, tries, asr, ps, conn, chanVars, readVars, events, device, quitSent, modemVars,
                 slip, reboots, nfault, nchange>>

-----------------------------------------------------------------------------
(* readerLoop(), processLine(), atc_read_thread() *)

CondSignal == mpc' = IF mpc = "waiting" THEN "woken" ELSE mpc

\* onUnsolicited
handleUnsolicited(l) ==
  events' = CASE l.prefix = "+QNETDEVSTATUS" -> Posted("CALL")
              [] l.prefix = "+CREG" -> Posted("NET")
              [] OTHER -> events

IsFinal(l) == l.prefix \in {"OK", "error"}

\* the line is an intermediate response of the pending command
Expected(l) ==
  CASE TypeOf(step) = NO_RESULT -> FALSE
    [] TypeOf(step) = NUMERIC -> response.lines = <<>> /\ l.prefix = "digits"
    [] TypeOf(step) = SINGLELINE -> response.lines = <<>> /\ l.prefix = PrefixOf(step)
    [] OTHER -> PrefixOf(step) \in {l.prefix, "any"}

processLine(l) ==
  IF ~response.set THEN handleUnsolicited(l) /\ UNCHANGED chanVars
  ELSE IF IsFinal(l)
       THEN /\ response' = [response EXCEPT !.final = l]
            /\ CondSignal /\ UNCHANGED <<closed, events>>
  ELSE IF Expected(l)
       THEN /\ response' = [response EXCEPT !.lines = Append(@, l)]
            /\ UNCHANGED <<mpc, closed, events>>
  ELSE handleUnsolicited(l) /\ UNCHANGED chanVars

\* whole lines, in order
readline == wire # <<>> /\ wire' = Tail(wire)

\* a final response that the modem sent by itself is taken for the answer to
\* the command that waits; the pause after the handshake makes up for one there
Stray(l) == l.of = "urc" /\ IsFinal(l) /\ response.set /\ step # "ate"

\* a message indication takes the line after it, whatever that is
ReadLine ==
  /\ reader = "running" /\ ~closed /\ readline
  /\ IF sms THEN /\ sms' = FALSE
                 /\ IF Head(wire).of = "urc" THEN UNCHANGED slip ELSE Slips
                 /\ UNCHANGED <<chanVars, events>>
     ELSE IF Head(wire).prefix = "+CMTI"
          THEN sms' = TRUE /\ UNCHANGED <<chanVars, events, slip>>
     ELSE /\ processLine(Head(wire)) /\ UNCHANGED sms
          /\ IF Stray(Head(wire)) THEN Slips ELSE UNCHANGED slip
  /\ UNCHANGED <<hostVars, reader, stopAsked, deviceVars, modem, profile, pending, told,
                 hangup, reboots, nfault, nchange, nstop>>

\* readline returns NULL: the end of the stream
onReaderClosed ==
  /\ reader = "running" /\ (closed \/ (hangup /\ wire = <<>>))
  /\ reader' = "gone"
  /\ closed' = TRUE
  /\ IF closed THEN UNCHANGED mpc ELSE CondSignal
  /\ UNCHANGED <<hostVars, response, sms, events, stopAsked, deviceVars, modemVars, countVars>>

at_close ==
  /\ closed' = TRUE
  /\ CondSignal
  /\ UNCHANGED response

\* RIL_REQUEST_QUIT, the device is gone, or a second of silence after a stop
DeviceLeaves ==
  /\ device = "running"
  /\ quitSent \/ hangup \/ (waitQuit /\ wire = <<>>)
  /\ device' = "done"
  /\ at_close
  /\ events' = Append(events, "DISCONNECTED")
  /\ IF quitSent \/ step \notin Commands THEN UNCHANGED slip ELSE Slips
  /\ UNCHANGED <<hostVars, readVars, stopAsked, waitQuit, quitSent, modemVars,
                 reboots, nfault, nchange, nstop>>

-----------------------------------------------------------------------------
(* The modem *)

Knows(op) ==
  CASE op \in {"style", "status", "query", "ip"} ->
         modem.style = "rg" /\ (op = "style" \/ CallUp)
    [] op = "dial" -> IF modem.style = "asr" THEN modem.active ELSE modem.registered
    [] op = "act" -> modem.registered
    [] op = "ipaddr" -> CallUp
    [] OTHER -> TRUE

yesno(b) == IF b THEN "yes" ELSE "no"

\* the lines before the final response
Says(op) ==
  LET one(v) == <<Line(op, PrefixOf(op), v)>> IN
  CASE ~Knows(op) \/ op \in Bare -> <<>>
    [] op = "usbnet" -> one("1")
    [] op = "nat" -> one(modem.nat)
    [] op = "cpin" -> one(modem.sim)
    [] op = "imsi" -> <<Line(op, "digits", "imsi")>>
    [] op = "cgmr" -> <<Line(op, "version", "version")>>
    [] op = "getprofile" -> IF profile.set /\ profile.empty THEN <<>> ELSE one("profile")
    [] op \in {"cops", "sigcops"} -> one(IF modem.registered THEN "LTE" ELSE "none")
    [] op = "reg" -> one(yesno(modem.registered))
    [] op \in {"actset", "actq"} -> one(yesno(modem.active))
    [] op = "ctlq" -> one(yesno(modem.bound))
    [] op = "qeng" -> one(IF modem.style = "rg" THEN "NSA" ELSE "LTE")
    [] OTHER -> one("value")

Effect(op) ==
  CASE op = "setnat" -> [modem EXCEPT !.nat = newNat]
    [] op = "pin" -> [modem EXCEPT !.sim = "READY"]
    [] op = "act" /\ Knows(op) -> [modem EXCEPT !.active = TRUE]
    [] op = "dial" /\ Knows(op) -> [modem EXCEPT !.active = TRUE, !.bound = TRUE]
    [] op = "hang" -> [modem EXCEPT !.bound = FALSE, !.active = modem.style = "asr" /\ @]
    [] OTHER -> modem

modemOnly == <<hostVars, chanVars, readVars, events, stopAsked, deviceVars>>

\* the command takes effect and its lines are written
ModemAnswers ==
  /\ modem.awake /\ ~hangup /\ pending # <<>>
  /\ pending' = Tail(pending)
  /\ LET op == Head(pending)
     IN /\ wire' = wire \o Says(op)
                        \o <<Line(op, IF Knows(op) THEN "OK" ELSE "error", "none")>>
        /\ modem' = Effect(op)
        /\ profile' = CASE op = "fixprofile" -> [profile EXCEPT !.empty = FALSE]
                        [] op \in {"setprofile", "setcont"} -> [profile EXCEPT !.differs = FALSE]
                        [] OTHER -> profile
        /\ told' = (told \/ op = "cfun")
  /\ UNCHANGED <<modemOnly, hangup, countVars>>

\* a moment after it has answered AT+CFUN=1,1
Restart ==
  /\ told /\ step # "cfun" /\ ~hangup
  /\ reboots' = reboots + 1
  /\ told' = FALSE /\ hangup' = TRUE /\ pending' = <<>>
  /\ modem' = [modem EXCEPT !.awake = FALSE, !.active = FALSE, !.bound = FALSE]
  /\ UNCHANGED <<modemOnly, profile, wire, slip, nfault, nchange, nstop>>

Wake ==
  /\ ~modem.awake /\ ~hangup
  /\ modem' = [modem EXCEPT !.awake = TRUE]
  /\ UNCHANGED <<modemOnly, profile, pending, told, wire, hangup, countVars>>

\* an unsolicited line, perhaps between the lines of an answer
Urc(p) == \E i \in 1..(Len(wire) + 1) : wire' = InsertAt(wire, i, Line("urc", p, "no"))

\* registration and call come and go; the lines that tell are unsolicited
NetworkChange(m, p) ==
  /\ MayChange /\ modem.awake /\ ~hangup /\ m # modem
  /\ nchange' = nchange + 1
  /\ modem' = m
  /\ Urc(p)
  /\ UNCHANGED <<modemOnly, profile, pending, told, hangup, slip, reboots, nfault, nstop>>

Registers == NetworkChange([modem EXCEPT !.registered = TRUE], "+CREG")
Deregisters ==
  NetworkChange([modem EXCEPT !.registered = FALSE, !.active = FALSE, !.bound = FALSE], "+CREG")
DropsCall == NetworkChange([modem EXCEPT !.active = FALSE, !.bound = FALSE], "+QNETDEVSTATUS")

\* a short message is stored; a data call ends with NO CARRIER, a firmware
\* update with +QIND: "FOTA","END",0: lines like those of final responses
Unasked(p) ==
  /\ MayFault /\ modem.awake /\ ~hangup
  /\ nfault' = nfault + 1
  /\ Urc(p)
  /\ UNCHANGED <<modemOnly, modem, profile, pending, told, hangup, slip, reboots, nchange, nstop>>

Hangup ==
  /\ MayFault /\ ~hangup /\ step \notin {"ended", "failed"}
  /\ nfault' = nfault + 1 /\ Slips
  /\ hangup' = TRUE /\ told' = FALSE /\ pending' = <<>>
  /\ modem' = [modem EXCEPT !.active = FALSE, !.bound = FALSE]
  /\ UNCHANGED <<modemOnly, profile, wire, reboots, nchange, nstop>>

-----------------------------------------------------------------------------

MainStep ==
  \/ Send \/ Return \/ Refused \/ PauseOver
  \/ MainEvent \/ PollTimeout \/ MainStop \/ Join \/ Again
ReaderStep == ReadLine \/ onReaderClosed
ModemStep == ModemAnswers \/ Restart \/ Wake
StarvedTimeout == (Starved \/ Late) /\ Timeout

Next ==
  \/ MainStep \/ Timeout \/ ReaderStep \/ DeviceLeaves \/ ModemStep
  \/ Signal \/ Registers \/ Deregisters \/ DropsCall \/ Hangup
  \/ \E p \in {"+CMTI", "OK", "error"} : Unasked(p)

Spec == Init /\ [][Next]_vars

\* The threads run, a timed wait ends, and the modem answers what it does not
\* leave to a timeout.
FairSpec ==
  /\ Spec
  /\ WF_vars(MainStep) /\ WF_vars(ReaderStep) /\ WF_vars(DeviceLeaves)
  /\ WF_vars(ModemStep) /\ WF_vars(StarvedTimeout)

-----------------------------------------------------------------------------
(* Properties *)

\* As long as every command was answered in time, and no NO CARRIER or the like
\* came while one waited (atchannel.c:132), the response a command returns with
\* is the modem's answer to it: the handshake leaves no OK of an earlier try
\* behind, a final response that came between two commands is passed over, and
\* only another unsolicited line may be taken for one of the answer.
AnswerIsMine ==
  mpc = "woken" /\ HasFinal /\ slip = "never" =>
    /\ response.final.of = step \/ (step = "ate" /\ response.final.of = "urc")
    /\ \A i \in DOMAIN response.lines : response.lines[i].of \in {step, "urc"}

\* The modem is not restarted over and over for its NAT mode.
RestartedOnce == slip = "never" => reboots <= 1

\* A manager told to stop whose commands were answered leaves no call, once
\* it has learned whether there is one.
StopLeavesNoCall ==
  step = "ended" /\ nstop > 0 /\ slip = "never" /\ conn # Unknow => ~CallUp

\* A command returns: the answer, a timeout or the end of the channel.
CommandReturns == []<>(mpc # "waiting")

\* A stop ends the program; not so after an answer missed while the device
\* is started: then requestGetProfile may take the answers of the command
\* before for its own, and try for ever.
StopEnds ==
  <>[](slip = "starting") \/ []<>(~stopAsked \/ step \in {"ended", "failed"})

Gone == step \in {"joining", "ended", "failed"} \/ hangup

\* The view of the call is right in the end, once the network is stable,
\* also when an unsolicited line was taken for a line of an answer.
CallViewSettles ==
  <>[](slip # "never") \/ <>[]Gone \/ <>[]((conn = Up) <=> CallUp)

\* A modem that stays registered gets its call, whatever its style.  Not so
\* after a late answer: its line may pass for an unsolicited one, which makes
\* the main thread ask again and take the rest of it for the new answer.
GetsConnected ==
  <>[](slip # "never") \/ <>[]Gone \/ []<>(~modem.registered) \/ []<>(conn = Up)

\* Commands work with their own answers, a stop leaves no call, and the modem
\* is not restarted again and again (at_send_command_full_nolock, atc_init).
CallUnderControl == TypeOK /\ AnswerIsMine /\ RestartedOnce /\ StopLeavesNoCall

\* Commands return, a stop ends the program, a registered modem gets its call,
\* and the host's view of the call becomes right.
CallSettles == CommandReturns /\ StopEnds /\ CallViewSettles /\ GetsConnected
=============================================================================
