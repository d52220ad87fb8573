------------------------------- MODULE CmMain -------------------------------
(***************************************************************************)
(* The connection manager quectel-CM: main(), qmi_main() and the request   *)
(* functions it calls, over the exchange layer of QmiTransaction (or its   *)
(* MBIM counterpart), with the reader thread, the signal handler and a     *)
(* modem whose calls drop, whose address changes, that is unplugged, that  *)
(* resets, or that runs a request after the host has given it up.          *)
(*                                                                         *)
(* A request is one step, whose outcome is                                 *)
(*   ok       answered, done                                               *)
(*   err      answered with an error, not done                             *)
(*   timeout  not answered in time, perhaps done later                     *)
(*   null     the reader woke the caller without an answer                 *)
(*   dead     refused: the device is closed or the service has no client   *)
(* The loopback test mode (-l), bridge mode and QMAP are left out.         *)
(***************************************************************************)
EXTENDS Naturals, Sequences, FiniteSets

CONSTANTS
  Setups,     \* how the program is run and on which modem: SetupsAssumption
  Password,   \* profile->user and profile->password are set
  MaxFaults,  \* bound: failing requests, steps of the network and the device
  MaxStops    \* bound: SIGINT/SIGTERM received

ASSUME SetupsAssumption ==
  Setups \subseteq [families : {{"v4"}, {"v6"}, {"v4", "v6"}},
                    ops : {"qmi", "mbim"}, raw : BOOLEAN, attached : BOOLEAN,
                    pin : BOOLEAN, profile : {"none", "other", "wanted"},
                    call : {"connected", "disconnected"}]
ASSUME PasswordAssumption == Password \in BOOLEAN
ASSUME BoundsAssumption == MaxFaults \in Nat /\ MaxStops \in Nat

VARIABLES
  pc,        \* where qmi_main is
  Families,  \* enable_ipv4, enable_ipv6
  ops,       \* profile->request_ops
  raw,       \* s_9x07, profile->rawIP
  ps,        \* PSAttachedState == 1
  conn,      \* IPv4ConnectionStatus, IPv6ConnectionStatus
  handle,    \* WdsConnectionIPv4Handle, WdsConnectionIPv6Handle are set
  addr,      \* profile->ipv4.Address, 0 when unset
  oldProfile,\* profile->old_apn and its companions
  backoff,   \* SetupCallAllowTime lies in the future
  alarm,     \* an alarm() is pending
  sigq,      \* signal_control_fd
  evq,       \* qmidevice_control_fd, events to main
  evReady,   \* poll() reported an event
  link,      \* s_link: the families it shows, {"never"} before the first
  iface,     \* IPv4 address the manager set on the interface (MBIM), 0 when none
  started,   \* history: address of the call when the interface was last started
  passedOver,\* history: a check found no call up and left the interface as it was
  gStay,     \* g_donot_exit_when_modem_hangup
  reader,    \* reader thread: running, stopping (SIG_EVENT_STOP seen), gone
  quitSent,  \* RIL_REQUEST_QUIT is on its way to the reader
  leaked,    \* the reader of a failed round: no, reads (still runs), left
  clients,   \* services of qmiclientId that have an id
  attached,  \* modem: packet service
  pin,       \* modem: the SIM waits for its PIN
  mprofile,  \* modem: profile of the pdp: none, other, wanted
  call,      \* modem: state of each data call
  ip,        \* modem: address of the IPv4 call
  ethRaw,    \* modem: it answers with raw IP framing
  held,      \* modem: client ids it has given out
  reconf,    \* modem: ReconfigReqd, the host must reconfigure its interface
  late,      \* modem: requests given up by the host that it may still run
  hup,       \* the device is gone
  clean,     \* every exchange was answered, every call is one of ours
  nfault, nstop

askVars   == <<nfault, clean>>
hostVars  == <<ps, conn, handle, addr, raw, oldProfile>>
timeVars  == <<backoff, alarm>>
queueVars == <<sigq, evq, evReady>>
netVars   == <<link, iface, started, passedOver>>
modeVars  == <<Families, ops, ethRaw>>
procVars  == <<modeVars, gStay, reader, quitSent, leaked, clients>>
modemVars == <<attached, pin, mprofile, call, ip, reconf, held, late, hup>>
vars == <<pc, askVars, hostVars, timeVars, queueVars, netVars, procVars,
          modemVars, nstop>>

Down == "disconnected"
Up == "connected"
Unknow == "unknow"          \* QWDS_PKT_DATA_UNKNOW, suspended, authenticating

Services == {"wds", "nas"} \cup (IF "v6" \in Families THEN {"wds6"} ELSE {})
Wds(f) == IF f = "v6" THEN "wds6" ELSE "wds"
\* one context carries both families: the IPv6 status follows the IPv4 one
Mirrored == "v4" \in Families /\ ops # "qmi"
AnyDown == \E f \in Families : conn[f] = Down
AnyUp == \E f \in Families : conn[f] = Up

TypeOK ==
  /\ ops \in {"qmi", "mbim"}
  /\ conn \in [Families -> {Down, Up, Unknow}]
  /\ handle \in [Families -> BOOLEAN]
  /\ {addr, iface, started} \subseteq 0..2 /\ ip \in 1..2
  /\ {ps, raw, backoff, alarm, evReady, gStay, quitSent, attached,
      pin, hup, reconf, clean, passedOver} \subseteq BOOLEAN
  /\ link \subseteq Families \cup {"never"}
  /\ clients \subseteq Services /\ held \subseteq Services
  /\ call \in [Families -> {Down, Up, Unknow}]
  /\ late \subseteq ({"start", "stop"} \X Families)
  /\ reader \in {"running", "stopping", "gone"}
  /\ nfault \in 0..MaxFaults /\ nstop \in 0..MaxStops

\* The program starts on a modem that may still hold the call of a manager
\* that was killed.
Init ==
  /\ pc = "boot"
  /\ \E m \in Setups :
       /\ Families = m.families /\ ops = m.ops /\ ethRaw = m.raw
       /\ attached = m.attached /\ pin = m.pin /\ mprofile = m.profile
       /\ call = [f \in Families |-> m.call]
  /\ ps = FALSE /\ raw = FALSE /\ addr = 0 /\ oldProfile = "none"
  /\ conn = [f \in Families |-> Unknow]
  /\ handle = [f \in Families |-> FALSE]
  /\ backoff = FALSE /\ alarm = FALSE
  /\ sigq = <<>> /\ evq = <<>> /\ evReady = FALSE
  /\ link = {"never"} /\ iface = 0 /\ started = 0 /\ passedOver = FALSE
  /\ gStay = FALSE /\ reader = "gone" /\ quitSent = FALSE /\ leaked = "no"
  /\ clients = {}
  /\ ip = 1 /\ reconf = FALSE /\ held = {} /\ late = {} /\ hup = FALSE
  /\ clean = (\A f \in Families : call[f] = Down)
  /\ nfault = 0 /\ nstop = 0

-----------------------------------------------------------------------------
(* Exchanges *)

Outcomes == {"ok", "err", "timeout", "null", "dead"}

\* One request to service s with outcome o.  A manager that was told to stop
\* wakes a waiting caller after a second of silence (QMI), or its reader
\* leaves (MBIM); a reader that leaves wakes the caller.
HasClient(s) == s = "ctl" \/ s \in clients
Revoked(s) == s # "ctl" /\ s \notin held

Ask(s, o) ==
  \/ /\ o = "ok"
     /\ reader # "gone" /\ ~hup /\ HasClient(s) /\ ~Revoked(s)
     /\ UNCHANGED askVars
  \/ /\ o = "err" /\ HasClient(s)
     /\ reader # "gone" /\ ~hup /\ clean' = FALSE
     /\ \/ nfault < MaxFaults /\ nfault' = nfault + 1
        \/ Revoked(s) /\ UNCHANGED nfault
  \/ /\ o = "timeout" /\ HasClient(s)
     /\ reader # "gone" /\ nfault < MaxFaults
     /\ nfault' = nfault + 1 /\ clean' = FALSE
  \/ /\ o = "null" /\ HasClient(s)
     /\ reader = "gone" \/ (reader = "stopping" /\ ops = "qmi")
     /\ clean' = FALSE /\ UNCHANGED nfault
  \/ /\ o = "dead"
     /\ reader = "gone" \/ ~HasClient(s)
     /\ clean' = FALSE /\ UNCHANGED nfault

\* the value a request function returns: 0, an error of the modem or
\* ETIMEDOUT, or a negative errno.  Without an answer the QMI functions
\* return 0, mbim_check_err() makes it 8888.
Ret(o) ==
  CASE o = "ok" -> "0"
    [] o = "null" -> IF ops = "qmi" THEN "0" ELSE "+"
    [] o \in {"err", "timeout"} -> "+"
    [] OTHER -> "-"

\* a request that was not answered may still be run by a modem that is there
MayRunLate(o, what, f) ==
  late' = IF o \in {"timeout", "null"} /\ ~hup THEN late \cup {<<what, f>>} ELSE late

SetConn(f, c) == conn' = [conn EXCEPT ![f] = c]
SetHandle(f, h) == handle' = [handle EXCEPT ![f] = h]

-----------------------------------------------------------------------------
(* Start-up: quectel_CM() and the requests before the loop *)

StayedIn == <<modeVars, gStay, leaked>>

\* the reader cannot open the device, or qmi_ops->init fails: qmi_main()
\* returns without joining the reader or closing its descriptors
BootFails ==
  /\ pc = "boot"
  /\ ~hup /\ leaked = "no"
  /\ pc' = "again"
  /\ leaked' \in {"no", "reads"}      \* open failed, or init failed
  /\ UNCHANGED <<askVars, hostVars, timeVars, queueVars, netVars, modeVars, gStay, reader,
                 quitSent, clients, modemVars, nstop>>

\* QmiWwanInit: client ids one by one; one that is not answered is held by
\* the modem and unknown to the host
Boot ==
  /\ pc = "boot"
  /\ ~hup
  /\ reader' = "running" /\ quitSent' = FALSE
  /\ sigq' = <<>> /\ evq' = <<>> /\ evReady' = FALSE
  /\ ps' = FALSE /\ conn' = [f \in Families |-> Unknow] /\ backoff' = FALSE
  /\ held' = Services
  /\ \/ /\ clients' = Services /\ UNCHANGED askVars
     \/ /\ nfault < MaxFaults /\ ops = "qmi"
        /\ \E s \in Services : clients' = Services \ {s}
        /\ nfault' = nfault + 1 /\ clean' = FALSE
  /\ pc' = "ethmode"
  /\ UNCHANGED <<handle, addr, raw, oldProfile, alarm, netVars, StayedIn,
                 attached, pin, mprofile, call, ip, reconf, late, hup, nstop>>

\* requestSetEthMode: raw IP or Ethernet framing, which is also taken as the
\* generation of the modem
requestSetEthMode(o) ==
  /\ pc = "ethmode"
  /\ pc' = "sim"
  /\ IF ops = "qmi"
     THEN /\ Ask("wds", o)
          /\ raw' = IF o = "ok" THEN ethRaw ELSE raw
     ELSE o = "ok" /\ UNCHANGED <<askVars, raw>>
  /\ UNCHANGED <<ps, conn, handle, addr, oldProfile, timeVars, queueVars,
                 netVars, procVars, modemVars, nstop>>

\* requestGetSIMStatus; QMI_ERR_OP_DEVICE_UNSUPPORTED is asked again
requestGetSIMStatus(o) ==
  /\ pc = "sim"
  /\ Ask("nas", o)
  /\ \/ pc' = IF o = "ok" /\ pin /\ ops = "qmi" THEN "enterpin" ELSE "profile"
     \/ o = "err" /\ pc' = "sim"
  /\ UNCHANGED <<hostVars, timeVars, queueVars, netVars, procVars, modemVars,
                 nstop>>

requestEnterSimPin(o) ==
  /\ pc = "enterpin"
  /\ pc' = "profile"
  /\ Ask("nas", o)
  /\ pin' = (o # "ok")
  /\ UNCHANGED <<hostVars, timeVars, queueVars, netVars, procVars, attached,
                 mprofile, call, ip, reconf, held, late, hup, nstop>>

\* requestGetProfile: a missing profile is created and read again
requestGetProfile(o) ==
  /\ pc = "profile"
  /\ IF ops = "qmi"
     THEN /\ Ask("wds", o)
          /\ IF o = "ok" /\ mprofile = "none"
             THEN mprofile' = "other" /\ UNCHANGED <<pc, oldProfile>>
             ELSE /\ oldProfile' = IF o = "ok" THEN mprofile ELSE "none"
                  /\ pc' = "setprofile" /\ UNCHANGED mprofile
     ELSE /\ o = "ok" /\ pc' = "register0"
          /\ UNCHANGED <<askVars, oldProfile, mprofile>>
  /\ UNCHANGED <<ps, conn, handle, addr, raw, timeVars, queueVars, netVars,
                 procVars, attached, pin, call, ip, reconf, held, late, hup, nstop>>

\* requestSetProfile: skipped when the modem has these settings already
requestSetProfile(o) ==
  /\ pc = "setprofile"
  /\ pc' = "register0"
  /\ IF oldProfile = "wanted"
     THEN o = "ok" /\ UNCHANGED <<askVars, mprofile>>
     ELSE /\ Ask("wds", o)
          /\ mprofile' = IF o = "ok" THEN "wanted" ELSE mprofile
  /\ UNCHANGED <<hostVars, timeVars, queueVars, netVars, procVars, attached,
                 pin, call, ip, reconf, held, late, hup, nstop>>

\* requestRegistrationState of a raw IP modem, and of MBIM: the old state is
\* forgotten before the modem is asked
requestRegistrationState2(o) ==
  /\ Ask("nas", o)
  /\ ps' = (o = "ok" /\ attached)

\* requestRegistrationState of the others: the old state stays without answer
requestRegistrationState1(o) ==
  /\ Ask("nas", o)
  /\ ps' = IF o = "ok" THEN attached ELSE ps

Registered(o) == IF raw \/ ops = "mbim" THEN requestRegistrationState2(o)
                                       ELSE requestRegistrationState1(o)

Register0(o) ==
  /\ pc = "register0"
  /\ Registered(o)
  /\ sigq' = Append(sigq, "CHECK")
  /\ pc' = "loop"
  /\ UNCHANGED <<conn, handle, addr, raw, oldProfile, timeVars, evq, evReady,
                 netVars, procVars, modemVars, nstop>>

-----------------------------------------------------------------------------
(* The loop *)

Back == pc' = IF evReady THEN "event" ELSE "loop"

\* poll() returns: the signal socket is served first, then the event socket
Poll ==
  /\ pc = "loop"
  /\ sigq # <<>> \/ evq # <<>>
  /\ pc' = IF sigq # <<>> THEN "signal" ELSE "event"
  /\ evReady' = (evq # <<>>)
  /\ UNCHANGED <<askVars, hostVars, timeVars, sigq, evq, netVars, procVars,
                 modemVars, nstop>>

PollTimeout ==
  /\ pc = "loop"
  /\ sigq = <<>> /\ evq = <<>>
  /\ sigq' = <<"CHECK">>
  /\ UNCHANGED <<pc, askVars, hostVars, timeVars, evq, evReady, netVars,
                 procVars, modemVars, nstop>>

\* read() of a signal: alarm(0), then the first step of its handler
ReadSignal ==
  /\ pc = "signal"
  /\ sigq' = IF Head(sigq) = "STOP" THEN <<>> ELSE Tail(sigq)
  /\ evq' = IF Head(sigq) = "STOP" THEN <<>> ELSE evq
  /\ LET s == Head(sigq) IN
     \/ /\ s = "START" /\ ~ps
        /\ Back /\ alarm' = FALSE
     \/ /\ s = "START" /\ ps /\ backoff
        /\ Back /\ alarm' = TRUE
     \/ /\ s = "START" /\ ps /\ ~backoff
        /\ pc' = "setup" /\ alarm' = FALSE
     \/ /\ s = "CHECK"
        /\ pc' = (IF ps THEN "query" ELSE "register") /\ alarm' = FALSE
     \/ /\ s = "STOP"
        /\ pc' = "stop" /\ alarm' = FALSE
  /\ UNCHANGED <<askVars, hostVars, backoff, evReady, netVars, procVars,
                 modemVars, nstop>>

Leaves(e) == e \in {"DEVICE_DISCONNECTED", "MODEM_REPORT_RESET"}

ReadEvent ==
  /\ pc = "event"
  /\ evq' = IF Leaves(Head(evq)) THEN <<>> ELSE Tail(evq)
  /\ evReady' = FALSE
  /\ LET e == Head(evq) IN
     \/ /\ e = "DEVICE_DISCONNECTED"
        /\ pc' = "quit" /\ sigq' = <<>> /\ UNCHANGED <<backoff, quitSent, gStay>>
     \/ /\ e = "NETWORK_STATE_CHANGED"
        /\ pc' = "reregister" /\ UNCHANGED <<sigq, backoff, quitSent, gStay>>
     \/ /\ e = "DATA_CALL_LIST_CHANGED"
        /\ backoff' = (backoff \/ AnyUp)       \* do not re-dial immediately
        /\ sigq' = Append(sigq, "CHECK")
        /\ pc' = "loop" /\ UNCHANGED <<quitSent, gStay>>
     \/ /\ e = "MODEM_REPORT_RESET"
        /\ quitSent' = TRUE /\ gStay' = TRUE
        /\ pc' = "quit" /\ sigq' = <<>> /\ UNCHANGED backoff
  /\ UNCHANGED <<askVars, hostVars, alarm, netVars, modeVars, reader, leaked,
                 clients, modemVars, nstop>>

\* RIL_UNSOL_RESPONSE_VOICE_NETWORK_STATE_CHANGED
NetworkChanged(o) ==
  /\ pc = "reregister"
  /\ Registered(o)
  /\ IF ps'
     THEN /\ sigq' = IF AnyDown THEN Append(sigq, "START") ELSE sigq
          /\ UNCHANGED backoff
     ELSE backoff' = FALSE /\ UNCHANGED sigq
  /\ pc' = "loop"
  /\ UNCHANGED <<conn, handle, addr, raw, oldProfile, alarm, evq, evReady,
                 netVars, procVars, modemVars, nstop>>

-----------------------------------------------------------------------------
(* SIG_EVENT_START *)

\* what follows the IPv4 part of START: IPv6, or the end
AfterV4 == IF "v6" \in Families THEN "setup6" ELSE "backoff"

\* no service, or a call of this client is up (QMI_ERR_NO_EFFECT)
Refuses(f) ==
  /\ reader # "gone" /\ ~hup /\ HasClient(Wds(f))
  /\ ~attached \/ call[f] = Up

KeepHandle(f) == [handle EXCEPT ![f] = TRUE]

\* a call for family f; a failed IPv4 call is tried once more with the other
\* authentication when there is a password (pcs retry)
requestSetupDataCall(f, o, here, retry, address, next) ==
  /\ pc = here
  /\ \/ Ask(Wds(f), o) /\ (o = "ok" => attached)
     \/ Refuses(f) /\ o = "err" /\ UNCHANGED askVars
  /\ reconf' = (reconf /\ ~(o = "ok" /\ f = "v4"))
  /\ call' = IF o = "ok" THEN [g \in Families |-> IF g = f \/ ops = "mbim"
                                                   THEN Up ELSE call[g]]
                         ELSE call
  /\ handle' = IF o = "ok" THEN KeepHandle(f) ELSE handle
  /\ MayRunLate(o, "start", f)
  /\ pc' = CASE Ret(o) = "0" -> address
             [] Ret(o) = "+" /\ Password -> retry
             [] OTHER -> next
  /\ UNCHANGED <<ps, conn, addr, raw, oldProfile, timeVars, queueVars, netVars,
                 procVars, attached, pin, mprofile, ip, held, hup, nstop>>

SkipV4 ==
  /\ pc = "setup"
  /\ "v4" \in Families => conn["v4"] = Up
  /\ pc' = AfterV4
  /\ UNCHANGED <<askVars, hostVars, timeVars, queueVars, netVars, procVars,
                 modemVars, nstop>>

SetupV4(o) ==
  /\ "v4" \in Families /\ conn["v4"] # Up
  /\ \/ requestSetupDataCall("v4", o, "setup", "setup_auth", "address", AfterV4)
     \/ requestSetupDataCall("v4", o, "setup_auth", AfterV4, "address", AfterV4)

\* requestGetIPAddress: without a handle the QMI function answers 0 and asks
\* nothing; the address is forgotten first
Address(o, value) ==
  IF ops = "qmi" /\ ~handle["v4"]
  THEN o = "ok" /\ value = 0 /\ UNCHANGED askVars
  ELSE /\ Ask("wds", o)
       /\ value = IF o = "ok" THEN ip ELSE IF ops = "qmi" THEN 0 ELSE addr

AddressV4(o) ==
  /\ pc = "address"
  /\ \E value \in 0..2 : Address(o, value) /\ addr' = value
  /\ conn' = IF Ret(o) = "0" THEN [conn EXCEPT !["v4"] = Up] ELSE conn
  /\ pc' = AfterV4
  /\ UNCHANGED <<ps, handle, raw, oldProfile, timeVars, queueVars, netVars,
                 procVars, modemVars, nstop>>

SetupV6(o) ==
  /\ pc = "setup6"
  /\ \/ /\ conn["v6"] = Up \/ Mirrored
        /\ o = "ok"
        /\ conn' = IF conn["v6"] # Up THEN [conn EXCEPT !["v6"] = conn["v4"]]
                                      ELSE conn
        /\ pc' = "backoff"
        /\ UNCHANGED <<askVars, ps, handle, addr, raw, oldProfile, modemVars>>
        /\ UNCHANGED <<timeVars, queueVars, netVars, procVars, nstop>>
     \/ /\ conn["v6"] # Up /\ ~Mirrored
        /\ requestSetupDataCall("v6", o, "setup6", "backoff", "address6", "backoff")

AddressV6(o) ==
  /\ pc = "address6"
  /\ IF ops = "qmi" /\ ~handle["v6"] THEN o = "ok" /\ UNCHANGED askVars
                                     ELSE Ask("wds6", o)
  /\ conn' = IF Ret(o) = "0" THEN [conn EXCEPT !["v6"] = Up] ELSE conn
  /\ pc' = "backoff"
  /\ UNCHANGED <<ps, handle, addr, raw, oldProfile, timeVars, queueVars,
                 netVars, procVars, modemVars, nstop>>

\* the end of START: wait longer and longer between failing calls
Backoff ==
  /\ pc = "backoff"
  /\ IF AnyDown THEN backoff' = TRUE /\ alarm' = TRUE
     ELSE backoff' = (backoff /\ ~AnyUp) /\ UNCHANGED alarm
  /\ Back
  /\ UNCHANGED <<askVars, hostVars, queueVars, netVars, procVars, modemVars,
                 nstop>>

-----------------------------------------------------------------------------
(* SIG_EVENT_CHECK *)

CheckRegister(o) ==
  /\ pc = "register"
  /\ Registered(o)
  /\ pc' = "query"
  /\ UNCHANGED <<conn, handle, addr, raw, oldProfile, timeVars, queueVars,
                 netVars, procVars, modemVars, nstop>>

\* requestQueryDataCall for family f: the status it leaves behind
Queried(f, o) ==
  IF o = "ok" THEN (IF f = "v4" /\ reconf THEN Down ELSE call[f])
  ELSE IF ops = "mbim" THEN Down ELSE conn[f]

\* a disconnected call has no handle any more (QMI)
Forget(f, o) == IF o = "ok" /\ Queried(f, o) = Down
                THEN [handle EXCEPT ![f] = FALSE] ELSE handle

\* IPv4: a status the modem does not give is taken for disconnected
QueryV4(o) ==
  /\ pc = "query"
  /\ IF "v4" \in Families /\ conn["v4"] # Down
     THEN /\ Ask("wds", o)
          /\ handle' = Forget("v4", o)
          /\ conn' = [conn EXCEPT !["v4"] =
                        IF Ret(o) = "0" THEN Queried("v4", o) ELSE Down]
          /\ pc' = IF Ret(o) = "0" /\ conn'["v4"] = Up
                   THEN (IF addr = 0 THEN "learn" ELSE "compare") ELSE "query6"
     ELSE /\ o = "ok" /\ pc' = "query6"
          /\ UNCHANGED <<askVars, handle, conn>>
  /\ UNCHANGED <<ps, addr, raw, oldProfile, timeVars, queueVars, netVars,
                 procVars, modemVars, nstop>>

\* connected without an address: the manager was killed, ask for it
Learn(o) ==
  /\ pc = "learn"
  /\ \E value \in 0..2 : Address(o, value) /\ addr' = value
  /\ conn' = IF Ret(o) = "0" THEN conn ELSE [conn EXCEPT !["v4"] = Down]
  /\ pc' = IF Ret(o) = "0" THEN "compare" ELSE "query6"
  /\ UNCHANGED <<ps, handle, raw, oldProfile, timeVars, queueVars, netVars,
                 procVars, modemVars, nstop>>

\* Mutant of SameAddress: an address that changed is taken over.
AnyAddress(o, value) == Ret(o) = "0"

SameAddress(o, value) == Ret(o) = "0" /\ value = addr

check_ipv4_address(o) ==
  /\ pc = "compare"
  /\ IF ops = "mbim"
     THEN o = "ok" /\ pc' = "query6" /\ UNCHANGED <<askVars, addr>>
     ELSE \E value \in 0..2 :
            /\ Address(o, value)
            /\ addr' = value
            /\ pc' = IF SameAddress(o, value) THEN "query6" ELSE "hangup"
  /\ UNCHANGED <<ps, conn, handle, raw, oldProfile, timeVars, queueVars,
                 netVars, procVars, modemVars, nstop>>

\* requestDeactivateDefaultPDP: nothing to do without a handle (QMI)
Deactivate(f, o) ==
  IF ops = "qmi" /\ ~handle[f]
  THEN o = "ok" /\ UNCHANGED <<askVars, handle, call, late>>
  ELSE /\ Ask(Wds(f), o)
       /\ handle' = IF o = "ok" THEN [handle EXCEPT ![f] = FALSE] ELSE handle
       /\ call' = IF o = "ok" THEN [g \in Families |-> IF g = f \/ ops = "mbim"
                                                       THEN Down ELSE call[g]]
                              ELSE call
       /\ MayRunLate(o, "stop", f)

Hangup(o) ==
  /\ pc = "hangup"
  /\ Deactivate("v4", o)
  /\ conn' = [conn EXCEPT !["v4"] = Down]
  /\ pc' = "query6"
  /\ UNCHANGED <<ps, addr, raw, oldProfile, timeVars, queueVars, netVars,
                 procVars, attached, pin, mprofile, ip, reconf, held, hup, nstop>>

\* IPv6: a status the modem does not give is left as it was
QueryV6(o) ==
  /\ pc = "query6"
  /\ IF "v6" \in Families /\ conn["v6"] # Down /\ ~Mirrored
     THEN /\ Ask("wds6", o)
          /\ handle' = Forget("v6", o)
          /\ conn' = [conn EXCEPT !["v6"] = Queried("v6", o)]
     ELSE /\ o = "ok"
          /\ conn' = IF Mirrored /\ "v6" \in Families /\ conn["v6"] # Down
                     THEN [conn EXCEPT !["v6"] = conn["v4"]] ELSE conn
          /\ UNCHANGED <<askVars, handle>>
  /\ pc' = "settle"
  /\ UNCHANGED <<ps, addr, raw, oldProfile, timeVars, queueVars, netVars,
                 procVars, modemVars, nstop>>

\* The address on the interface: udhcpc_stop clears it, udhcpc_start sets it
\* over MBIM.  Over QMI it sets none: the interface goes up, a script sets its
\* MTU, and whoever configures the network asks the modem by DHCP.
Configured(l, a) ==
  IF l = {} THEN 0 ELSE IF ops = "mbim" /\ a # 0 THEN a ELSE iface

\* usbnet_link_change: the interface is started again with every new set of
\* families, and stopped when there is none
usbnet_link_change(l) ==
  /\ link' = l
  /\ IF l = link
       THEN UNCHANGED <<addr, iface, started, passedOver>>
       ELSE /\ addr' = IF "v4" \in l THEN addr ELSE 0
            /\ iface' = Configured(l, addr') /\ started' = addr'
            /\ passedOver' = FALSE

\* Mutant of Redial: only when no family is up.
RedialIfAllDown == \A f \in Families : conn[f] = Down

Redial == AnyDown

\* the end of CHECK
Settle ==
  /\ pc = "settle"
  /\ IF \A f \in Families : conn[f] = Down THEN usbnet_link_change({})
     ELSE IF AnyUp THEN usbnet_link_change({f \in Families : conn[f] = Up})
     ELSE /\ passedOver' = TRUE
          /\ UNCHANGED <<link, iface, started, addr>>
  /\ sigq' = IF Redial THEN Append(sigq, "START") ELSE sigq
  /\ Back
  /\ UNCHANGED <<askVars, ps, conn, handle, raw, oldProfile, timeVars, evq,
                 evReady, procVars, modemVars, nstop>>

-----------------------------------------------------------------------------
(* SIG_EVENT_STOP and the end of a round *)

\* Mutant of HangsUp: the IPv6 call is forgotten.
HangsUpV4(f) == f = "v4" /\ f \in Families /\ conn[f] = Up

HangsUp(f) == f \in Families /\ conn[f] = Up /\ (f = "v4" \/ ~Mirrored)

StopCall(f, o, here, next) ==
  /\ pc = here
  /\ IF HangsUp(f)
     THEN Deactivate(f, o)
     ELSE o = "ok" /\ UNCHANGED <<askVars, handle, call, late>>
  /\ pc' = next
  /\ UNCHANGED <<ps, conn, addr, raw, oldProfile, timeVars, queueVars, netVars,
                 procVars, attached, pin, mprofile, ip, reconf, held, hup, nstop>>

StopLink ==
  /\ pc = "stoplink"
  /\ usbnet_link_change({})
  /\ pc' = "deinit"
  /\ UNCHANGED <<askVars, ps, conn, handle, raw, oldProfile, timeVars,
                 queueVars, procVars, modemVars, nstop>>

Released(s) == {s} \ {"wds6"}

\* QmiWwanDeInit: the client of IPv6 is released under a service type the
\* modem does not know, and stays with it; mbim_deinit closes the device
ReleaseClient(s, o) ==
  /\ pc = "deinit"
  /\ s = CHOOSE t \in clients : t = "wds" \/ ("wds" \notin clients /\ t = "nas")
                                 \/ clients = {"wds6"}
  /\ Ask("ctl", o)
  /\ clients' = IF ops = "qmi" THEN clients \ {s} ELSE {}
  /\ held' = IF o # "ok" THEN held
             ELSE IF ops = "mbim" THEN {} ELSE held \ Released(s)
  /\ UNCHANGED <<pc, hostVars, timeVars, queueVars, netVars, modeVars, gStay, reader,
                 quitSent, leaked, attached, pin, mprofile, call, ip, reconf,
                 late, hup, nstop>>

DeInit ==
  /\ pc = "deinit"
  /\ clients = {}
  /\ quitSent' = TRUE
  /\ pc' = "quit"
  /\ UNCHANGED <<askVars, hostVars, timeVars, queueVars, netVars, modeVars, gStay,
                 reader, leaked, clients, modemVars, nstop>>

Quit ==
  /\ pc = "quit"
  /\ usbnet_link_change({})
  /\ pc' = "join"
  /\ UNCHANGED <<askVars, ps, conn, handle, raw, oldProfile, timeVars,
                 queueVars, procVars, modemVars, nstop>>

\* pthread_join(), then the sockets are closed with what they hold
Join ==
  /\ pc = "join"
  /\ reader = "gone"
  /\ pc' = "again"
  /\ evReady' = FALSE /\ quitSent' = FALSE
  /\ UNCHANGED <<askVars, hostVars, timeVars, sigq, evq, netVars, modeVars, gStay, reader,
                 leaked, clients, modemVars, nstop>>

\* main(): once more if the modem had reset
Again ==
  /\ pc = "again"
  /\ pc' = IF gStay THEN "boot" ELSE "ended"
  /\ alarm' = (alarm /\ gStay)
  /\ UNCHANGED <<askVars, hostVars, backoff, queueVars, netVars, procVars,
                 modemVars, nstop>>

Ended == pc = "ended" /\ UNCHANGED vars

-----------------------------------------------------------------------------
(* Signals, time and the reader *)

\* main still reads its sockets; what is written to them later is closed
\* with them
Listening == pc \notin {"stop", "stop6", "stoplink", "deinit", "quit", "join",
                       "again", "boot", "ended"}

\* ql_sigaction; between two rounds the sockets are closed and only
\* g_donot_exit_when_modem_hangup remembers the signal
Signal ==
  /\ nstop < MaxStops /\ pc # "ended"
  /\ nstop' = nstop + 1
  /\ gStay' = FALSE
  /\ sigq' = IF Listening THEN Append(sigq, "STOP") ELSE sigq
  /\ reader' = IF pc \notin {"boot", "again"} /\ reader = "running" THEN "stopping" ELSE reader
  /\ UNCHANGED <<pc, askVars, hostVars, timeVars, evq, evReady, netVars, modeVars,
                 quitSent, leaked, clients, modemVars>>

AlarmFires ==
  /\ alarm /\ pc # "ended"
  /\ alarm' = FALSE /\ backoff' = FALSE
  /\ sigq' = IF Listening THEN Append(sigq, "START") ELSE sigq
  /\ UNCHANGED <<pc, askVars, hostVars, evq, evReady, netVars, procVars,
                 modemVars, nstop>>

BackoffOver ==
  /\ backoff /\ ~alarm /\ Listening
  /\ backoff' = FALSE
  /\ UNCHANGED <<pc, askVars, hostVars, alarm, queueVars, netVars, procVars,
                 modemVars, nstop>>

\* the reader leaves: asked to, the device is gone, or (MBIM) after a second
\* of silence once it was told to stop
ReaderLeaves ==
  /\ reader # "gone"
  /\ quitSent \/ hup \/ (reader = "stopping" /\ ops = "mbim")
  /\ reader' = "gone"
  /\ evq' = IF Listening THEN Append(evq, "DEVICE_DISCONNECTED") ELSE evq
  /\ UNCHANGED <<pc, askVars, hostVars, timeVars, sigq, evReady, netVars, modeVars,
                 gStay, quitSent, leaked, clients, modemVars, nstop>>

\* a reader left over from a round that failed reads the same socket
LeakedReaderQuits ==
  /\ leaked = "reads" /\ quitSent
  /\ leaked' = "left" /\ quitSent' = FALSE
  /\ UNCHANGED evq
  /\ UNCHANGED <<pc, askVars, hostVars, timeVars, sigq, evReady, netVars, modeVars,
                 gStay, reader, clients, modemVars, nstop>>

-----------------------------------------------------------------------------
(* The modem *)

Tell(e) == evq' = IF reader # "gone" /\ Listening THEN Append(evq, e) ELSE evq

Env ==
  /\ nfault < MaxFaults /\ pc # "ended"
  /\ nfault' = nfault + 1
  /\ UNCHANGED <<pc, hostVars, timeVars, sigq, evReady, netVars,
                 procVars, mprofile, nstop>>

Attach ==
  /\ ~hup /\ ~attached /\ ~pin /\ pc # "ended"
  /\ attached' = TRUE /\ Tell("NETWORK_STATE_CHANGED")
  /\ UNCHANGED <<pc, askVars, hostVars, timeVars, sigq, evReady, netVars,
                 procVars, mprofile, nstop, pin, call, ip, reconf, held, late, hup>>

\* the network detaches the modem or ends its calls
DropCalls(detach) ==
  /\ Env /\ ~hup /\ \E f \in Families : call[f] # Down
  /\ call' = [f \in Families |-> Down]
  /\ attached' = (attached /\ ~detach)
  /\ Tell(IF detach THEN "NETWORK_STATE_CHANGED" ELSE "DATA_CALL_LIST_CHANGED")
  /\ UNCHANGED <<pin, ip, reconf, held, late, hup, clean>>

NewAddress ==
  /\ Env /\ ~hup
  /\ ip' = 3 - ip /\ Tell("DATA_CALL_LIST_CHANGED")
  /\ UNCHANGED <<attached, pin, call, reconf, held, late, hup, clean>>

\* dormant or suspended: the modem reports neither state
Suspend(f) ==
  /\ Env /\ ~hup /\ call[f] # Down
  /\ call' = [call EXCEPT ![f] = IF @ = Up THEN Unknow ELSE Up]
  /\ clean' = FALSE
  /\ Tell("DATA_CALL_LIST_CHANGED")
  /\ UNCHANGED <<attached, pin, ip, reconf, held, late, hup>>

Reconfigure ==
  /\ Env /\ ~hup /\ "v4" \in Families /\ ~reconf /\ ops = "qmi"
  /\ call["v4"] = Up
  /\ reconf' = TRUE /\ clean' = FALSE
  /\ Tell("DATA_CALL_LIST_CHANGED")
  /\ UNCHANGED <<attached, pin, call, ip, held, late, hup>>

Unplug ==
  /\ Env /\ ~hup
  /\ hup' = TRUE /\ attached' = FALSE /\ held' = {} /\ late' = {}
  /\ call' = [f \in Families |-> Down]
  /\ reconf' = FALSE
  /\ UNCHANGED <<pin, ip, evq, clean>>

Replug ==
  /\ hup /\ reader = "gone" /\ pc # "ended"
  /\ hup' = FALSE
  /\ UNCHANGED <<pc, askVars, hostVars, timeVars, queueVars, netVars, procVars,
                 attached, pin, mprofile, call, ip, reconf, held, late, nstop>>

\* QMICTL_REVOKE_CLIENT_ID_IND
Reset ==
  /\ Env /\ ~hup /\ ops = "qmi" /\ reader # "gone"
  /\ held' = {} /\ late' = {}
  /\ call' = [f \in Families |-> Down]
  /\ reconf' = FALSE
  /\ Tell("MODEM_REPORT_RESET")
  /\ UNCHANGED <<attached, pin, ip, hup, clean>>

\* a request the host has given up
RunLate(x) ==
  /\ late' = late \ {x}
  /\ call' = [call EXCEPT ![x[2]] = IF x[1] = "start" THEN Up ELSE Down]
  /\ Tell("DATA_CALL_LIST_CHANGED")
  /\ UNCHANGED <<pc, askVars, hostVars, timeVars, sigq, evReady, netVars,
                 procVars, attached, pin, mprofile, ip, reconf, held, hup, nstop>>

-----------------------------------------------------------------------------

Request(o) ==
  \/ requestSetEthMode(o) \/ requestGetSIMStatus(o) \/ requestEnterSimPin(o)
  \/ requestGetProfile(o) \/ requestSetProfile(o)
  \/ Register0(o) \/ NetworkChanged(o) \/ CheckRegister(o)
  \/ SetupV4(o) \/ AddressV4(o) \/ SetupV6(o) \/ AddressV6(o)
  \/ QueryV4(o) \/ Learn(o) \/ check_ipv4_address(o) \/ Hangup(o) \/ QueryV6(o)
  \/ StopCall("v4", o, "stop", "stop6")
  \/ StopCall("v6", o, "stop6", "stoplink")
  \/ \E s \in clients : ReleaseClient(s, o)

MainStep ==
  \/ BootFails \/ Boot
  \/ Poll \/ PollTimeout \/ ReadSignal \/ ReadEvent
  \/ SkipV4 \/ Backoff \/ Settle
  \/ StopLink \/ DeInit \/ Quit \/ Join \/ Again
  \/ \E o \in Outcomes : Request(o)

ReaderStep == ReaderLeaves \/ LeakedReaderQuits
Clock == AlarmFires \/ BackoffOver

ModemStep ==
  \/ Attach \/ NewAddress \/ Reconfigure \/ Unplug \/ Reset
  \/ \E f \in Families : Suspend(f)
  \/ \E d \in BOOLEAN : DropCalls(d)
  \/ \E x \in late : RunLate(x)

Next == MainStep \/ ReaderStep \/ Clock \/ Signal \/ ModemStep \/ Replug \/ Ended

Spec == Init /\ [][Next]_vars

\* The threads run, time passes, an unplugged modem that the manager waits
\* for comes back; the network and the modem owe nothing.
FairSpec ==
  Spec /\ WF_vars(MainStep) /\ WF_vars(ReaderLeaves) /\ WF_vars(Clock)
       /\ WF_vars(Replug)

-----------------------------------------------------------------------------
(* Properties *)

\* A manager that is stopped, and whose requests were all answered, leaves no
\* data call behind in the modem.
StopHangsUp ==
  pc = "deinit" /\ clean /\ ~hup => \A f \in Families : call[f] = Down

\* A manager that ends on a stop whose requests were all answered has given
\* back every client id but the IPv6 one, which the modem never takes back.
StopReleasesClients ==
  pc = "quit" /\ clean /\ clients = {} => held \subseteq {"wds6"}

\* A call the manager reports as connected is one it can hang up: as long as
\* the requests are answered it has the handle of the call.
ConnectedHasHandle ==
  \A f \in Families :
    ops = "qmi" /\ pc = "loop" /\ clean /\ conn[f] = Up => handle[f]

\* The interface was started for the address of the call that is reported
\* (0: not known then).  A new set of families starts it again and a call that
\* comes back with another address is hung up first, but for `passedOver`: a
\* check that finds no call up and one in an unknown state does nothing to it.  Over MBIM the interface carries what is reported and no
\* new address is noticed; over QMI the modem's own address is, as long as
\* nothing waits to be read.
Shown == pc = "loop" /\ "v4" \in link /\ conn["v4"] = Up /\ ~passedOver
NothingWaits == sigq = <<>> /\ evq = <<>> /\ reader = "running" /\ ~hup
InterfaceFresh ==
  Shown => /\ started \in {0, addr}
           /\ ops = "mbim" => iface = addr
           /\ ops = "qmi" /\ NothingWaits => started \in {0, ip}

\* A stop that waits in the queue ends the program, unless the modem resets
\* (the manager then starts over) or a reader of a failed round swallows the
\* request to quit.
StopEnds ==
  (\E i \in DOMAIN sigq : sigq[i] = "STOP") ~> (pc = "ended" \/ gStay \/ leaked # "no")

\* a call the manager does not know of, or a service it got no client id for
Orphaned == \/ \E f \in Families : conn[f] = Down /\ call[f] # Down
            \/ clients # Services

\* With service, and faults that are over, the manager gets connected, unless
\* a call it does not know of blocks it or a client id is missing: neither is
\* ever repaired while it runs.
Reconnects ==
  []<>(attached /\ ~hup) =>
    []<>( \/ pc \in {"again", "boot", "ended", "join"}
          \/ \A f \in Families : conn[f] # Down
          \/ Orphaned )

\* A manager that is stopped leaves neither calls nor client ids behind.
StopCleansUp == TypeOK /\ StopHangsUp /\ StopReleasesClients

\* What the manager and the interface know of a call is true of the call.
CallIsKnown == ConnectedHasHandle /\ InterfaceFresh

\* A stop ends the manager; without one it gets connected again and again.
StopsOrConnects == StopEnds /\ Reconnects
=============================================================================
