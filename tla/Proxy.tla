------------------------------- MODULE Proxy -------------------------------
(***************************************************************************)
(* The three proxies that share one modem channel between several managers:*)
(* quectel-qmi-proxy, quectel-mbim-proxy and quectel-atc-proxy.  They have *)
(* one skeleton (open the device, wake the modem up, start a local server, *)
(* one poll loop for the device and all clients, start over when the       *)
(* device goes) and differ in how an answer finds its client:              *)
(*   qmi   control answers belong to the head of a queue of requests, of   *)
(*         which only the head is with the modem; other answers go by the  *)
(*         client id the proxy saw being allocated                         *)
(*   mbim  the slot of the client travels in the transaction id            *)
(*   atc   one command at a time; lines go to current_client_fd, or to all *)
(*                                                                         *)
(* A client's write and the loop's read of it are one step, and so are the *)
(* modem's answer and the loop's read of that.                             *)
(***************************************************************************)
EXTENDS Naturals, Sequences, SequencesExt

CONSTANTS
  Kinds,         \* which proxies: a subset of {"qmi", "mbim", "atc"}
  MaxClients,    \* managers that are there or remembered at one time
  MaxFds,        \* descriptors the kernel gives to connections
  CM_MAX_CLIENT, \* slots of the MBIM proxy
  Ids,           \* client ids of the QMI service the clients use
  Tries,         \* attempts to wake the modem up (10 SYNCs, 5 retries)
  MaxAsks,       \* bound: requests of the clients
  MaxFaults      \* bound: lost answers, indications, hang-ups, resets, signals

ASSUME KindsAssumption == Kinds \subseteq {"qmi", "mbim", "atc"}
ASSUME FdsAssumption == MaxFds \in Nat
ASSUME BoundsAssumption ==
  /\ MaxClients \in Nat /\ CM_MAX_CLIENT \in Nat /\ Tries \in Nat
  /\ MaxAsks \in Nat /\ MaxFaults \in Nat
  /\ Ids \subseteq Nat \ {0}

VARIABLES
  kind,
  mpc,      \* main(): open, init, serve, ended
  tries,
  quit,     \* SIGINT: no, seen (the loop was in poll), missed (it was not)
  list,     \* the connections in list order, by descriptor or slot
  conn,     \* the client at the other end
  ids,      \* QMI: client ids of each connection (client_qnode)
  ctlq,     \* QMI: qmi_proxy_ctl_msg, requests with their ClientFd
  busy,     \* AT: the loop is inside at_send_command
  pollfds,  \* AT: connection part of the array of the last poll
  dev,      \* requests with the modem, oldest first, with their transaction tag
  granted,  \* modem: owner of each client id
  plugged,  \* the device is there
  got,      \* the last step handed the answer to this request to these clients
  clean,    \* no client left with a request under way, no fault of the modem
  leaked,   \* MBIM: the server of an earlier round was never closed
  leftBehind, \* history of this round: a client left with two control requests
            \* queued, or a control answer was lost
  nask, nfault

loopVars  == <<list, conn, ids, ctlq, pollfds>>
mainVars  == <<mpc, tries, quit>>
modemVars == <<dev, granted, plugged>>
lossVars  == <<leaked, leftBehind>>
vars == <<kind, mainVars, loopVars, busy, nask, modemVars, got, clean, nfault,
          lossVars>>

Fds == 1..MaxFds
Clients == 1..MaxClients
None == 0
Requests == [who : Clients, what : {"get", "release", "data"}, id : Ids \cup {0}]
NoRequest == [who |-> None, what |-> "none", id |-> 0]
Nothing == [req |-> NoRequest, to |-> {}]
NoIds == [f \in Fds |-> {}]
Lowest(S) == CHOOSE x \in S : \A y \in S : x <= y
IsCtl(r) == r.what \in {"get", "release"}
Wants == IF kind = "qmi" THEN {"get", "release", "data"} ELSE {"data"}

TypeOK ==
  /\ kind \in Kinds
  /\ mpc \in {"open", "init", "serve", "ended"} /\ tries \in 0..Tries
  /\ quit \in {"no", "seen", "missed"}
  /\ list \in BoundedSeq(Fds, MaxFds) /\ IsInjective(list)
  /\ conn \in [Fds -> Clients \cup {None}]
  /\ ids \in [Fds -> SUBSET Ids]
  /\ \A i \in DOMAIN ctlq : ctlq[i] \in [fd : Fds, req : Requests]
  /\ busy \in BOOLEAN
  /\ pollfds \in [1..MaxFds + 1 -> Fds \cup {0}]
  /\ \A i \in DOMAIN dev : dev[i] \in [req : Requests, tag : Fds \cup {0}]
  /\ granted \in [Ids -> Clients \cup {None}]
  /\ {plugged, clean, leaked, leftBehind} \subseteq BOOLEAN
  /\ got.to \subseteq Clients /\ got.req \in Requests \cup {NoRequest}
  /\ nask \in 0..MaxAsks
  /\ nfault \in 0..MaxFaults

Init ==
  /\ kind \in Kinds
  /\ mpc = "open" /\ tries = 0 /\ quit = "no"
  /\ list = <<>> /\ conn = [f \in Fds |-> None] /\ ids = NoIds
  /\ ctlq = <<>> /\ busy = FALSE
  /\ pollfds = [i \in 1..MaxFds + 1 |-> 0]
  /\ nask = 0 /\ dev = <<>> /\ granted = [i \in Ids |-> None]
  /\ plugged = TRUE /\ got = Nothing /\ clean = TRUE /\ nfault = 0
  /\ leaked = FALSE /\ leftBehind = FALSE

Fault == nfault < MaxFaults /\ nfault' = nfault + 1

-----------------------------------------------------------------------------
(* main(): open the device, wake the modem up, serve, start over *)

\* the loop thread starts with empty lists
Open ==
  /\ mpc = "open" /\ plugged /\ quit = "no"
  /\ mpc' = "init" /\ tries' = 0
  /\ ctlq' = <<>> /\ dev' = <<>> /\ got' = Nothing
  /\ leftBehind' = FALSE
  /\ UNCHANGED <<kind, quit, list, conn, ids, pollfds, busy, nask, granted,
                 plugged, clean, nfault, leaked>>

\* SYNC, OPEN or the handshake is answered; SYNC makes the modem forget the
\* client ids of the round before
InitAnswered ==
  /\ mpc = "init" /\ plugged /\ ~leaked
  /\ mpc' = "serve" /\ tries' = 0 /\ got' = Nothing
  /\ granted' = IF kind = "qmi" THEN [i \in Ids |-> None] ELSE granted
  /\ UNCHANGED <<kind, quit, loopVars, busy, nask, dev, plugged, clean, nfault, lossVars>>

\* proxy_make_server() fails, as the name still belongs to the server that was
\* never closed: nothing comes for ten seconds, and the MBIM proxy starts over
NoServer ==
  /\ mpc = "init" /\ leaked
  /\ mpc' = "open" /\ got' = Nothing
  /\ UNCHANGED <<kind, tries, quit, loopVars, busy, nask, modemVars, clean, nfault,
                 lossVars>>

TryAgain == tries < Tries

\* the modem stays silent: the MBIM proxy starts over, the other two try
\* again and, when they have tried often enough, serve all the same
InitTimeout ==
  /\ mpc = "init"
  /\ IF kind = "mbim"
     THEN /\ Fault /\ mpc' = "open"
          /\ UNCHANGED tries
     ELSE /\ IF TryAgain THEN tries' = tries + 1 /\ UNCHANGED mpc
                              ELSE tries' = 0 /\ mpc' = "serve"
          /\ UNCHANGED nfault
  /\ got' = Nothing
  /\ UNCHANGED <<kind, quit, loopVars, busy, nask, modemVars, clean, lossVars>>

LoopEnds ==
  /\ mpc \in {"init", "serve"} /\ ~busy
  /\ list' = <<>> /\ conn' = [f \in Fds |-> None] /\ ids' = NoIds
  /\ got' = Nothing
  /\ clean' = (clean /\ list = <<>>)
  /\ UNCHANGED <<kind, tries, quit, ctlq, pollfds, busy, nask, modemVars, nfault, lossVars>>

\* the loop ends: cleanup of every connection, the server is closed; the
\* client ids of the connections stay with the modem
LoopExit ==
  /\ LoopEnds
  /\ ~plugged \/ quit = "seen"
  /\ mpc' = IF quit = "no" THEN "open" ELSE "ended"

\* a proxy that waits for its device leaves when it looks at quit again
StopWhileClosed ==
  /\ mpc = "open" /\ quit # "no"
  /\ mpc' = "ended" /\ got' = Nothing
  /\ UNCHANGED <<kind, tries, quit, loopVars, busy, nask, modemVars,
                 clean, nfault, lossVars>>

\* sig_action: pthread_kill interrupts a poll(); a loop that has tested
\* qmi_proxy_quit and not yet called poll() misses it until the next event.
\* Without the server it polls for 200 ms only; the MBIM proxy has no handler
\* and dies.
Signal(when) ==
  /\ mpc # "ended" /\ quit = "no" /\ Fault
  /\ quit' = IF mpc = "serve" /\ kind # "mbim" THEN when ELSE "seen"
  /\ got' = Nothing
  /\ UNCHANGED <<kind, mpc, tries, loopVars, busy, nask, modemVars, clean, lossVars>>

\* the loop tests quit again after every event
Turn == quit' = IF quit = "missed" THEN "seen" ELSE quit

Looping == mpc = "serve" /\ quit # "seen"

-----------------------------------------------------------------------------
(* Connections *)

\* the array of the next poll: its entries past the list keep what they held
NextPoll(l) ==
  IF kind = "atc" THEN [i \in DOMAIN pollfds |-> IF i <= Len(l) THEN l[i] ELSE pollfds[i]]
  ELSE pollfds

FreeFds == {f \in Fds : conn[f] = None}
FirstFree == Lowest(FreeFds)

\* requests of client c that are queued or with the modem
UnderWay(c) ==
  \/ \E i \in DOMAIN dev : dev[i].req.who = c
  \/ \E i \in DOMAIN ctlq : ctlq[i].req.who = c

\* a manager of which neither the proxy nor the modem knows anything
Strangers == {c \in Clients : /\ \A f \in Fds : conn[f] # c
                              /\ \A i \in Ids : granted[i] # c
                              /\ ~UnderWay(c)}

\* accept: the lowest descriptor, or the first free slot of cm_clients
Connect ==
  /\ Looping /\ ~busy
  /\ Strangers # {}
  /\ FreeFds # {} /\ (kind = "mbim" => Len(list) < CM_MAX_CLIENT)
  /\ list' = Append(list, FirstFree)
  /\ conn' = [conn EXCEPT ![FirstFree] = Lowest(Strangers)]
  /\ pollfds' = NextPoll(list')
  /\ got' = Nothing /\ Turn
  /\ UNCHANGED <<kind, mpc, tries, ids, ctlq, busy, nask, modemVars,
                 clean, nfault, lossVars>>

\* cleanup_qmi_connection: only the first queued request of the connection
\* is removed
QueuedOf(q, f) == {i \in DOMAIN q : q[i].fd = f}
ForgetCtl(q, f) ==
  IF QueuedOf(q, f) = {} THEN q ELSE RemoveAt(q, Lowest(QueuedOf(q, f)))

\* POLLHUP, and over QMI and AT the end of what the client sends:
\* cleanup_qmi_connection, handle_client_disconnect, cleanup_atc_connection
Leave(f) ==
  /\ Looping /\ ~busy
  /\ conn[f] # None
  /\ \E i \in DOMAIN list : list[i] = f /\ list' = RemoveAt(list, i)
  /\ pollfds' = NextPoll(list')
  /\ conn' = [conn EXCEPT ![f] = None]
  /\ ids' = [ids EXCEPT ![f] = {}]
  /\ ctlq' = ForgetCtl(ctlq, f)
  /\ clean' = (clean /\ ~UnderWay(conn[f]) /\ ~(kind = "atc" /\ Len(list) > 1))
  /\ leftBehind' = (leftBehind \/ \E i, j \in QueuedOf(ctlq, f) : i # j)
  /\ got' = Nothing /\ Turn
  /\ UNCHANGED <<kind, mpc, tries, busy, nask, modemVars, nfault, leaked>>

\* read() of a client that has ended its side and stays: the MBIM proxy
\* returns from its loop past the cleanup.  main() opens the device again and
\* forgets the connections; they and the server stay open for ever.
HalfClose(f) ==
  /\ kind = "mbim" /\ Looping
  /\ conn[f] # None
  /\ mpc' = "open" /\ leaked' = TRUE
  /\ list' = <<>> /\ conn' = [g \in Fds |-> None] /\ ids' = NoIds
  /\ got' = Nothing /\ clean' = FALSE
  /\ UNCHANGED <<kind, tries, quit, ctlq, pollfds, busy, nask, modemVars, nfault, leftBehind>>

-----------------------------------------------------------------------------
(* Requests *)

\* send_qmi_to_cdc_wdm, non_block_write, writeline
ToDevice(r, tag) == IF plugged THEN Append(dev, [req |-> r, tag |-> tag]) ELSE dev

\* recv_qmi_from_client: one control request at a time with the modem
QmiFromClient(f, r) ==
  /\ kind = "qmi"
  /\ dev' = IF ~IsCtl(r) \/ ctlq = <<>> THEN ToDevice(r, 0) ELSE dev
  /\ ctlq' = IF IsCtl(r) THEN Append(ctlq, [fd |-> f, req |-> r]) ELSE ctlq
  /\ UNCHANGED busy

\* handle_client_request: TransactionId | (client_idx << TID_SHIFT)
MbimFromClient(f, r) ==
  /\ kind = "mbim"
  /\ dev' = ToDevice(r, f)
  /\ UNCHANGED <<ctlq, busy>>

\* atc_proxy_loop: at_send_command blocks the loop
AtcFromClient(f, r) ==
  /\ kind = "atc"
  /\ dev' = ToDevice(r, 0) /\ busy' = TRUE
  /\ UNCHANGED ctlq

\* ids whose release is under way: their clients do not use them any more
Releasing == {ctlq[i].req.id : i \in DOMAIN ctlq}

Ask(f, what, id) ==
  /\ Looping /\ ~busy
  /\ conn[f] # None /\ nask < MaxAsks
  /\ what \in Wants
  /\ IF what = "get" \/ kind # "qmi" THEN id = 0 ELSE id \in ids[f] \ Releasing
  /\ nask' = nask + 1
  /\ LET r == [who |-> conn[f], what |-> what, id |-> id] IN
     QmiFromClient(f, r) \/ MbimFromClient(f, r) \/ AtcFromClient(f, r)
  /\ got' = Nothing /\ Turn
  /\ UNCHANGED <<kind, mpc, tries, list, conn, ids, pollfds,
                 granted, plugged, clean, nfault, lossVars>>

-----------------------------------------------------------------------------
(* Answers and indications *)

Give(r, fds) == got' = [req |-> r, to |-> {conn[f] : f \in fds}]

\* the client id an answer carries: the lowest free one, or the one released
FreeIds == {i \in Ids : granted[i] = None}
AnswerId(r) ==
  CASE r.what = "get" /\ FreeIds # {} -> Lowest(FreeIds)
    [] r.what = "release" /\ granted[r.id] # None -> r.id
    [] OTHER -> 0                                   \* QMIResult # 0

ModemRuns(r) ==
  granted' = IF AnswerId(r) = 0 THEN granted
             ELSE [granted EXCEPT ![AnswerId(r)] = IF r.what = "get" THEN r.who ELSE None]

\* get_client_id, release_client_id
Learned(held, r) ==
  IF AnswerId(r) = 0 THEN held
  ELSE IF r.what = "get" THEN held \cup {AnswerId(r)} ELSE held \ {AnswerId(r)}

Connected(f) == f \in Range(list)

\* the head of the queue goes to the modem if its connection is still there
SendHead(q, d) ==
  IF q # <<>> /\ Connected(Head(q).fd) THEN Append(d, [req |-> Head(q).req, tag |-> 0]) ELSE d

\* Mutant of CtlOwner: the newest request gets the answer.
LastAsker == Last(ctlq)

CtlOwner == Head(ctlq)

\* Mutant of Popped: the answered request stays at the head.
Unpopped == ctlq

Popped == Tail(ctlq)

\* recv_qmi_from_dev, QMUX_TYPE_CTL answers: whatever the transaction id
QmiCtlAnswer(r, rest) ==
  /\ IF ctlq = <<>> THEN Give(r, {}) /\ UNCHANGED <<ids, ctlq>>
     ELSE /\ Give(r, {CtlOwner.fd} \cap Range(list))
          /\ ids' = IF Connected(CtlOwner.fd)
                    THEN [ids EXCEPT ![CtlOwner.fd] = Learned(@, r)] ELSE ids
          /\ ctlq' = Popped
  /\ dev' = SendHead(ctlq', rest)

\* the other services: to every connection with this client id
QmiDataAnswer(r, rest) ==
  /\ Give(r, {f \in Range(list) : r.id \in ids[f]})
  /\ dev' = rest
  /\ UNCHANGED <<ids, ctlq>>

\* handle_device_response: by the slot in the transaction id
MbimAnswer(r, tag, rest) ==
  /\ Give(r, {tag} \cap Range(list))
  /\ dev' = rest
  /\ UNCHANGED <<ids, ctlq>>

\* current_client_fd: the connection whose descriptor equals the one behind
\* the last entry of pollfds, left there by an earlier, longer list
CurrentClient == pollfds[Len(list) + 1]
AtcReceivers ==
  IF busy /\ Connected(CurrentClient) THEN {CurrentClient} ELSE Range(list)

\* a final response ends the command that waits, whichever it belongs to
AtcAnswer(r, rest) ==
  /\ Give(r, AtcReceivers)
  /\ dev' = rest
  /\ UNCHANGED <<ids, ctlq>>

\* control requests are run in order, the others in any order but before the
\* release of their client id
MayRunNow(i) ==
  IsCtl(dev[i].req) =>
    \A j \in 1..i - 1 : ~IsCtl(dev[j].req) /\ dev[j].req.id # dev[i].req.id

Answer(i) ==
  /\ mpc = "serve" /\ plugged
  /\ MayRunNow(i)
  /\ ModemRuns(dev[i].req)
  /\ LET r == dev[i].req  rest == RemoveAt(dev, i) IN
     CASE kind = "qmi" /\ IsCtl(r) -> QmiCtlAnswer(r, rest)
       [] kind = "qmi" /\ ~IsCtl(r) -> QmiDataAnswer(r, rest)
       [] kind = "mbim" -> MbimAnswer(r, dev[i].tag, rest)
       [] kind = "atc" -> AtcAnswer(r, rest)
  /\ busy' = FALSE /\ Turn
  /\ UNCHANGED <<kind, mpc, tries, list, conn, pollfds, nask, plugged,
                 clean, nfault, lossVars>>

\* the modem runs a request and its answer is lost
AnswerLost(i) ==
  /\ mpc = "serve" /\ plugged /\ Fault
  /\ MayRunNow(i)
  /\ ModemRuns(dev[i].req)
  /\ dev' = RemoveAt(dev, i)
  /\ got' = Nothing /\ clean' = FALSE
  /\ leftBehind' = (leftBehind \/ IsCtl(dev[i].req))
  /\ UNCHANGED <<kind, mainVars, loopVars, busy, nask, plugged, leaked>>

\* at_send_command gives up after its timeout
AtcTimeout ==
  /\ busy
  /\ busy' = FALSE /\ got' = Nothing /\ clean' = FALSE
  /\ UNCHANGED <<kind, mainVars, loopVars, nask, modemVars, nfault, lossVars>>

\* an indication; one of the control service makes the QMI proxy send the
\* head of the queue once more
Indication(ctl) ==
  /\ mpc = "serve" /\ plugged /\ Fault
  /\ ctl => kind = "qmi"
  /\ Give(NoRequest, CASE ctl -> {}
              [] kind = "qmi" /\ ~ctl -> {f \in Range(list) : ids[f] # {}}
              [] kind = "mbim" -> Range(list)
              [] kind = "atc" -> AtcReceivers)
  /\ dev' = IF ctl THEN SendHead(ctlq, dev) ELSE dev
  /\ clean' = (clean /\ (ctl => ctlq = <<>>))
  /\ Turn
  /\ UNCHANGED <<kind, mpc, tries, loopVars, busy, nask, granted, plugged, lossVars>>

\* the modem resets without leaving the bus: QMICTL_REVOKE_CLIENT_ID_IND is
\* looked for among answers only, so the connections keep their ids
Revoke ==
  /\ kind = "qmi" /\ mpc = "serve" /\ plugged /\ Fault
  /\ granted' = [i \in Ids |-> None]
  /\ dev' = SendHead(ctlq, <<>>)
  /\ got' = Nothing /\ clean' = FALSE /\ Turn
  /\ UNCHANGED <<kind, mpc, tries, loopVars, busy, nask, plugged, lossVars>>

Unplug ==
  /\ plugged /\ mpc # "ended" /\ Fault
  /\ plugged' = FALSE /\ dev' = <<>> /\ granted' = [i \in Ids |-> None]
  /\ got' = Nothing /\ clean' = FALSE
  /\ UNCHANGED <<kind, mainVars, loopVars, busy, nask, lossVars>>

Replug ==
  /\ ~plugged /\ mpc = "open"
  /\ plugged' = TRUE /\ got' = Nothing
  /\ UNCHANGED <<kind, mainVars, loopVars, busy, nask, dev, granted, clean, nfault, lossVars>>

-----------------------------------------------------------------------------

Loop == LoopExit \/ AtcTimeout
Main == Open \/ InitAnswered \/ NoServer \/ StopWhileClosed
ModemAnswers == \E i \in DOMAIN dev : Answer(i)

ClientStep ==
  \/ Connect
  \/ \E f \in Fds : Leave(f) \/ HalfClose(f)
  \/ \E f \in Fds, what \in Wants, id \in Ids \cup {0} : Ask(f, what, id)

Trouble ==
  \/ InitTimeout
  \/ \E when \in {"seen", "missed"} : Signal(when)
  \/ \E i \in DOMAIN dev : AnswerLost(i)
  \/ \E ctl \in BOOLEAN : Indication(ctl)
  \/ Revoke \/ Unplug

Ended == mpc = "ended" /\ UNCHANGED vars

Next == Main \/ Loop \/ ModemAnswers \/ ClientStep \/ Trouble \/ Replug \/ Ended

Spec == Init /\ [][Next]_vars

\* The two threads run, poll() returns when something is ready, a modem that
\* is there answers, one that was unplugged comes back.  Clients may do
\* nothing.
FairSpec ==
  Spec /\ WF_vars(Main) /\ WF_vars(Loop) /\ WF_vars(ModemAnswers) /\ WF_vars(Replug)

-----------------------------------------------------------------------------
(* Properties *)

\* While no client has left with a request under way and the modem has lost
\* nothing, every answer reaches the client that asked for it.  (With a
\* client gone, the next control answer goes to whoever is next in the
\* queue, an MBIM answer to the next owner of the slot, and an AT answer to
\* the client an old entry of pollfds names.)
AnswerReachesAsker ==
  clean /\ (\E f \in Range(list) : conn[f] = got.req.who) => got.req.who \in got.to

\* Under the same conditions the QMI and MBIM proxies hand an answer to no
\* other client.
AnswerToNobodyElse ==
  clean /\ kind # "atc" /\ got.req # NoRequest => got.to \subseteq {got.req.who}

\* The client ids a QMI connection is routed by are those the modem has
\* given to its client: no two connections share one, none is stale.
IdsAgree ==
  clean => \A f \in Range(list) : \A i \in ids[f] : granted[i] = conn[f]

\* The head of the control queue is with the modem, or is the request of a
\* connection that has left: then no control request is sent any more.
Wedged == ctlq # <<>> /\ ~\E i \in DOMAIN dev : dev[i].req = Head(ctlq).req

\* Every queued control request is answered or dropped, whoever leaves and
\* whatever the modem resets: every answer that is popped sends the next
\* request.  Only a client that leaves with two requests queued and a lost
\* control answer stop the queue, and then for all.
CtlQueueMoves == ctlq # <<>> ~> ctlq = <<>> \/ leftBehind \/ mpc # "serve"

\* As long as the proxy is clean its control queue is not wedged.
CleanIsNotWedged == clean => ~Wedged

\* A stop that interrupts poll() ends the proxy, from whichever round.
StopEnds == quit = "seen" ~> mpc = "ended"

\* A device that comes back is served again, unless the proxy is stopped, or
\* (MBIM) a client that ended its side only has made it leak its server: then
\* it serves nobody until it is killed.
ServesAgain == mpc = "open" ~> mpc \in {"serve", "ended"} \/ leaked

\* Answers reach those who asked and nobody else, by ids that agree with the
\* modem's (recv_qmi_from_dev, handle_device_response, onUnsolicited).
AnswersRouted ==
  TypeOK /\ AnswerReachesAsker /\ AnswerToNobodyElse /\ IdsAgree /\ CleanIsNotWedged

\* Control requests move on, a stop ends the proxy, a device that returns is
\* served.
ProxyMoves == CtlQueueMoves /\ StopEnds /\ ServesAgain
=============================================================================
