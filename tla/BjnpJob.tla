------------------------------ MODULE BjnpJob ------------------------------
(***************************************************************************)
(* A print job of the CUPS backend for Canon printers that speak BJNP      *)
(* (lede-cups/cups-bjnp).  The process opens a print session over UDP      *)
(* (bjnp_send_job_details), asks for the printer's status, connects over   *)
(* TCP, and then runs bjnp_backendRunLoop once per copy: it reads a buffer *)
(* of print data, sends it in numbered packets of which at most one is     *)
(* unanswered, sends an empty packet as a keep-alive when nothing happens, *)
(* and serves the CUPS side channel.  At the end it closes the session.    *)
(*                                                                         *)
(* One iteration of the run loop is one action: what select reports is     *)
(* decided once at its top and the rest runs to completion.  Print data is *)
(* a sequence of items, "d" for plain data and "C" for a BJL start command.*)
(***************************************************************************)
EXTENDS Integers, Sequences, FiniteSets

CONSTANTS
  Data,         \* the print data of one copy
  Copies,       \* copies asked for
  BufMax,       \* items in the print buffer (BJNP_PRINTBUF_MAX)
  Numbers,       \* modulus of the packet number (2^16 in the code)
  MaxTries,     \* attempts to connect before contimeout is over
  MaxEvents     \* throttled packets, side-channel requests, lost datagrams,
                \* interruptions, hang-ups and bad answers, taken together

ASSUME ConstantsAssumption ==
  /\ Data \in Seq({"d", "C"}) /\ Copies \in Nat \ {0} /\ BufMax \in Nat \ {0}
  /\ Numbers \in Nat /\ Numbers > 1
  /\ {MaxTries, MaxEvents} \subseteq Nat

VARIABLES
  pc,        \* where main() is
  copies,    \* copies still to start
  result,    \* tbytes and the exit status: "ok" or "failed"
  prn,       \* the protocol part of printer_t
  loop,      \* the locals of bjnp_backendRunLoop
  pos,       \* items of the print file read in this copy
  errno,     \* "again" when errno still holds a retryable value
  link,      \* the TCP connection: packets and answers under way
  printed,   \* what the printer took, copies one after another
  sessions,  \* sessions open on the printer
  side,      \* the side channel: the request under way and the drain owed
  budget     \* what is left of the bounds

jobVars == <<pc, copies, result, prn, loop, pos, errno, link, printed,
             sessions, side, budget>>

\* The session id of a job whose details no answer confirmed: -1 as a uint16_t.
NoSession == 0

\* The side-channel requests: a drain, any other (GET_CONNECTED is dropped
\* without an answer, the others are answered at once), and a closed channel.
Requests == {"drain", "get", "closed"}

Packet == [seq: 0..Numbers - 1, data: Seq({"d", "C"})]

\* What the printer answers: an acknowledgement of n items, a packet of another
\* command code, or one without the accepted field.
Answer == [kind: {"ack", "noise", "empty"}, seq: 0..Numbers - 1, n: Nat]

JobTypeOK ==
  /\ pc \in {"start", "levels", "tcp", "wait", "run", "close", "done", "crashed"}
  /\ copies \in 0..Copies
  /\ result \in {"none", "ok", "failed"}
  /\ prn \in [session: Nat, serial: 0..Numbers - 1, seq: 0..Numbers - 1,
              iofree: BOOLEAN, iocount: 0..BufMax]
  /\ loop.buf \in Seq({"d", "C"}) /\ Len(loop.buf) <= BufMax
  /\ loop.total \in 0..Len(Data)
  /\ {loop.ack, loop.drain, loop.keep, loop.side} \subseteq BOOLEAN
  /\ pos \in 0..Len(Data)
  /\ errno \in {"other", "again"}
  /\ link.up \in BOOLEAN
  /\ link.out \in Seq(Packet) /\ link.in \in Seq(Answer)
  /\ Len(link.out) + Cardinality({i \in DOMAIN link.in : link.in[i].kind = "ack"}) <= 1
  /\ printed \in Seq({"d", "C"})
  /\ sessions \subseteq Nat
  /\ side.req \in Requests \cup {"none"} /\ side.owed \in BOOLEAN
  /\ budget \in [tries: 0..MaxTries, left: 0..MaxEvents, hurt: BOOLEAN,
                 cut: BOOLEAN, opened: 0..(2 * (MaxTries + 1))]

\* The locals as bjnp_backendRunLoop sets them before its loop.
FreshLoop == [buf |-> <<>>, total |-> 0, ack |-> FALSE, drain |-> FALSE,
              keep |-> FALSE, side |-> TRUE]

NoLink == [up |-> FALSE, out |-> <<>>, in |-> <<>>]

JobInit ==
  /\ pc = "start" /\ copies = Copies /\ result = "none"
  /\ prn = [session |-> NoSession, serial |-> 0, seq |-> 0,
            iofree |-> TRUE, iocount |-> 0]
  /\ loop = FreshLoop /\ pos = 0 /\ errno = "other"
  /\ link = NoLink /\ printed = <<>> /\ sessions = {}
  /\ side = [req |-> "none", owed |-> FALSE]
  /\ budget = [tries |-> MaxTries, left |-> MaxEvents, hurt |-> FALSE,
               cut |-> FALSE, opened |-> 0]

Number == (prn.serial + 1) % Numbers

Spent(b) == [b EXCEPT !.left = @ - 1]
Harmed(b) == [b EXCEPT !.left = @ - 1, !.hurt = TRUE]

-----------------------------------------------------------------------------
(* UDP commands.  bjnp_process_udp_command sends up to three times and      *)
(* takes the first datagram that comes back.                                *)

\* bjnp_send_job_details is answered: the printer has opened a session.  When
\* the first answer is late the command is repeated, and the printer has opened
\* two sessions of which the backend knows the one answered first.  When
\* nothing comes back the -1 becomes session 65535, a session the printer does
\* not know, and the job goes on.
JobDetails(fate) ==
  LET s == budget.opened + 1 IN
  CASE fate = "answered" ->
         /\ sessions' = sessions \cup {s}
         /\ prn' = [prn EXCEPT !.session = s, !.iofree = TRUE]
         /\ budget' = [budget EXCEPT !.opened = s]
    [] fate = "late" ->
         /\ sessions' = sessions \cup {s, s + 1}
         /\ prn' = [prn EXCEPT !.session = s, !.iofree = TRUE]
         /\ budget' = [Harmed(budget) EXCEPT !.opened = s + 1]
    [] fate = "silent" ->
         /\ sessions' = sessions
         /\ prn' = [prn EXCEPT !.session = NoSession, !.iofree = TRUE]
         /\ budget' = Harmed(budget)

\* A command and its answer by UDP: sent up to three times, 3 s apart, until an
\* answer comes; what else can happen to it harms the job.
bjnp_process_udp_command(harms) == {"answered"} \cup (IF budget.left > 0 THEN harms ELSE {})

\* The sessions left open once bjnp_send_close has been sent or lost.
AfterClose(fate) == IF fate = "answered" THEN sessions \ {prn.session} ELSE sessions

\* bjnp_start_job of the first address: bjnp_init_printer never sees a negative
\* session id, so the other addresses of the list are not tried.
StartJob ==
  /\ pc = "start"
  /\ \E fate \in bjnp_process_udp_command({"late", "silent"}) : JobDetails(fate)
  /\ pc' = "levels"
  /\ UNCHANGED <<copies, result, loop, pos, errno, link, printed, side>>

\* bjnp_report_levels before the connection: ready (also when no status
\* comes back), or not, and then the session is closed again.
CheckLevels ==
  /\ pc = "levels"
  /\ prn' = [prn EXCEPT !.serial = Number]
  /\ \/ pc' = "tcp" /\ UNCHANGED <<sessions, budget>>
     \/ /\ pc' = "wait"
        /\ \E fate \in bjnp_process_udp_command({"silent"}) :
             /\ sessions' = AfterClose(fate)
             /\ budget' = IF fate = "silent" THEN Harmed(budget) ELSE budget
  /\ UNCHANGED <<copies, result, loop, pos, errno, link, printed, side>>

\* bjnp_tcp_connect: on failure the session is closed and the struct released.
TcpConnect ==
  /\ pc = "tcp"
  /\ \/ /\ pc' = "run" /\ copies' = copies - 1 /\ loop' = FreshLoop /\ pos' = 0
        /\ link' = [NoLink EXCEPT !.up = TRUE]
        /\ UNCHANGED <<prn, sessions, budget>>
     \/ /\ budget.left > 0
        /\ pc' = "wait"
        /\ sessions' = AfterClose("answered")
        /\ prn' = [prn EXCEPT !.session = NoSession, !.serial = 0, !.seq = 0]
        /\ budget' = Harmed(budget)
        /\ UNCHANGED <<copies, loop, pos, link>>
  /\ UNCHANGED <<result, errno, printed, side>>

\* main after a connection that did not come about: a job of a class is given
\* back, contimeout ends the others, and else it is tried again.
Retry ==
  /\ pc = "wait"
  /\ \/ pc' = "done" /\ result' = "failed" /\ UNCHANGED budget
     \/ /\ budget.tries > 0
        /\ pc' = "start" /\ UNCHANGED result
        /\ budget' = [budget EXCEPT !.tries = @ - 1]
  /\ UNCHANGED <<copies, prn, loop, pos, errno, link, printed, sessions, side>>

-----------------------------------------------------------------------------
(* The run loop.  A step of an iteration takes the loop's state so far, a   *)
(* record of what the iteration changes, and returns the next one; "end" is *)
(* "go" until the loop returns.                                             *)

State == [loop |-> loop, prn |-> prn, pos |-> pos, errno |-> errno,
          link |-> link, side |-> side, end |-> "go"]

Fail(s) == [s EXCEPT !.end = "error"]

\* The status report that is due every BJNP_REPORT_INTERVAL uses up a number,
\* and reading marker levels, when the answer has any, clears errno.
ReportLevels(s, e) == [s EXCEPT !.prn.serial = (@ + 1) % Numbers, !.errno = e]

\* Answering CUPS.  A drain is only noted, and a channel that cannot be read is
\* not looked at again.
SideRequest(s) ==
  CASE side.req = "drain"  -> [s EXCEPT !.loop.drain = TRUE, !.side.req = "none",
                                        !.side.owed = TRUE]
    [] side.req = "closed" -> [s EXCEPT !.loop.side = FALSE, !.side.req = "none"]
    [] OTHER               -> [s EXCEPT !.side.req = "none"]

\* Mutant of Acknowledged: a packet that was refused counts as printed.
AcknowledgedAlways(s, a) ==
  IF a.seq # s.prn.seq THEN Fail(s)
  ELSE IF s.prn.iocount > Len(s.loop.buf) THEN [s EXCEPT !.end = "crash"]
  ELSE [s EXCEPT !.prn.iofree = TRUE, !.loop.ack = FALSE,
                 !.loop.buf = SubSeq(@, s.prn.iocount + 1, Len(@)),
                 !.loop.total = @ + s.prn.iocount]

\* Mutant of Acknowledged: after a refusal the answer is still awaited.
AcknowledgedOnce(s, a) ==
  LET t == [s EXCEPT !.prn.iofree = TRUE] IN
  CASE a.seq # s.prn.seq -> Fail(s)
    [] a.seq = s.prn.seq /\ a.n = s.prn.iocount ->
         IF a.n > Len(s.loop.buf) THEN [t EXCEPT !.end = "crash"]
         ELSE [t EXCEPT !.loop.buf = SubSeq(@, a.n + 1, Len(@)),
                        !.loop.total = @ + a.n, !.loop.ack = FALSE]
    [] OTHER -> t

\* An acknowledgement of n items is good when it carries the number and the
\* length of the last packet; nothing accepted means try again.
Acknowledged(s, a) ==
  LET t == [s EXCEPT !.prn.iofree = TRUE] IN
  CASE a.seq # s.prn.seq -> Fail(s)
    [] a.seq = s.prn.seq /\ a.n = s.prn.iocount ->
         IF a.n > Len(s.loop.buf) THEN [t EXCEPT !.end = "crash"]
         ELSE [t EXCEPT !.loop.buf = SubSeq(@, a.n + 1, Len(@)),
                        !.loop.total = @ + a.n, !.loop.ack = FALSE]
    [] a.seq = s.prn.seq /\ a.n # s.prn.iocount /\ a.n = 0 ->
         [t EXCEPT !.loop.ack = FALSE]
    [] OTHER -> Fail(t)

\* bjnp_backchannel: a connection the printer has left is an error unless errno
\* happens to hold a retryable value.
Backchannel(s) ==
  IF s.link.in = <<>>
  THEN IF s.errno = "again" THEN s ELSE Fail(s)
  ELSE LET a == Head(s.link.in)
           t == [s EXCEPT !.link.in = Tail(@)]
       IN CASE a.kind = "noise" -> t
            [] a.kind = "empty" -> Fail(t)
            [] a.kind = "ack"   -> Acknowledged(t, a)

\* Reading print data: k items, the end of the file (k = 0), or EAGAIN (k < 0).
ReadInput(s, k) ==
  CASE k > 0 -> [s EXCEPT !.loop.buf = SubSeq(Data, s.pos + 1, s.pos + k),
                          !.pos = @ + k]
    [] k = 0 -> [s EXCEPT !.end = "eof", !.loop.drain = FALSE,
                          !.side.owed = IF s.loop.drain THEN FALSE ELSE @]
    [] k < 0 -> [s EXCEPT !.errno = "again"]

\* The offset of the next command behind the first item, or -1; a command that
\* ends the buffer is not found.
find_bin_string(buf) ==
  LET found == {i \in 1..(Len(buf) - 2) : buf[i + 1] = "C"} IN
  IF found = {} THEN -1 ELSE CHOOSE i \in found : \A j \in found : i <= j

\* bjnp_write: the buffer up to its next command, or nothing for a keep-alive.
\* While the last packet is unanswered the buffer is not free (EAGAIN); a write
\* to a connection that is gone fails or is lost.
Write(s, fate) ==
  LET cut  == find_bin_string(s.loop.buf)
      n    == IF cut = -1 THEN Len(s.loop.buf) ELSE cut
      seq  == (s.prn.serial + 1) % Numbers
      data == SubSeq(s.loop.buf, 1, n)
  IN CASE ~s.prn.iofree -> [s EXCEPT !.errno = "again", !.loop.keep = FALSE]
       [] s.prn.iofree /\ fate = "error" -> Fail(s)
       [] OTHER ->
            [s EXCEPT !.prn.serial = seq, !.prn.seq = seq, !.prn.iocount = n,
                      !.prn.iofree = FALSE, !.loop.keep = FALSE, !.loop.ack = TRUE,
                      !.link.out = IF s.link.up THEN Append(@, [seq |-> seq, data |-> data])
                                   ELSE @]

\* What select finds ready, the print data apart.
SideReady == loop.side /\ loop.buf = <<>> /\ ~loop.drain /\ side.req # "none"
DeviceReady == link.in # <<>> \/ ~link.up
MayWrite == (loop.keep \/ loop.buf # <<>>) /\ ~loop.ack

\* What a finished iteration leaves: the next one, the end of the job, or the
\* next copy.
Settle(s) ==
  LET again == s.end = "eof" /\ copies > 0 IN
  /\ loop' = IF s.end = "go" THEN s.loop ELSE FreshLoop
  /\ pos' = IF s.end = "go" THEN s.pos ELSE 0
  /\ prn' = s.prn /\ errno' = s.errno /\ link' = s.link /\ side' = s.side
  /\ pc' = CASE s.end = "go" \/ again -> "run"
             [] s.end = "crash" -> "crashed"
             [] OTHER -> "close"
  /\ result' = CASE s.end = "error" -> "failed"
                 [] s.end = "eof" /\ ~again -> "ok"
                 [] OTHER -> result
  /\ copies' = IF again THEN copies - 1 ELSE copies

Fates == IF link.up THEN {"sent"} ELSE {"sent", "error"}

\* The outcomes of an iteration in the order of the code, for the reads of print
\* data in k (none when select reports none).  A step changes the iterations that
\* have not returned.
Iterations(k) ==
  LET Step(S, cond(_), Do(_)) ==
        {IF s.end = "go" /\ cond(s) THEN Do(s) ELSE s : s \in S}
      S0 == {State} \cup {ReportLevels(State, e) : e \in {errno, "other"}}
      S1 == Step(S0, LAMBDA s : SideReady, SideRequest)
      S2 == Step(S1, LAMBDA s : DeviceReady, Backchannel)
      S3 == IF k = {} THEN S2
            ELSE UNION {Step(S2, LAMBDA s : TRUE, LAMBDA s : ReadInput(s, i)) : i \in k}
  IN UNION {Step(S3, LAMBDA s : MayWrite /\ (s.loop.keep \/ s.loop.buf # <<>>),
                 LAMBDA s : Write(s, f)) : f \in Fates}

\* An iteration in which select reports no print data.
Iterate ==
  /\ pc = "run"
  /\ SideReady \/ DeviceReady \/ MayWrite
  /\ \E s \in Iterations({}) : Settle(s)
  /\ UNCHANGED <<printed, sessions, budget>>

\* An iteration in which it does, and a read that returns something.
IterateInput ==
  /\ pc = "run" /\ loop.buf = <<>>
  /\ \E s \in Iterations(IF pos = Len(Data) THEN {0}
                         ELSE {k \in 1..BufMax : pos + k <= Len(Data)}) : Settle(s)
  /\ UNCHANGED <<printed, sessions, budget>>

\* A read of print data that fails with EAGAIN.
IterateAgain ==
  /\ pc = "run" /\ loop.buf = <<>> /\ budget.left > 0
  /\ \E s \in Iterations({-1}) : Settle(s)
  /\ budget' = Harmed(budget)
  /\ UNCHANGED <<printed, sessions>>

\* Nothing happens for KEEP_ALIVE_SECONDS: the next round sends a keep-alive,
\* unless an answer is awaited.
SelectTimeout ==
  /\ pc = "run" /\ ~(SideReady \/ DeviceReady \/ MayWrite)
  /\ loop' = [loop EXCEPT !.keep = @ \/ ~loop.ack]
  /\ UNCHANGED <<pc, copies, result, prn, pos, errno, link, printed,
                 sessions, side, budget>>

\* select is interrupted: before a byte was acknowledged the loop returns 0,
\* which main takes for a copy that was printed.
Interrupted ==
  /\ pc = "run" /\ budget.left > 0
  /\ Settle(IF loop.total = 0 THEN [State EXCEPT !.end = "eof", !.errno = "again"]
            ELSE [State EXCEPT !.errno = "again"])
  /\ budget' = [Harmed(budget) EXCEPT !.cut = TRUE]
  /\ UNCHANGED <<printed, sessions>>

\* bjnp_close_printer at the end of the job, and main's return.
ClosePrinter ==
  /\ pc = "close" /\ pc' = "done" /\ link' = NoLink
  /\ \E fate \in bjnp_process_udp_command({"silent"}) :
       /\ sessions' = AfterClose(fate)
       /\ budget' = IF fate = "silent" THEN Harmed(budget) ELSE budget
  /\ UNCHANGED <<copies, result, prn, loop, pos, errno, printed, side>>

-----------------------------------------------------------------------------
(* The printer and CUPS, external.                                          *)

Reply(kind, n) ==
  link' = [link EXCEPT !.out = Tail(@),
                       !.in = Append(@, [kind |-> kind, seq |-> Head(link.out).seq, n |-> n])]

\* The printer takes a packet whole.
PrinterAccepts ==
  /\ link.out # <<>>
  /\ Reply("ack", Len(Head(link.out).data))
  /\ printed' = printed \o Head(link.out).data
  /\ UNCHANGED <<pc, copies, result, prn, loop, pos, errno, sessions, side, budget>>

\* The printer has no room: it accepts nothing of the packet.
PrinterThrottles ==
  /\ link.out # <<>> /\ Head(link.out).data # <<>> /\ budget.left > 0
  /\ Reply("ack", 0)
  /\ budget' = Spent(budget)
  /\ UNCHANGED <<pc, copies, result, prn, loop, pos, errno, printed, sessions, side>>

\* A packet that is not an answer to a print command.
PrinterNoise ==
  /\ pc = "run" /\ link.up /\ budget.left > 0
  /\ link' = [link EXCEPT !.in = Append(@, [kind |-> "noise", seq |-> 0, n |-> 0])]
  /\ budget' = Spent(budget)
  /\ UNCHANGED <<pc, copies, result, prn, loop, pos, errno, printed, sessions, side>>

\* An answer without the accepted field, or the end of the connection.
PrinterFails ==
  /\ pc = "run" /\ link.up /\ budget.left > 0
  /\ \/ link.out # <<>> /\ Reply("empty", 0)
     \/ link' = [link EXCEPT !.up = FALSE, !.out = <<>>]
  /\ budget' = Harmed(budget)
  /\ UNCHANGED <<pc, copies, result, prn, loop, pos, errno, printed, sessions, side>>

\* CUPS sends a side-channel request or closes the channel.
CupsAsks ==
  /\ pc = "run" /\ side.req = "none" /\ budget.left > 0
  /\ \E r \in Requests : side' = [side EXCEPT !.req = r]
  /\ budget' = Spent(budget)
  /\ UNCHANGED <<pc, copies, result, prn, loop, pos, errno, link, printed, sessions>>

Finished == pc \in {"done", "crashed"} /\ UNCHANGED jobVars

Main == StartJob \/ CheckLevels \/ TcpConnect \/ Retry \/ ClosePrinter

JobNext ==
  \/ Main \/ Iterate \/ IterateInput \/ IterateAgain \/ SelectTimeout \/ Interrupted
  \/ PrinterAccepts \/ PrinterThrottles \/ PrinterNoise \/ PrinterFails
  \/ CupsAsks \/ Finished

JobSpec == JobInit /\ [][JobNext]_jobVars

\* The process runs, print data keeps coming, select's timeout expires, and the
\* printer answers what it received.
FairJobSpec ==
  /\ JobSpec
  /\ WF_jobVars(Main) /\ WF_jobVars(Iterate) /\ WF_jobVars(IterateInput)
  /\ WF_jobVars(SelectTimeout) /\ WF_jobVars(PrinterAccepts)

-----------------------------------------------------------------------------
\* The items of s are the print data, one copy after another.
InCopies(s) ==
  /\ Len(s) <= Copies * Len(Data)
  /\ \A c \in 0..Copies - 1, j \in 1..Len(Data) :
       c * Len(Data) + j <= Len(s) => s[c * Len(Data) + j] = Data[j]

\* The copies printed are the print data, every item once and in order, whatever
\* the printer throttles and wherever keep-alives and splits fall, unless select
\* was interrupted (bjnp_backendRunLoop, bjnp_write, bjnp_backchannel).
PrintedInOrder == ~budget.cut => InCopies(printed)

\* An exit status of success means that every copy was printed to the end, and
\* that a drain the run loop took was answered, unless select was interrupted.
SuccessIsComplete ==
  pc = "done" /\ result = "ok" /\ ~budget.cut =>
    Len(printed) = Copies * Len(Data) /\ InCopies(printed) /\ ~side.owed

\* A job fails, or the arithmetic of print_bytes goes below zero, only after
\* something went wrong on the way: a printer that throttles, chatters, or is
\* still answering a keep-alive when the next copy starts does not end a job.
NoSpuriousFailure ==
  /\ result = "failed" /\ ~budget.hurt => copies = Copies
  /\ pc = "crashed" => budget.cut

\* Without a lost datagram the printer has at most the session this job uses,
\* and none once the job is over, however often it had to be started.
SessionsClosed ==
  ~budget.hurt =>
    /\ sessions \subseteq {prn.session}
    /\ pc \in {"start", "wait", "done"} => sessions = {}

\* A BJL command in a packet is its first item, or the last item of the buffer,
\* where find_bin_string does not look.
CommandsLead ==
  \A i \in DOMAIN link.out :
    LET d == link.out[i].data IN \A j \in 2..Len(d) : d[j] = "C" => j = Len(d)

\* Every job comes to its end while the printer answers, except that a printer
\* that leaves while errno holds a stale EAGAIN keeps the loop spinning.
JobEnds == <>(pc \in {"done", "crashed"} \/ (~link.up /\ errno = "again"))


\* A job is printed whole, in order and in its session, or fails for a reason.
JobIsSound ==
  JobTypeOK /\ PrintedInOrder /\ SuccessIsComplete /\ NoSpuriousFailure
    /\ SessionsClosed /\ CommandsLead
=============================================================================
