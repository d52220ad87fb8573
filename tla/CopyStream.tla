---------------------------- MODULE CopyStream -----------------------------
(***************************************************************************)
(* copy_stream() of p910nd: one print job, from the accepted connection to *)
(* the return value, with the client, the printer and the wall clock       *)
(* around it.  bidir selects the select() loop that also carries the       *)
(* printer's status back to the client; otherwise the job is a blocking    *)
(* read/write loop.                                                        *)
(*                                                                         *)
(* The loop body is cut where the outside world can move: before select,   *)
(* and at every system call.  Local computation belongs to the step before *)
(* it.  last_read_time is kept as age, the number of ticks the wall clock  *)
(* is past it (negative when the clock was set back); IdleLimit ticks are  *)
(* the 30 seconds of the code, and one tick is longer than the 100 ms the  *)
(* printer's status is paced by.                                           *)
(***************************************************************************)
EXTENDS PrintBuffer, Sequences

CONSTANTS JobBytes,      \* bound: bytes the client sends
          StatusBytes,   \* bound: bytes the printer reports
          IdleLimit,     \* ticks in the idle timeout
          ClockBack,     \* bound: ticks the clock may be behind last_read_time
          ClockMaySet    \* may the wall clock be set during the job?

ASSUME CopyStreamAssumption ==
  /\ JobBytes \in Nat /\ StatusBytes \in Nat /\ ClockBack \in Nat
  /\ IdleLimit \in Nat \ {0}
  /\ ClockMaySet \in BOOLEAN

VARIABLES
  bidir,      \* the -b option
  pc,         \* the next step of copy_stream
  n2p,        \* networkToPrinterBuffer
  p2n,        \* printerToNetworkBuffer
  rset, wset, \* readfds, writefds: subsets of {"fd", "lp"}
  timer,      \* printer reads are paced
  paced,      \* now has not passed `then' yet
  age,        \* wall clock minus last_read_time
  nowAge,     \* now, as sampled before select, minus last_read_time
  ret,        \* 0 until the job fails
  sent,       \* bytes the client has sent
  conn,       \* the client's side: "open", "fin" (sent EOF) or "reset"
  printed,    \* history: bytes the printer took
  received    \* history: status bytes the client's connection took

vars == <<bidir, pc, n2p, p2n, rset, wset, timer, paced, age, nowAge, ret,
          sent, conn, printed, received>>

bufs  == <<n2p, p2n>>
sets  == <<rset, wset>>
time  == <<timer, paced, age, nowAge>>
peer  == <<sent, conn>>
hist  == <<printed, received>>

Ages == (-ClockBack) .. IdleLimit

TypeOK ==
  /\ bidir \in BOOLEAN
  /\ pc \in {"head", "select", "readNet", "idle", "readLp", "writeLp",
             "writeNet", "uniRead", "uniWrite", "done"}
  /\ n2p \in Buffer_t /\ p2n \in Buffer_t
  /\ rset \subseteq {"fd", "lp"} /\ wset \subseteq {"fd", "lp"}
  /\ timer \in BOOLEAN /\ paced \in BOOLEAN
  /\ age \in Ages /\ nowAge \in Ages
  /\ ret \in {0, -1}
  /\ sent \in 0 .. JobBytes /\ conn \in {"open", "fin", "reset"}
  /\ printed \in Seq(Int) /\ received \in Seq(Int)

Init ==
  /\ bidir \in BOOLEAN
  /\ pc = "head"
  /\ n2p = initBuffer(TRUE) /\ p2n = initBuffer(FALSE)
  /\ rset = {} /\ wset = {}
  /\ timer = FALSE /\ paced = FALSE /\ age = 0 /\ nowAge = 0
  /\ ret = 0
  /\ sent = 0 /\ conn = "open"
  /\ printed = << >> /\ received = << >>

-----------------------------------------------------------------------------
(* The client, the printer's input side and the clock *)

ClientSends == \E n \in 1 .. JobBytes - sent :
  /\ conn = "open" /\ pc # "done"
  /\ sent' = sent + n
  /\ UNCHANGED <<bidir, pc, bufs, sets, time, ret, conn, hist>>

ClientEnds == \E how \in {"fin", "reset"} :
  /\ conn = "open" \/ (conn = "fin" /\ how = "reset")
  /\ pc # "done"
  /\ conn' = how
  /\ UNCHANGED <<bidir, pc, bufs, sets, time, ret, sent, hist>>

\* 100 ms pass.
PaceExpires ==
  /\ paced /\ pc # "done"
  /\ paced' = FALSE
  /\ UNCHANGED <<bidir, pc, bufs, sets, timer, age, nowAge, ret, peer, hist>>

Tick ==
  /\ age < IdleLimit /\ pc # "done"
  /\ age' = age + 1 /\ paced' = FALSE
  /\ UNCHANGED <<bidir, pc, bufs, sets, timer, nowAge, ret, peer, hist>>

\* gettimeofday reads the wall clock: NTP may set it while a job runs.  `then'
\* is compared with only while timer is set.
ClockSet == \E a \in Ages :
  /\ ClockMaySet /\ pc # "done"
  /\ age' = a /\ paced' \in BOOLEAN /\ (paced' => timer)
  /\ UNCHANGED <<bidir, pc, bufs, sets, timer, nowAge, ret, peer, hist>>

-----------------------------------------------------------------------------
(* What a read() or write() may return *)

NetReadable == sent > n2p.totalin \/ conn # "open"

\* After FIN the read returns 0 once the data that arrived before it is read;
\* after a reset the data still queued may be read, or be lost to the error.
NetReadResults ==
  {r \in ReadResults(n2p) :
     /\ r > 0 => n2p.totalin + r <= sent
     /\ r = EOF => conn = "fin" /\ n2p.totalin = sent
     /\ r = ERR => conn = "reset"}

LpReadResults ==
  {r \in ReadResults(p2n) : r > 0 => p2n.totalin + r <= StatusBytes}

NetWriteResults ==
  {r \in WriteResults(p2n) : r = ERR => conn # "open"}

-----------------------------------------------------------------------------
(* The bidirectional loop *)

LoopGoesOn == ~n2p.eof_sent /\ ~n2p.writeErr /\ ~p2n.writeErr

Return(r) == pc' = "done" /\ ret' = r

\* Mutant of JobResult: a failed write to the printer is not reported.
JobResultOfRead == IF n2p.readErr THEN -1 ELSE 0

\* The value at the end of copy_stream: networkToPrinterBuffer.err ? -1 : 0.
JobResult == IF n2p.readErr \/ n2p.writeErr THEN -1 ELSE 0

\* The loop ends.
Finish ==
  /\ pc = "head" /\ bidir /\ ~LoopGoesOn
  /\ Return(JobResult)
  /\ UNCHANGED <<bidir, bufs, sets, time, peer, hist>>

\* The descriptor sets, the pacing timer and the sample of the clock.
Prepare ==
  /\ pc = "head" /\ bidir /\ LoopGoesOn
  /\ timer' = (timer /\ paced)
  /\ rset' = {f \in {"fd", "lp"} :
                \/ f = "fd" /\ WantsRead(n2p)
                \/ f = "lp" /\ WantsRead(p2n) /\ ~timer'}
  /\ wset' = {f \in {"fd", "lp"} :
                \/ f = "fd" /\ WantsWrite(p2n)
                \/ f = "lp" /\ WantsWrite(n2p)}
  /\ nowAge' = age
  /\ pc' = "select"
  /\ UNCHANGED <<bidir, bufs, paced, age, ret, peer, hist>>

\* select returns, by readiness or after its 100 ms, with the requested
\* descriptors that are ready.
Select(r, w) ==
  /\ pc = "select"
  /\ r \subseteq rset /\ w \subseteq wset
  /\ "fd" \in rset => ("fd" \in r <=> NetReadable)
  /\ rset' = r /\ wset' = w
  /\ pc' = "readNet"
  /\ UNCHANGED <<bidir, bufs, time, ret, peer, hist>>

SelectInterrupted ==
  /\ pc = "select"
  /\ pc' = "head"
  /\ UNCHANGED <<bidir, bufs, sets, time, ret, peer, hist>>

\* Any other error of select ends the job at once.
SelectFails ==
  /\ pc = "select"
  /\ Return(-1)
  /\ UNCHANGED <<bidir, bufs, sets, time, peer, hist>>

ReadNet ==
  /\ pc = "readNet" /\ "fd" \in rset
  /\ \E r \in NetReadResults :
       /\ n2p' = readBuffer(n2p, r)
       /\ age' = IF r > 0 THEN 0 ELSE age
       /\ nowAge' = IF r > 0 THEN 0 ELSE nowAge
  /\ pc' = "idle"
  /\ UNCHANGED <<bidir, p2n, sets, timer, paced, ret, peer, hist>>

SkipReadNet ==
  /\ pc = "readNet" /\ "fd" \notin rset
  /\ pc' = "idle"
  /\ UNCHANGED <<bidir, bufs, sets, time, ret, peer, hist>>

\* Mutants of Idle: queued data does not count; one tick too early.
IdleDespiteQueue == ~n2p.eof_read /\ nowAge >= IdleLimit
IdleTooEarly == ~n2p.eof_read /\ n2p.bytes = 0 /\ nowAge >= IdleLimit - 1

\* No data from the network for 30 s, none queued, no EOF: stop.
Idle == ~n2p.eof_read /\ n2p.bytes = 0 /\ nowAge >= IdleLimit

IdleStop ==
  /\ pc = "idle" /\ Idle
  /\ Return(JobResult)
  /\ UNCHANGED <<bidir, bufs, sets, time, peer, hist>>

NotIdle ==
  /\ pc = "idle" /\ ~Idle
  /\ pc' = "readLp"
  /\ UNCHANGED <<bidir, bufs, sets, time, ret, peer, hist>>

ReadLp ==
  /\ pc = "readLp" /\ "lp" \in rset
  /\ \E r \in LpReadResults :
       /\ p2n' = readBuffer(p2n, r)
       /\ timer' = (timer \/ r > 0)
       /\ paced' = (paced \/ r > 0)
  /\ pc' = "writeLp"
  /\ UNCHANGED <<bidir, n2p, sets, age, nowAge, ret, peer, hist>>

SkipReadLp ==
  /\ pc = "readLp" /\ "lp" \notin rset
  /\ pc' = "writeLp"
  /\ UNCHANGED <<bidir, bufs, sets, time, ret, peer, hist>>

WriteLp(r) ==
  /\ pc = "writeLp" /\ "lp" \in wset /\ r \in WriteResults(n2p)
  /\ n2p' = writeBuffer(n2p, r)
  /\ printed' = printed \o Written(n2p, r)
  /\ age' = IF r > 0 THEN 0 ELSE age
  /\ pc' = "writeNet"
  /\ UNCHANGED <<bidir, p2n, sets, timer, paced, nowAge, ret, peer, received>>

SkipWriteLp ==
  /\ pc = "writeLp" /\ "lp" \notin wset
  /\ pc' = "writeNet"
  /\ UNCHANGED <<bidir, bufs, sets, time, ret, peer, hist>>

\* Mutant of Discarding: the error is kept.
DiscardingKeepsError(b, r) == IF r = ERR THEN [b EXCEPT !.outfd = FALSE] ELSE b

\* A client that no longer takes status loses it: outfd becomes -1 and the
\* error is forgotten, so that the job itself goes on.
Discarding(b, r) ==
  IF r = ERR THEN [b EXCEPT !.outfd = FALSE, !.writeErr = FALSE] ELSE b

WriteNet ==
  /\ pc = "writeNet" /\ ("fd" \in wset \/ ~p2n.outfd)
  /\ \E r \in NetWriteResults :
       /\ p2n' = Discarding(writeBuffer(p2n, r), r)
       /\ received' = received \o Written(p2n, r)
  /\ pc' = "head"
  /\ UNCHANGED <<bidir, n2p, sets, time, ret, peer, printed>>

SkipWriteNet ==
  /\ pc = "writeNet" /\ "fd" \notin wset /\ p2n.outfd
  /\ pc' = "head"
  /\ UNCHANGED <<bidir, bufs, sets, time, ret, peer, hist>>

-----------------------------------------------------------------------------
(* The unidirectional loop *)

UniHead ==
  /\ pc = "head" /\ ~bidir
  /\ \/ /\ n2p.eof_sent \/ n2p.writeErr
        /\ Return(JobResult)
     \/ /\ ~n2p.eof_sent /\ ~n2p.writeErr
        /\ pc' = IF n2p.bytes = 0 /\ ~n2p.eof_read THEN "uniRead"
                                                   ELSE "uniWrite"
        /\ UNCHANGED ret
  /\ UNCHANGED <<bidir, bufs, sets, time, peer, hist>>

\* read blocks until there is something to read.
UniRead ==
  /\ pc = "uniRead"
  /\ \E r \in NetReadResults \ {AGAIN} : n2p' = readBuffer(n2p, r)
  /\ pc' = "uniWrite"
  /\ UNCHANGED <<bidir, p2n, sets, time, ret, peer, hist>>

UniReadInterrupted ==
  /\ pc = "uniRead"
  /\ n2p' = readBuffer(n2p, AGAIN)
  /\ pc' = "uniWrite"
  /\ UNCHANGED <<bidir, p2n, sets, time, ret, peer, hist>>

UniWrite(r) ==
  /\ pc = "uniWrite" /\ r \in WriteResults(n2p)
  /\ n2p' = writeBuffer(n2p, r)
  /\ printed' = printed \o Written(n2p, r)
  /\ pc' = "head"
  /\ UNCHANGED <<bidir, p2n, sets, time, ret, peer, received>>

-----------------------------------------------------------------------------

SelectReturns == \E r \in SUBSET rset, w \in SUBSET wset : Select(r, w)
WritesLp  == \E r \in WriteResults(n2p) : WriteLp(r)
UniWrites == \E r \in WriteResults(n2p) : UniWrite(r)

Daemon ==
  \/ Finish \/ Prepare \/ SelectReturns
  \/ ReadNet \/ SkipReadNet \/ IdleStop \/ NotIdle
  \/ ReadLp \/ SkipReadLp \/ WritesLp \/ SkipWriteLp
  \/ WriteNet \/ SkipWriteNet
  \/ UniHead \/ UniRead \/ UniWrites

\* Signals and failing system calls.
Trouble == SelectInterrupted \/ SelectFails \/ UniReadInterrupted

World == ClientSends \/ ClientEnds \/ PaceExpires \/ Tick \/ ClockSet

\* copy_stream has returned; PrintServer takes the connection from here.
Done == pc = "done" /\ UNCHANGED vars

Next == Daemon \/ Trouble \/ World \/ Done

Spec == Init /\ [][Next]_vars

(***************************************************************************)
(* Fairness.  The daemon runs and the clock goes on.  A signal does not    *)
(* interrupt every select and every read.  The printer becomes writable    *)
(* again and again, and of the writes it is offered again and again one    *)
(* makes progress.  Nothing is assumed of the client.                      *)
(***************************************************************************)
SelectLp == \E r \in SUBSET rset, w \in SUBSET wset : Select(r, w) /\ "lp" \in w
ReadProgress == (ReadNet \/ UniRead) /\ n2p' # Rewound(n2p)
WriteProgress ==
  \E r \in WriteResults(n2p) :
    /\ r > 0 \/ r = ERR \/ WriteAvail(n2p) = 0
    /\ WriteLp(r) \/ UniWrite(r)

Fairness ==
  /\ WF_vars(Daemon) /\ WF_vars(Tick)
  /\ SF_vars(SelectReturns) /\ SF_vars(SelectLp)
  /\ SF_vars(ReadProgress) /\ SF_vars(WriteProgress)

FairSpec == Spec /\ Fairness

-----------------------------------------------------------------------------
(* Properties *)

\* Both rings stay consistent through short reads, short writes and rewinds.
RingsOK == RingOK(n2p) /\ RingOK(p2n)

\* s is the start of the byte stream: nothing lost, repeated or reordered.
IsStreamPrefix(s) == \A i \in 1 .. Len(s) : s[i] = i - 1

\* The printer gets exactly the bytes read from the client that are not
\* buffered any more, in order, whatever the descriptors do.
PrintedInOrder ==
  /\ IsStreamPrefix(printed)
  /\ Len(printed) = n2p.totalout
  /\ n2p.totalout + n2p.bytes = n2p.totalin

\* A job that reports success printed everything it read, and when it did
\* not give up on an idle client it printed everything the client sent.
SuccessMeansPrinted ==
  pc = "done" /\ ret = 0 =>
    /\ Len(printed) = n2p.totalin
    /\ n2p.eof_read => Len(printed) = sent

\* The status the client gets is a prefix of what the printer said, and
\* bytes are missing behind it only after its connection failed.
StatusInOrder ==
  /\ IsStreamPrefix(received)
  /\ Len(received) = p2n.totalout
  /\ p2n.outfd => p2n.totalout + p2n.bytes = p2n.totalin
  /\ ~p2n.outfd => conn # "open"

\* Losing the status connection never ends a job: the loop ends only when
\* the job's own data is all written or cannot be written.
StatusLossIsHarmless == [][Finish => n2p.eof_sent \/ n2p.writeErr]_vars

\* The idle timeout never cuts a job whose data is still buffered, nor one
\* the client has finished, even when the wall clock is set.
IdleNeverDropsData ==
  [][IdleStop => n2p.bytes = 0 /\ ~n2p.eof_read
                 /\ Len(printed) = n2p.totalin]_vars

\* The timeout counts from the last progress: between a byte read from the
\* client or taken by the printer and the idle stop the clock has advanced
\* by the whole limit.
IdleOnlyAfterLimit == [][IdleStop => age >= IdleLimit]_vars

\* A job ends, provided the printer goes on taking data: a silent client is
\* dropped by the timeout when bidir is set, otherwise only its EOF helps.
JobEnds == (bidir \/ conn # "open") ~> (pc = "done")

-----------------------------------------------------------------------------
(* Each direction implements the abstract channel *)

Ended == IF pc # "done" THEN "no" ELSE IF ret = 0 THEN "ok" ELSE "failed"

JobChannel == INSTANCE ByteChannel WITH
  Capacity <- BUFFER_SIZE, Required <- TRUE, accepted <- n2p.totalin,
  queue <- Pending(n2p), delivered <- printed, lost <- FALSE, ended <- Ended

StatusChannel == INSTANCE ByteChannel WITH
  Capacity <- BUFFER_SIZE, Required <- FALSE, accepted <- p2n.totalin,
  queue <- Pending(p2n), delivered <- received, lost <- ~p2n.outfd,
  ended <- Ended

\* The job's data goes through an ordered channel that ends well only when
\* it is empty.
JobIsChannel == JobChannel!Spec

\* The printer's status goes through an ordered channel that may lose its
\* receiver.
StatusIsChannel == StatusChannel!Spec
=============================================================================
