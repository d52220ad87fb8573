----------------------------- MODULE UrlReader -----------------------------
(***************************************************************************)
(* urllogger-reader: the process that reads the binary events of the       *)
(* kernel's URL logger and prints a line for each, until it is signalled,  *)
(* its lock file is removed, its parent dies or it is killed, and the same *)
(* program run with --clear.  The queue device is external: it is open     *)
(* once, keeps its cache limit when it is closed, keeps events while that  *)
(* is not 0, and a read returns any part of the bytes it holds.            *)
(*                                                                         *)
(* An event is its number, a byte is a cell <<event, position>>.  A stream *)
(* says which events have a header the program does not know, and where    *)
(* bytes in the middle of an event look like a header, of what length.     *)
(***************************************************************************)
EXTENDS Naturals, Sequences, SequencesExt, FiniteSetsExt

CONSTANTS
  Lens,        \* record_len of each event the kernel logs
  Streams,     \* bound: which headers are not known, which bytes look like one
  HdrLen,      \* sizeof(struct natflow_urllogger_event_hdr)
  ReadBufLen,  \* READ_BUF_LEN
  MaxTries     \* attempts of open_queue_with_retry (20)

ASSUME UrlAssumption ==
  /\ Lens \in Seq(Nat) /\ HdrLen \in Nat \ {0} /\ MaxTries \in Nat \ {0}
  /\ \A r \in DOMAIN Lens : Lens[r] \in HdrLen .. ReadBufLen - 1
  /\ \A s \in Streams : \A c \in DOMAIN s.fake :
       c[2] > 1 /\ s.fake[c] \in HdrLen .. ReadBufLen - 1

VARIABLES
  upc,         \* the reader: start, arm, armed, open, cache, loop, wait, read, close, ended
  cpc,         \* the clearing process: idle, open, cache, close, ended
  tries,       \* attempts to open, of each of the two
  exiting,     \* exiting
  parent,      \* the parent lives
  lockFile,    \* the lock file exists
  holder,      \* who has the queue open: none, reader, clear
  cache,       \* the cache limit is not 0
  left,        \* history: a reader was killed, or could not switch the cache off
  stream,      \* events that are not known, and cells that look like a header
  logged,      \* events logged so far
  queue,       \* cells in the kernel
  pend,        \* buf[0 .. pending - 1]
  printed      \* events printed

urlVars == <<upc, cpc, tries, exiting, parent, lockFile, holder, cache, left, stream, logged, queue,
             pend, printed>>

bad == stream.bad

Cells(r) == [i \in 1 .. Lens[r] |-> <<r, i>>]

UrlTypeOK ==
  /\ upc \in {"start", "arm", "armed", "open", "cache", "loop", "wait", "read", "close", "ended"}
  /\ cpc \in {"idle", "open", "cache", "close", "ended"}
  /\ tries \in [{"reader", "clear"} -> 0 .. MaxTries]
  /\ exiting \in BOOLEAN /\ parent \in BOOLEAN /\ lockFile \in BOOLEAN /\ cache \in BOOLEAN
  /\ left \in BOOLEAN /\ holder \in {"none", "reader", "clear"} /\ stream \in Streams
  /\ logged \in 0 .. Len(Lens) /\ Len(pend) < ReadBufLen
  /\ ToSet(queue) \cup ToSet(pend) \subseteq UNION {ToSet(Cells(r)) : r \in DOMAIN Lens}

UrlInit ==
  /\ upc = "start" /\ cpc = "idle" /\ tries = [p \in {"reader", "clear"} |-> 0]
  /\ exiting = FALSE /\ parent = TRUE /\ lockFile = TRUE /\ holder = "none" /\ cache \in BOOLEAN
  /\ left = cache /\ stream \in Streams /\ logged = 0 /\ queue = <<>> /\ pend = <<>> /\ printed = <<>>

-----------------------------------------------------------------------------
(* Records in the buffer *)

\* record_len of the header that begins here: an event's, or bytes that look
\* like one; 0 if it is not known.
RecordLen(c) ==
  IF c[2] = 1 /\ c[1] \notin bad THEN Lens[c[1]]
  ELSE IF c \in DOMAIN stream.fake THEN stream.fake[c] ELSE 0

\* The header at this place is complete, known, and its record is complete.
Whole(b, off) ==
  Len(b) - off >= HdrLen /\ RecordLen(b[off + 1]) \in HdrLen .. Len(b) - off

\* How far the loop gets: a record it cannot take stops it.
Parsed(b) ==
  LET off[o \in 0 .. Len(b)] == IF Whole(b, o) THEN off[o + RecordLen(b[o + 1])] ELSE o
  IN off[0]

\* The records it prints, each as the cell it begins with.
Records(b) ==
  LET from[o \in 0 .. Len(b)] ==
        IF Whole(b, o) THEN <<b[o + 1]>> \o from[o + RecordLen(b[o + 1])] ELSE <<>>
  IN from[0]

\* Mutant of Kept: what follows the last whole record is not kept.
KeptNothing(b) == <<>>

\* The rest moves to the front; a buffer full of what cannot be taken is dropped.
Kept(b) ==
  LET rest == SubSeq(b, Parsed(b) + 1, Len(b))
  IN IF Len(rest) = ReadBufLen THEN <<>> ELSE rest

-----------------------------------------------------------------------------
(* The reader *)

To(pc) == upc' = pc

InstallHandlers ==
  /\ upc = "start" /\ To("arm")
  /\ UNCHANGED <<cpc, tries, exiting, parent, lockFile, holder, cache, left, stream, logged,
                 queue, pend, printed>>

\* arm_parent_death_signal(): prctl() ...
ArmSignal ==
  /\ upc = "arm" /\ To("armed")
  /\ UNCHANGED <<cpc, tries, exiting, parent, lockFile, holder, cache, left, stream, logged,
                 queue, pend, printed>>

\* Mutant of AfterArm: whether the parent is still there is not looked at.
AfterArmAlways == "open"

\* ... then getppid().
AfterArm == IF parent THEN "open" ELSE "ended"

CheckParent ==
  /\ upc = "armed" /\ To(AfterArm)
  /\ UNCHANGED <<cpc, tries, exiting, parent, lockFile, holder, cache, left, stream, logged,
                 queue, pend, printed>>

\* EBUSY is tried again, MaxTries times in all.
OpenBusy(p) == holder # "none" /\ tries[p] < MaxTries /\ tries' = [tries EXCEPT ![p] = @ + 1]
OpenOk(p) == holder = "none" /\ tries[p] < MaxTries /\ holder' = p

open_queue_with_retry ==
  /\ upc = "open"
  /\ \/ OpenOk("reader") /\ To("cache") /\ UNCHANGED tries
     \/ OpenBusy("reader") /\ UNCHANGED <<upc, holder>>
     \/ tries["reader"] = MaxTries /\ To("ended") /\ UNCHANGED <<tries, holder>>
  /\ UNCHANGED <<cpc, exiting, parent, lockFile, cache, left, stream, logged, queue, pend,
                 printed>>

\* set_cache_limit(CACHE_LIMIT), which may fail.
SetCache ==
  /\ upc = "cache"
  /\ \/ To("loop") /\ cache' = TRUE /\ UNCHANGED holder
     \/ To("ended") /\ holder' = "none" /\ UNCHANGED cache
  /\ UNCHANGED <<cpc, tries, exiting, parent, lockFile, left, stream, logged, queue, pend, printed>>

lock_alive == lockFile

LoopTest ==
  /\ upc = "loop" /\ To(IF ~exiting /\ lock_alive THEN "wait" ELSE "close")
  /\ UNCHANGED <<cpc, tries, exiting, parent, lockFile, holder, cache, left, stream, logged,
                 queue, pend, printed>>

\* poll() for a second; a signal makes it look at exiting again.
wait_queue_readable ==
  /\ upc = "wait"
  /\ \/ exiting /\ To("close")
     \/ queue # <<>> /\ To("read")
     \/ queue = <<>> /\ To("loop")
  /\ UNCHANGED <<cpc, tries, exiting, parent, lockFile, holder, cache, left, stream, logged,
                 queue, pend, printed>>

\* One read: n cells, the records in them printed; another read follows when
\* the room that is left was filled.
ReadEvents(n) ==
  /\ upc = "read" /\ n \in 1 .. Min({Len(queue), ReadBufLen - Len(pend)})
  /\ LET b == pend \o SubSeq(queue, 1, n)
     IN /\ printed' = printed \o Records(b)
        /\ pend' = Kept(b)
  /\ queue' = SubSeq(queue, n + 1, Len(queue))
  /\ To(IF n < ReadBufLen - Len(pend') THEN "loop" ELSE "read")
  /\ UNCHANGED <<cpc, tries, exiting, parent, lockFile, holder, cache, left, stream, logged>>

ReadNothing ==
  /\ upc = "read" /\ queue = <<>> /\ To("loop")
  /\ UNCHANGED <<cpc, tries, exiting, parent, lockFile, holder, cache, left, stream, logged,
                 queue, pend, printed>>

\* A read that fails otherwise than by a signal ends the program.
ReadFails ==
  /\ upc = "read" /\ exiting' = TRUE /\ To("loop")
  /\ UNCHANGED <<cpc, tries, parent, lockFile, holder, cache, left, stream, logged, queue, pend,
                 printed>>

\* set_cache_limit(fd, 0), whose failure nobody looks at, and close().
CloseQueue ==
  /\ upc = "close" /\ To("ended") /\ holder' = "none"
  /\ \/ cache' = FALSE /\ UNCHANGED left
     \/ UNCHANGED cache /\ left' = TRUE
  /\ UNCHANGED <<cpc, tries, exiting, parent, lockFile, stream, logged, queue, pend, printed>>

\* SIGKILL, or SIGPIPE when the shell no longer reads the lines.
Killed ==
  /\ upc # "ended" /\ To("ended")
  /\ holder' = (IF holder = "reader" THEN "none" ELSE holder)
  /\ left' = (left \/ holder = "reader")
  /\ UNCHANGED <<cpc, tries, exiting, parent, lockFile, cache, stream, logged, queue, pend, printed>>

-----------------------------------------------------------------------------
(* --clear, signals, and the kernel *)

clear_queue ==
  /\ \/ cpc = "idle" /\ cpc' = "open" /\ UNCHANGED <<tries, holder, cache, left>>
     \/ cpc = "open" /\ OpenOk("clear") /\ cpc' = "cache" /\ UNCHANGED <<tries, cache, left>>
     \/ cpc = "open" /\ OpenBusy("clear") /\ UNCHANGED <<cpc, holder, cache, left>>
     \/ cpc = "open" /\ tries["clear"] = MaxTries /\ cpc' = "ended"
        /\ UNCHANGED <<tries, holder, cache, left>>
     \/ cpc = "cache" /\ cpc' = "close" /\ cache' = FALSE /\ left' = FALSE
        /\ UNCHANGED <<tries, holder>>
     \/ cpc = "cache" /\ cpc' = "close" /\ UNCHANGED <<tries, holder, cache, left>>
     \/ cpc = "close" /\ cpc' = "ended" /\ holder' = "none" /\ UNCHANGED <<tries, cache, left>>
  /\ UNCHANGED <<upc, exiting, parent, lockFile, stream, logged, queue, pend, printed>>

\* SIGINT or SIGTERM; before the handler is there it ends the process.
on_signal ==
  /\ ~exiting /\ upc # "ended"
  /\ IF upc = "start" THEN To("ended") /\ UNCHANGED exiting ELSE exiting' = TRUE /\ UNCHANGED upc
  /\ UNCHANGED <<cpc, tries, parent, lockFile, holder, cache, left, stream, logged, queue, pend,
                 printed>>

\* The parent's death is a SIGTERM once prctl() was called.
ParentDies ==
  /\ parent /\ parent' = FALSE
  /\ exiting' = (exiting \/ upc \notin {"start", "arm"})
  /\ UNCHANGED <<upc, cpc, tries, lockFile, holder, cache, left, stream, logged, queue, pend,
                 printed>>

LockRemoved ==
  /\ lockFile /\ lockFile' = FALSE
  /\ UNCHANGED <<upc, cpc, tries, exiting, parent, holder, cache, left, stream, logged, queue, pend,
                 printed>>

KernelLogs ==
  /\ cache /\ logged < Len(Lens)
  /\ logged' = logged + 1 /\ queue' = queue \o Cells(logged')
  /\ UNCHANGED <<upc, cpc, tries, exiting, parent, lockFile, holder, cache, left, stream, pend,
                 printed>>

ReaderSteps ==
  \/ InstallHandlers \/ ArmSignal \/ CheckParent \/ open_queue_with_retry \/ SetCache \/ LoopTest
  \/ wait_queue_readable \/ ReadNothing \/ ReadFails \/ CloseQueue
  \/ \E n \in 1 .. ReadBufLen : ReadEvents(n)

UrlNext ==
  ReaderSteps \/ Killed \/ clear_queue \/ on_signal \/ ParentDies \/ LockRemoved \/ KernelLogs

-----------------------------------------------------------------------------
(* Properties *)

\* An event is printed at most once, in the order of the log, and never one
\* whose header is not known, wherever the reads cut the stream; a line that is
\* no event (bytes taken for a header after a drop) comes only behind a header
\* that was not known.
UrlPrintedInOrder ==
  LET lines == SelectSeq(printed, LAMBDA c : c[2] = 1)
  IN /\ \A i \in DOMAIN lines : /\ lines[i][1] \notin bad /\ lines[i][1] <= logged
                                /\ i > 1 => lines[i - 1][1] < lines[i][1]
     /\ \A i \in DOMAIN printed : printed[i][2] > 1 => \E r \in bad : r <= printed[i][1]

\* Nothing is lost before the first header that is not known: what was logged
\* has been printed, is in the buffer, or is in the kernel.
AllCells(events) == FlattenSeq([i \in DOMAIN events |-> Cells(events[i])])
FirstBad == Min(bad \cup {Len(Lens) + 1})
NothingDropped ==
  LET before == SelectSeq(printed, LAMBDA c : c[1] < FirstBad)
      known(cells) == SelectSeq(cells, LAMBDA c : c[1] < FirstBad)
  IN AllCells([i \in DOMAIN before |-> before[i][1]]) \o known(pend \o queue)
       = AllCells([r \in 1 .. Min({logged, FirstBad - 1}) |-> r])

\* The kernel caches events only while a reader has the queue open, or when one
\* was killed or could not switch the cache off, and nothing cleared it since.
CacheNeedsReader == cache => holder = "reader" \/ left

\* A reader that is told to stop, loses its lock file or its parent, ends.
ReaderEnds == (exiting \/ ~lockFile \/ ~parent) ~> upc = "ended"

\* Every record up to one with a header that is not known comes out once, in
\* order, whatever comes behind it, and the kernel keeps records for nobody else
\* unless a reader was killed or failed at it (process_buffer, read_loop).
RecordsKept == UrlTypeOK /\ UrlPrintedInOrder /\ NothingDropped /\ CacheNeedsReader
=============================================================================
