---------------------------- MODULE PrintBuffer ----------------------------
(***************************************************************************)
(* The circular buffer of p910nd (Buffer_t and its four operations).       *)
(*                                                                         *)
(* A byte is modelled by its offset in the stream it belongs to, so the    *)
(* buffer array remembers which byte each slot holds and a property can    *)
(* tell a byte that was lost, repeated or moved.  The outcome of the       *)
(* read(2) or write(2) inside an operation is its parameter r:             *)
(*   r > 0    that many bytes were moved,                                  *)
(*   EOF (0)  read returned 0, or write accepted nothing,                  *)
(*   ERR      the call failed,                                             *)
(*   AGAIN    it failed with EINTR, EAGAIN or EWOULDBLOCK, or the          *)
(*            operation made no system call at all.                        *)
(***************************************************************************)
EXTENDS Integers

CONSTANT BUFFER_SIZE

ASSUME BufferSizeAssumption == BUFFER_SIZE \in Nat \ {0}

EOF   == 0
ERR   == -1
AGAIN == -2

\* The content of a slot nothing was read into yet: the array is a local
\* variable that initBuffer does not clear.
Junk == -1

Slots == 0 .. BUFFER_SIZE - 1

Buffer_t ==
  [detectEof : BOOLEAN,                 \* a read of 0 bytes marks EOF
   outfd     : BOOLEAN,                 \* FALSE: outfd = -1, data is discarded
   startidx  : Slots,
   endidx    : Slots,
   bytes     : 0 .. BUFFER_SIZE,
   totalin   : Nat,
   totalout  : Nat,
   eof_read  : BOOLEAN,
   eof_sent  : BOOLEAN,
   readErr   : BOOLEAN,                 \* err & READ_ERR
   writeErr  : BOOLEAN,                 \* err & WRITE_ERR
   buffer    : [Slots -> Int]]

initBuffer(detectEof) ==
  [detectEof |-> detectEof, outfd |-> TRUE, startidx |-> 0, endidx |-> 0,
   bytes |-> 0, totalin |-> 0, totalout |-> 0, eof_read |-> FALSE,
   eof_sent |-> FALSE, readErr |-> FALSE, writeErr |-> FALSE,
   buffer |-> [s \in Slots |-> Junk]]

\* Mutant of WantsWrite: the EOF behind the last byte is not waited for.
WantsWriteData(b) == b.outfd /\ ~b.writeErr /\ b.bytes # 0

\* prepBuffer: is the output, is the input of the buffer handed to select?
WantsWrite(b) == b.outfd /\ ~b.writeErr /\ (b.bytes # 0 \/ b.eof_read)
WantsRead(b)  == ~b.readErr /\ ~b.eof_read /\ b.bytes < BUFFER_SIZE

\* An index that has reached the end of the array goes back to its start.
Wrap(i) == IF i = BUFFER_SIZE THEN 0 ELSE i

-----------------------------------------------------------------------------
(* readBuffer *)

\* An empty buffer is rewound before the read, whatever the read then does.
Rewound(b) ==
  IF b.bytes = 0 THEN [b EXCEPT !.startidx = 0, !.endidx = 0] ELSE b

\* The contiguous free room read() is offered, of a rewound buffer.
ReadAvail(b) ==
  IF b.bytes = 0 THEN BUFFER_SIZE
  ELSE IF b.bytes = BUFFER_SIZE THEN 0
  ELSE IF b.endidx > b.startidx THEN BUFFER_SIZE - b.endidx
  ELSE b.startidx - b.endidx

\* read() put the next n bytes of the input stream behind endidx.
Filled(b, n) ==
  [b EXCEPT
     !.endidx  = Wrap(b.endidx + n),
     !.totalin = b.totalin + n,
     !.bytes   = b.bytes + n,
     !.buffer  = [s \in Slots |->
                    IF b.endidx <= s /\ s < b.endidx + n
                    THEN b.totalin + (s - b.endidx)
                    ELSE b.buffer[s]]]

Reads(b) == ~b.readErr /\ ReadAvail(b) # 0

ReadResults(b) ==
  IF Reads(b) THEN (1 .. ReadAvail(b)) \cup {EOF, ERR, AGAIN} ELSE {AGAIN}

readBuffer(b, r) ==
  IF b.readErr THEN b
  ELSE IF r > 0 THEN Filled(Rewound(b), r)
  ELSE IF r = ERR
       THEN [Rewound(b) EXCEPT !.readErr = TRUE,
                               !.eof_read = b.eof_read \/ b.detectEof]
  ELSE IF r = EOF
       THEN [Rewound(b) EXCEPT !.eof_read = b.eof_read \/ b.detectEof]
  ELSE Rewound(b)

-----------------------------------------------------------------------------
(* writeBuffer *)

\* The contiguous data write() is offered.
WriteAvail(b) ==
  IF b.bytes = 0 \/ b.writeErr THEN 0
  ELSE IF b.endidx > b.startidx THEN b.endidx - b.startidx
  ELSE BUFFER_SIZE - b.startidx

\* The first n bytes of the buffer were written, or discarded.
Drained(b, n) ==
  [b EXCEPT
     !.startidx = Wrap(b.startidx + n),
     !.totalout = IF b.outfd THEN b.totalout + n ELSE b.totalout,
     !.bytes    = b.bytes - n]

WriteResults(b) ==
  IF WriteAvail(b) = 0 THEN {AGAIN}
  ELSE IF b.outfd THEN (0 .. WriteAvail(b)) \cup {ERR, AGAIN}
  ELSE {WriteAvail(b)}

\* Mutant of writeBuffer: EOF counts as sent while data is still buffered.
writeBufferEofEarly(b, r) ==
  LET d == IF r >= 0 THEN Drained(b, r)
           ELSE IF r = ERR THEN [b EXCEPT !.writeErr = TRUE] ELSE b
  IN  [d EXCEPT !.eof_sent = b.eof_sent \/ b.eof_read]

writeBuffer(b, r) ==
  IF WriteAvail(b) = 0 THEN [b EXCEPT !.eof_sent = b.eof_sent \/ b.eof_read]
  ELSE IF r >= 0 THEN Drained(b, r)
  ELSE IF r = ERR THEN [b EXCEPT !.writeErr = TRUE]
  ELSE b

\* Mutant of Written: a closed status connection is written to again.
WrittenAnyway(b, r) ==
  IF r > 0 THEN [i \in 1 .. r |-> b.buffer[b.startidx + i - 1]] ELSE << >>

\* The bytes a write that returned r put on the output descriptor.
Written(b, r) ==
  IF b.outfd /\ r > 0 THEN [i \in 1 .. r |-> b.buffer[b.startidx + i - 1]]
                      ELSE << >>

-----------------------------------------------------------------------------
(* What the buffer holds *)

\* The slot of the i-th buffered byte, counted from 0.
SlotOf(b, i) == IF b.startidx + i < BUFFER_SIZE
                THEN b.startidx + i
                ELSE b.startidx + i - BUFFER_SIZE

\* The buffered bytes, oldest first.
Pending(b) == [i \in 1 .. b.bytes |-> b.buffer[SlotOf(b, i - 1)]]

\* The indices of a buffer agree with its byte count, and the buffered bytes
\* are exactly the last ones read, in order, across the wrap.
RingOK(b) ==
  /\ b.endidx = SlotOf(b, b.bytes)
  /\ b.bytes <= b.totalin
  /\ \A i \in 0 .. b.bytes - 1 :
       b.buffer[SlotOf(b, i)] = b.totalin - b.bytes + i
=============================================================================
