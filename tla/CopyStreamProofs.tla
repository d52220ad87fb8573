-------------------------- MODULE CopyStreamProofs -------------------------
(***************************************************************************)
(* Safety of copy_stream for every buffer size, job, client, printer and   *)
(* clock.  The inductive invariant IInv strengthens the checked invariants *)
(* by what the end-of-file and error flags of the two buffers imply.       *)
(***************************************************************************)
EXTENDS CopyStream, SequenceTheorems, TLAPS

-----------------------------------------------------------------------------
(* What readBuffer and writeBuffer do to a consistent ring, for every       *)
(* BUFFER_SIZE and every outcome of the system call inside them             *)

BufOK(b) == b \in Buffer_t /\ RingOK(b)

\* The fields no operation but the one named changes.
SameTotals(c, b) == c.totalin = b.totalin /\ c.totalout = b.totalout /\ c.bytes = b.bytes
SameEnds(c, b) == c.detectEof = b.detectEof /\ c.outfd = b.outfd
SameFlags(c, b) == /\ c.eof_read = b.eof_read /\ c.eof_sent = b.eof_sent
                   /\ c.readErr = b.readErr /\ c.writeErr = b.writeErr

\* initBuffer yields a consistent, empty ring.
LEMMA InitBufferOK ==
  ASSUME NEW d \in BOOLEAN PROVE BufOK(initBuffer(d))
BY BufferSizeAssumption
   DEF BufOK, Buffer_t, RingOK, initBuffer, SlotOf, Slots, Junk

\* A consistent ring, as plain arithmetic.
LEMMA BufFacts ==
  ASSUME NEW b, BufOK(b)
  PROVE  /\ BUFFER_SIZE \in Nat /\ BUFFER_SIZE > 0
         /\ b.startidx \in Nat /\ b.startidx < BUFFER_SIZE
         /\ b.endidx \in Nat /\ b.endidx < BUFFER_SIZE
         /\ b.bytes \in Nat /\ b.bytes <= BUFFER_SIZE
         /\ b.totalin \in Nat /\ b.totalout \in Nat /\ b.bytes <= b.totalin
         /\ b.startidx + b.bytes < BUFFER_SIZE
              => b.endidx = b.startidx + b.bytes
         /\ b.startidx + b.bytes >= BUFFER_SIZE
              => b.endidx = b.startidx + b.bytes - BUFFER_SIZE
BY BufferSizeAssumption DEF BufOK, Buffer_t, RingOK, SlotOf, Slots

\* The slot of a buffered byte is a slot.
LEMMA SlotFacts ==
  ASSUME NEW b, BufOK(b), NEW i \in Nat, i < BUFFER_SIZE
  PROVE  /\ SlotOf(b, i) \in Nat /\ SlotOf(b, i) < BUFFER_SIZE
         /\ b.startidx + i < BUFFER_SIZE => SlotOf(b, i) = b.startidx + i
         /\ b.startidx + i >= BUFFER_SIZE
              => SlotOf(b, i) = b.startidx + i - BUFFER_SIZE
         /\ SlotOf(b, i) \in Slots
BY BufFacts DEF SlotOf, Slots

\* A ring whose flags alone differ from a consistent one is consistent.
LEMMA FlagsOK ==
  ASSUME NEW b, BufOK(b), NEW x \in BOOLEAN, NEW y \in BOOLEAN
  PROVE  /\ BufOK([b EXCEPT !.readErr = x, !.eof_read = y])
         /\ BufOK([b EXCEPT !.eof_read = y])
         /\ BufOK([b EXCEPT !.eof_sent = y])
         /\ BufOK([b EXCEPT !.writeErr = x])
         /\ BufOK([b EXCEPT !.outfd = x, !.writeErr = y])
BY BufferSizeAssumption DEF BufOK, Buffer_t, RingOK, SlotOf

\* Rewinding an empty ring keeps it consistent and changes no count; the
\* room read() is then offered lies inside the array and inside the ring.
LEMMA RewoundOK ==
  ASSUME NEW b, BufOK(b)
  PROVE  /\ BufOK(Rewound(b))
         /\ SameTotals(Rewound(b), b) /\ SameEnds(Rewound(b), b)
         /\ SameFlags(Rewound(b), b)
         /\ ReadAvail(b) \in 0 .. BUFFER_SIZE
         /\ Rewound(b).endidx + ReadAvail(b) <= BUFFER_SIZE
         /\ Rewound(b).bytes + ReadAvail(b) <= BUFFER_SIZE
<1>1. BufOK(Rewound(b))
  <2>1. CASE b.bytes = 0
    <3> DEFINE c == [b EXCEPT !.startidx = 0, !.endidx = 0]
    <3>1. c = Rewound(b) /\ 0 \in Slots
      BY <2>1, BufferSizeAssumption DEF Rewound, Slots
    <3>2. c \in Buffer_t /\ c.bytes = 0 /\ c.startidx = 0 /\ c.endidx = 0
          /\ c.totalin = b.totalin
      BY <2>1, <3>1 DEF BufOK, Buffer_t
    <3>3. RingOK(c)
      BY <3>2, BufFacts DEF RingOK, SlotOf
    <3> QED BY <3>1, <3>2, <3>3 DEF BufOK
  <2>2. CASE b.bytes # 0
    BY <2>2 DEF Rewound
  <2> QED BY <2>1, <2>2
<1>2. SameTotals(Rewound(b), b) /\ SameEnds(Rewound(b), b) /\ SameFlags(Rewound(b), b)
  BY DEF BufOK, Buffer_t, Rewound, SameTotals, SameEnds, SameFlags
<1>3. ReadAvail(b) \in 0 .. BUFFER_SIZE
      /\ Rewound(b).endidx + ReadAvail(b) <= BUFFER_SIZE
      /\ Rewound(b).bytes + ReadAvail(b) <= BUFFER_SIZE
  <2>1. CASE b.bytes = 0
    BY <2>1, BufFacts DEF ReadAvail, Rewound, BufOK, Buffer_t
  <2>2. CASE b.bytes # 0
    BY <2>2, BufFacts DEF ReadAvail, Rewound
  <2> QED BY <2>1, <2>2
<1> QED BY <1>1, <1>2, <1>3

\* Reading n bytes into the free room behind endidx extends the buffered
\* data by the next n bytes of the stream, across the wrap.
LEMMA FilledOK ==
  ASSUME NEW b, BufOK(b), NEW n \in Nat,
         b.bytes + n <= BUFFER_SIZE, b.endidx + n <= BUFFER_SIZE, n > 0
  PROVE  /\ BufOK(Filled(b, n))
         /\ SameEnds(Filled(b, n), b) /\ SameFlags(Filled(b, n), b)
         /\ Filled(b, n).totalin = b.totalin + n
         /\ Filled(b, n).bytes = b.bytes + n
         /\ Filled(b, n).totalout = b.totalout
<1> DEFINE c == Filled(b, n)
<1> USE BufferSizeAssumption
<1>0. Wrap(b.endidx + n) \in Slots /\ b.bytes + n \in 0 .. BUFFER_SIZE
  BY BufFacts DEF Wrap, Slots
<1>t. \A s \in Slots : (IF b.endidx <= s /\ s < b.endidx + n
                        THEN b.totalin + (s - b.endidx)
                        ELSE b.buffer[s]) \in Int
  BY BufFacts DEF BufOK, Buffer_t, Slots
<1>u. b.totalin + n \in Nat
  BY BufFacts
<1>m. c \in Buffer_t
  BY <1>0, <1>t, <1>u DEF BufOK, Buffer_t, Filled
<1>1. /\ SameEnds(c, b) /\ SameFlags(c, b)
      /\ c.totalin = b.totalin + n /\ c.bytes = b.bytes + n
      /\ c.totalout = b.totalout /\ c.startidx = b.startidx
      /\ c.endidx = Wrap(b.endidx + n)
  BY DEF BufOK, Buffer_t, Filled, SameEnds, SameFlags
<1>2. c.endidx = SlotOf(c, c.bytes)
  BY <1>1, BufFacts DEF SlotOf, Wrap
<1>3. \A s \in Slots : c.buffer[s] = IF b.endidx <= s /\ s < b.endidx + n
                                     THEN b.totalin + (s - b.endidx)
                                     ELSE b.buffer[s]
  BY DEF BufOK, Buffer_t, Filled
<1>4. ASSUME NEW i \in 0 .. c.bytes - 1
      PROVE  c.buffer[SlotOf(c, i)] = c.totalin - c.bytes + i
  <2>1. SlotOf(c, i) = SlotOf(b, i) /\ SlotOf(b, i) \in Slots /\ i \in Nat
    BY <1>1, BufFacts DEF Slots, SlotOf
  <2>2. c.totalin - c.bytes = b.totalin - b.bytes
    BY <1>1 DEF BufOK, Buffer_t
  <2>3. CASE i < b.bytes
    <3>1. b.buffer[SlotOf(b, i)] = b.totalin - b.bytes + i
      BY <2>3, <2>1 DEF BufOK, RingOK, Buffer_t
    <3>2. ~(b.endidx <= SlotOf(b, i) /\ SlotOf(b, i) < b.endidx + n)
      BY <2>3, <2>1, BufFacts, SlotFacts
    <3> QED BY <3>1, <3>2, <2>1, <2>2, <1>3
  <2>4. CASE i >= b.bytes
    <3>1. b.endidx <= SlotOf(b, i) /\ SlotOf(b, i) < b.endidx + n
          /\ SlotOf(b, i) - b.endidx = i - b.bytes
      <4>1. i < BUFFER_SIZE /\ i < b.bytes + n
        BY <1>1, <2>1, BufFacts
      <4> QED BY <4>1, <2>4, <2>1, BufFacts, SlotFacts
    <3>2. b.totalin \in Nat /\ b.bytes \in Nat
      BY DEF BufOK, Buffer_t
    <3>3. c.buffer[SlotOf(c, i)] = b.totalin + (i - b.bytes)
      BY <3>1, <2>1, <1>3
    <3> QED BY <3>3, <3>2, <2>2, <2>1
  <2> QED BY <2>3, <2>4, <2>1 DEF BufOK, Buffer_t
<1>5. c.bytes <= c.totalin
  BY <1>1 DEF BufOK, RingOK, Buffer_t
<1> QED BY <1>m, <1>1, <1>2, <1>4, <1>5 DEF BufOK, RingOK

\* readBuffer keeps a ring consistent; it never disturbs what is buffered,
\* and sets eof_read only on a read of 0 or an error.
LEMMA ReadOK ==
  ASSUME NEW b, BufOK(b), NEW r \in ReadResults(b)
  PROVE  LET c == readBuffer(b, r) IN
         /\ BufOK(c) /\ SameEnds(c, b)
         /\ c.totalin - c.bytes = b.totalin - b.bytes
         /\ c.totalout = b.totalout
         /\ c.totalin = IF r > 0 THEN b.totalin + r ELSE b.totalin
         /\ c.bytes = IF r > 0 THEN b.bytes + r ELSE b.bytes
         /\ c.eof_sent = b.eof_sent /\ c.writeErr = b.writeErr
         /\ b.readErr => c = b
         /\ c.eof_read <=> (b.eof_read \/ (b.detectEof /\ r \in {EOF, ERR}))
         /\ c.readErr <=> (b.readErr \/ r = ERR)
<1> DEFINE w == Rewound(b)
           c == readBuffer(b, r)
<1>0. b \in Buffer_t /\ b.readErr \in BOOLEAN /\ b.eof_read \in BOOLEAN
      /\ b.detectEof \in BOOLEAN /\ b.totalin \in Nat /\ b.bytes \in Nat
  BY DEF BufOK, Buffer_t
<1>w. /\ BufOK(w) /\ SameTotals(w, b) /\ SameEnds(w, b) /\ SameFlags(w, b)
      /\ ReadAvail(b) \in 0 .. BUFFER_SIZE
      /\ w.endidx + ReadAvail(b) <= BUFFER_SIZE
      /\ w.bytes + ReadAvail(b) <= BUFFER_SIZE
  BY RewoundOK
<1> HIDE DEF w
<1>1. CASE b.readErr
  <2>1. r = AGAIN /\ c = b
    BY <1>1 DEF ReadResults, Reads, readBuffer
  <2> QED BY <2>1, <1>0, <1>1 DEF AGAIN, EOF, ERR, SameEnds
<1>2. CASE ~b.readErr /\ r > 0
  <2>1. r \in 1 .. ReadAvail(b)
    BY <1>2 DEF ReadResults, EOF, ERR, AGAIN
  <2>2. c = Filled(w, r)
    BY <1>2 DEF readBuffer, w
  <2>3. r \in Nat /\ w.bytes + r <= BUFFER_SIZE /\ w.endidx + r <= BUFFER_SIZE
    <3>1. w.bytes \in Nat /\ w.endidx \in Nat
      BY <1>w, BufFacts
    <3> QED BY <2>1, <3>1, <1>w, BufferSizeAssumption
  <2>4. /\ BufOK(c) /\ SameEnds(c, w) /\ SameFlags(c, w)
        /\ c.totalin = w.totalin + r /\ c.bytes = w.bytes + r
        /\ c.totalout = w.totalout
    BY <2>2, <2>3, <1>w, <1>2, FilledOK
  <2> QED BY <2>4, <2>3, <1>w, <1>2, <1>0
          DEF SameEnds, SameFlags, SameTotals, EOF, ERR
<1>3. CASE ~b.readErr /\ ~(r > 0)
  <2>1. r \in {EOF, ERR, AGAIN}
    BY <1>3, <1>w, BufferSizeAssumption DEF ReadResults
  <2>2. CASE r = ERR
    <3>1. c = [w EXCEPT !.readErr = TRUE, !.eof_read = b.eof_read \/ b.detectEof]
      BY <2>2, <1>3 DEF readBuffer, w
    <3>2. BufOK(c)
      BY <3>1, <1>w, <1>0, FlagsOK
    <3> QED BY <3>1, <3>2, <1>w, <1>3, <1>0, <2>2
            DEF SameEnds, SameFlags, SameTotals, BufOK, Buffer_t, ERR, EOF
  <2>3. CASE r = EOF
    <3>1. c = [w EXCEPT !.eof_read = b.eof_read \/ b.detectEof]
      BY <2>3, <1>3 DEF readBuffer, w, ERR, EOF
    <3>2. BufOK(c)
      BY <3>1, <1>w, <1>0, FlagsOK
    <3> QED BY <3>1, <3>2, <1>w, <1>3, <1>0, <2>3
            DEF SameEnds, SameFlags, SameTotals, BufOK, Buffer_t, ERR, EOF
  <2>4. CASE r = AGAIN
    <3>1. c = w
      BY <2>4, <1>3 DEF readBuffer, w, ERR, EOF, AGAIN
    <3> QED BY <3>1, <1>w, <1>3, <1>0, <2>4
            DEF SameEnds, SameFlags, SameTotals, ERR, EOF, AGAIN
  <2> QED BY <2>1, <2>2, <2>3, <2>4
<1>4. r \in Int
  BY <1>w, BufferSizeAssumption DEF ReadResults, EOF, ERR, AGAIN
<1> QED BY <1>1, <1>2, <1>3

-----------------------------------------------------------------------------

\* What write() is offered lies inside the array and is buffered data; there
\* is none only when the buffer is empty or its output has failed.
LEMMA WriteAvailOK ==
  ASSUME NEW b, BufOK(b)
  PROVE  /\ WriteAvail(b) \in Nat
         /\ WriteAvail(b) <= b.bytes
         /\ b.startidx + WriteAvail(b) <= BUFFER_SIZE
         /\ WriteAvail(b) = 0 <=> (b.bytes = 0 \/ b.writeErr)
BY BufFacts DEF WriteAvail

\* Removing the first n bytes leaves the rest buffered, in order.
LEMMA DrainedOK ==
  ASSUME NEW b, BufOK(b), NEW n \in Nat,
         n <= b.bytes, b.startidx + n <= BUFFER_SIZE
  PROVE  LET c == Drained(b, n) IN
         /\ BufOK(c) /\ SameEnds(c, b) /\ SameFlags(c, b)
         /\ c.totalin = b.totalin /\ c.bytes = b.bytes - n
         /\ c.totalout = IF b.outfd THEN b.totalout + n ELSE b.totalout
<1> DEFINE c == Drained(b, n)
<1>0. /\ Wrap(b.startidx + n) \in Slots /\ b.bytes - n \in 0 .. BUFFER_SIZE
      /\ (IF b.outfd THEN b.totalout + n ELSE b.totalout) \in Nat
  BY BufFacts DEF Wrap, Slots
<1>m. c \in Buffer_t
  BY <1>0 DEF BufOK, Buffer_t, Drained
<1>1. /\ SameEnds(c, b) /\ SameFlags(c, b)
      /\ c.totalin = b.totalin /\ c.bytes = b.bytes - n
      /\ c.totalout = IF b.outfd THEN b.totalout + n ELSE b.totalout
      /\ c.startidx = Wrap(b.startidx + n) /\ c.endidx = b.endidx
      /\ c.buffer = b.buffer
  BY DEF BufOK, Buffer_t, Drained, SameEnds, SameFlags
<1> HIDE DEF c
<1>2. c.endidx = SlotOf(c, c.bytes) /\ c.bytes <= c.totalin
  BY <1>1, BufFacts DEF SlotOf, Wrap
<1>3. ASSUME NEW i \in 0 .. c.bytes - 1
      PROVE  c.buffer[SlotOf(c, i)] = c.totalin - c.bytes + i
  <2>1. i + n \in 0 .. b.bytes - 1
    BY <1>1, BufFacts
  <2>2. SlotOf(c, i) = SlotOf(b, i + n)
    BY <1>1, <2>1, BufFacts DEF SlotOf, Wrap
  <2>3. b.buffer[SlotOf(b, i + n)] = b.totalin - b.bytes + (i + n)
    BY <2>1 DEF BufOK, RingOK
  <2> QED BY <1>1, <2>2, <2>3, <2>1, BufFacts
<1> QED BY <1>m, <1>1, <1>2, <1>3 DEF BufOK, RingOK, c

\* writeBuffer keeps a ring consistent and accounts for every byte.
LEMMA WriteOK ==
  ASSUME NEW b, BufOK(b), NEW r \in WriteResults(b)
  PROVE  LET c == writeBuffer(b, r) IN
         /\ r \in Int
         /\ BufOK(c) /\ SameEnds(c, b)
         /\ c.totalin = b.totalin
         /\ c.bytes = IF r > 0 THEN b.bytes - r ELSE b.bytes
         /\ c.totalout = IF r > 0 /\ b.outfd THEN b.totalout + r ELSE b.totalout
         /\ c.eof_read = b.eof_read /\ c.readErr = b.readErr
         /\ c.writeErr <=> (b.writeErr \/ r = ERR)
         /\ c.eof_sent <=> (b.eof_sent \/ (b.eof_read /\ WriteAvail(b) = 0))
<1> DEFINE c == writeBuffer(b, r)
<1>0. b \in Buffer_t /\ b.eof_sent \in BOOLEAN /\ b.eof_read \in BOOLEAN
      /\ b.writeErr \in BOOLEAN /\ b.outfd \in BOOLEAN
  BY DEF BufOK, Buffer_t
<1>a. WriteAvail(b) \in Nat /\ b.bytes \in Nat /\ b.totalout \in Nat
  BY WriteAvailOK, BufFacts
<1>1. CASE WriteAvail(b) = 0
  <2>1. r = AGAIN /\ c = [b EXCEPT !.eof_sent = b.eof_sent \/ b.eof_read]
    BY <1>1 DEF WriteResults, writeBuffer
  <2>2. BufOK(c)
    BY <2>1, <1>0, FlagsOK
  <2> QED BY <2>1, <2>2, <1>0, <1>1, <1>a DEF Buffer_t, AGAIN, ERR, SameEnds
<1>2. CASE WriteAvail(b) # 0
  <2>0. ~b.writeErr
    BY <1>2, WriteAvailOK
  <2>1. \/ r \in 0 .. WriteAvail(b)
        \/ r = ERR
        \/ r = AGAIN
    BY <1>2, <1>a DEF WriteResults
  <2>2. CASE r \in 0 .. WriteAvail(b)
    <3>1. c = Drained(b, r) /\ r \in Nat
      BY <1>2, <2>2, <1>a DEF writeBuffer
    <3>2. r <= b.bytes /\ b.startidx + r <= BUFFER_SIZE
      BY <2>2, <3>1, WriteAvailOK, BufFacts
    <3>3. /\ BufOK(c) /\ SameEnds(c, b) /\ SameFlags(c, b)
          /\ c.totalin = b.totalin /\ c.bytes = b.bytes - r
          /\ c.totalout = IF b.outfd THEN b.totalout + r ELSE b.totalout
      BY <3>1, <3>2, DrainedOK
    <3> QED BY <3>3, <3>1, <1>0, <1>2, <1>a, <2>0 DEF SameFlags, ERR
  <2>3. CASE r = ERR
    <3>1. c = [b EXCEPT !.writeErr = TRUE]
      BY <1>2, <2>3 DEF writeBuffer, ERR
    <3>2. BufOK(c)
      BY <3>1, FlagsOK
    <3> QED BY <3>1, <3>2, <2>3, <1>0, <1>2, <1>a DEF Buffer_t, ERR, SameEnds
  <2>4. CASE r = AGAIN
    <3>1. c = b
      BY <1>2, <2>4 DEF writeBuffer, ERR, AGAIN
    <3> QED BY <3>1, <2>4, <1>0, <1>2, <1>a, <2>0 DEF ERR, AGAIN, SameEnds
  <2> QED BY <2>1, <2>2, <2>3, <2>4
<1> QED BY <1>1, <1>2

\* What writeBuffer puts on the output: the oldest buffered bytes, in order.
LEMMA WrittenOK ==
  ASSUME NEW b, BufOK(b), NEW r \in WriteResults(b)
  PROVE  /\ Written(b, r) \in Seq(Int)
         /\ Len(Written(b, r)) = IF r > 0 /\ b.outfd THEN r ELSE 0
         /\ \A i \in 1 .. Len(Written(b, r)) :
              Written(b, r)[i] = b.totalin - b.bytes + i - 1
<1>a. WriteAvail(b) \in Nat /\ r \in Int
  BY WriteAvailOK, WriteOK
<1>1. CASE ~(r > 0 /\ b.outfd)
  BY <1>1, <1>a DEF Written
<1>2. CASE r > 0 /\ b.outfd
  <2>0. r \in 1 .. WriteAvail(b)
    BY <1>2, <1>a DEF WriteResults, ERR, AGAIN
  <2>1. r \in Nat /\ r <= b.bytes /\ b.startidx + r <= BUFFER_SIZE
    BY <2>0, <1>a, WriteAvailOK, BufFacts
  <2>2. Written(b, r) = [i \in 1 .. r |-> b.buffer[b.startidx + i - 1]]
    BY <1>2 DEF Written
  <2>3. ASSUME NEW i \in 1 .. r
        PROVE  b.buffer[b.startidx + i - 1] = b.totalin - b.bytes + i - 1
    <3>1. i - 1 \in 0 .. b.bytes - 1 /\ SlotOf(b, i - 1) = b.startidx + i - 1
      BY <2>1, BufFacts DEF SlotOf
    <3>2. b.buffer[SlotOf(b, i - 1)] = b.totalin - b.bytes + (i - 1)
      BY <3>1 DEF BufOK, RingOK
    <3> QED BY <3>1, <3>2, BufFacts
  <2>4. \A i \in 1 .. r : b.buffer[b.startidx + i - 1] \in Int
    <3>1. b.totalin \in Int /\ b.bytes \in Int
      BY BufFacts
    <3>2. ASSUME NEW i \in 1 .. r
          PROVE  b.totalin - b.bytes + i - 1 \in Int
      BY <3>1, <2>1
    <3> QED BY <3>2, <2>3, Zenon
  <2>5. Written(b, r) \in Seq(Int) /\ Len(Written(b, r)) = r
    BY <2>1, <2>2, <2>4
  <2> QED BY <2>5, <2>2, <2>3, <1>2
<1> QED BY <1>1, <1>2

-----------------------------------------------------------------------------
(* The inductive invariant of the job *)

\* EOF on the job's input is real: it was an error, or the client closed and
\* everything it sent was read; eof_sent is set only on a drained buffer.
JobFlags ==
  /\ n2p.outfd /\ n2p.detectEof
  /\ n2p.totalin <= sent
  /\ n2p.eof_read => n2p.readErr \/ (conn # "open" /\ n2p.totalin = sent)
  /\ n2p.eof_sent => n2p.eof_read /\ (n2p.bytes = 0 \/ n2p.writeErr)

\* The status direction never ends the loop by itself.
StatusFlags == ~p2n.detectEof /\ ~p2n.eof_read /\ ~p2n.eof_sent /\ ~p2n.writeErr

\* What a return value of 0 stands for.
ReturnOK == pc = "done" /\ ret = 0 => n2p.bytes = 0 /\ ~n2p.readErr

IInv == /\ TypeOK /\ RingsOK /\ PrintedInOrder /\ StatusInOrder
        /\ JobFlags /\ StatusFlags /\ ReturnOK

-----------------------------------------------------------------------------

\* Appending the next k bytes of a stream to a prefix of it gives a prefix.
LEMMA AppendPrefix ==
  ASSUME NEW s \in Seq(Int), NEW t \in Seq(Int), IsStreamPrefix(s),
         \A i \in 1 .. Len(t) : t[i] = Len(s) + i - 1
  PROVE  /\ s \o t \in Seq(Int) /\ IsStreamPrefix(s \o t)
         /\ Len(s \o t) = Len(s) + Len(t)
<1>1. s \o t \in Seq(Int) /\ Len(s \o t) = Len(s) + Len(t)
      /\ Len(s) \in Nat /\ Len(t) \in Nat
  OBVIOUS
<1>2. ASSUME NEW i \in 1 .. Len(s \o t) PROVE (s \o t)[i] = i - 1
  <2>1. CASE i <= Len(s)
    BY <2>1, <1>1 DEF IsStreamPrefix
  <2>2. CASE i > Len(s)
    <3>1. i - Len(s) \in 1 .. Len(t) /\ (s \o t)[i] = t[i - Len(s)]
      BY <2>2, <1>1
    <3> QED BY <3>1, <1>1
  <2> QED BY <2>1, <2>2, <1>1
<1> QED BY <1>1, <1>2 DEF IsStreamPrefix

\* The two buffers of a state that satisfies IInv are consistent rings.
LEMMA RingsBufOK == ASSUME IInv PROVE BufOK(n2p) /\ BufOK(p2n)
BY DEF IInv, TypeOK, RingsOK, BufOK

\* Initially nothing was read and nothing was printed.
LEMMA InitIInv == Init => IInv
<1> SUFFICES ASSUME Init PROVE IInv
  OBVIOUS
<1>1. BufOK(n2p) /\ BufOK(p2n)
  BY InitBufferOK DEF Init
<1>a. 0 \in Ages /\ 0 \in 0 .. JobBytes
  BY CopyStreamAssumption DEF Ages
<1>b. printed \in Seq(Int) /\ received \in Seq(Int)
  BY DEF Init
<1>c. n2p \in Buffer_t /\ p2n \in Buffer_t /\ RingsOK
  BY <1>1 DEF BufOK, RingsOK
<1>2. TypeOK
  BY <1>a, <1>b, <1>c DEF Init, TypeOK
<1>3. PrintedInOrder /\ StatusInOrder /\ JobFlags /\ StatusFlags /\ ReturnOK
  BY DEF Init, PrintedInOrder, StatusInOrder, JobFlags, StatusFlags,
         ReturnOK, IsStreamPrefix, initBuffer
<1> QED BY <1>c, <1>2, <1>3 DEF IInv

\* A step that touches neither buffers nor histories nor the client.
LEMMA QuietStep ==
  ASSUME IInv, TypeOK', UNCHANGED <<n2p, p2n, sent, conn, printed, received>>,
         ReturnOK'
  PROVE  IInv'
BY DEF IInv, RingsOK, PrintedInOrder, StatusInOrder, JobFlags, StatusFlags

\* A read into the job's buffer, in either loop.
LEMMA NetReadStep ==
  ASSUME IInv, NEW r \in NetReadResults, n2p' = readBuffer(n2p, r), TypeOK',
         UNCHANGED <<p2n, sent, conn, printed, received>>, pc' # "done"
  PROVE  IInv'
<1>0. BufOK(n2p) /\ r \in ReadResults(n2p) /\ r \in Int
  BY RingsBufOK, RewoundOK, BufferSizeAssumption
     DEF NetReadResults, ReadResults, EOF, ERR, AGAIN
<1>1. /\ BufOK(n2p') /\ SameEnds(n2p', n2p)
      /\ n2p'.totalin - n2p'.bytes = n2p.totalin - n2p.bytes
      /\ n2p'.totalout = n2p.totalout
      /\ n2p'.totalin = IF r > 0 THEN n2p.totalin + r ELSE n2p.totalin
      /\ n2p'.bytes = IF r > 0 THEN n2p.bytes + r ELSE n2p.bytes
      /\ n2p'.eof_sent = n2p.eof_sent /\ n2p'.writeErr = n2p.writeErr
      /\ n2p.readErr => n2p' = n2p
      /\ n2p'.eof_read <=> (n2p.eof_read \/ (n2p.detectEof /\ r \in {EOF, ERR}))
      /\ n2p'.readErr <=> (n2p.readErr \/ r = ERR)
  BY <1>0, ReadOK
<1>2. RingsOK'
  BY <1>1 DEF IInv, RingsOK, BufOK
<1>f. n2p.totalin \in Nat /\ n2p.bytes \in Nat /\ n2p.totalout \in Nat
      /\ sent \in Nat
  BY <1>0, BufFacts, CopyStreamAssumption DEF IInv, TypeOK
<1>3. PrintedInOrder'
  BY <1>1, <1>0, <1>f DEF IInv, PrintedInOrder
<1>4. JobFlags'
  <2>1. r > 0 => n2p.totalin + r <= sent
    BY DEF NetReadResults
  <2>2. r = EOF => conn = "fin" /\ n2p.totalin = sent
    BY DEF NetReadResults
  <2>3. ~n2p.readErr /\ n2p.eof_read => ~(r > 0)
    BY <2>1, <1>f, <1>0 DEF IInv, JobFlags
  <2>4. n2p'.outfd /\ n2p'.detectEof /\ n2p'.totalin <= sent'
    BY <1>1, <2>1, <1>f, <1>0 DEF IInv, JobFlags, SameEnds
  <2>5. n2p'.eof_read => n2p'.readErr \/ (conn' # "open" /\ n2p'.totalin = sent')
    BY <1>1, <2>2, <2>3, <1>f, <1>0 DEF IInv, JobFlags, ERR, EOF
  <2>6. n2p'.eof_sent => n2p'.eof_read /\ (n2p'.bytes = 0 \/ n2p'.writeErr)
    BY <1>1, <2>3 DEF IInv, JobFlags
  <2> QED BY <2>4, <2>5, <2>6 DEF JobFlags
<1>5. StatusInOrder' /\ StatusFlags' /\ ReturnOK'
  BY DEF IInv, StatusInOrder, StatusFlags, ReturnOK
<1> QED BY <1>2, <1>3, <1>4, <1>5 DEF IInv

\* A write of the job's buffer to the printer, in either loop.
LEMMA LpWriteStep ==
  ASSUME IInv, NEW r \in WriteResults(n2p), n2p' = writeBuffer(n2p, r), TypeOK',
         printed' = printed \o Written(n2p, r),
         UNCHANGED <<p2n, sent, conn, received>>, pc' # "done"
  PROVE  IInv'
<1>0. BufOK(n2p)
  BY RingsBufOK
<1>1. /\ r \in Int /\ BufOK(n2p') /\ SameEnds(n2p', n2p)
      /\ n2p'.totalin = n2p.totalin
      /\ n2p'.bytes = IF r > 0 THEN n2p.bytes - r ELSE n2p.bytes
      /\ n2p'.totalout = IF r > 0 /\ n2p.outfd THEN n2p.totalout + r
                                               ELSE n2p.totalout
      /\ n2p'.eof_read = n2p.eof_read /\ n2p'.readErr = n2p.readErr
      /\ n2p'.writeErr <=> (n2p.writeErr \/ r = ERR)
      /\ n2p'.eof_sent <=> (n2p.eof_sent \/ (n2p.eof_read /\ WriteAvail(n2p) = 0))
  BY <1>0, WriteOK
<1>2. /\ Written(n2p, r) \in Seq(Int)
      /\ Len(Written(n2p, r)) = IF r > 0 /\ n2p.outfd THEN r ELSE 0
      /\ \A i \in 1 .. Len(Written(n2p, r)) :
           Written(n2p, r)[i] = n2p.totalin - n2p.bytes + i - 1
  BY <1>0, WrittenOK
<1>f. n2p.totalin \in Nat /\ n2p.bytes \in Nat /\ n2p.totalout \in Nat
  BY <1>0, BufFacts
<1>3. RingsOK'
  BY <1>1 DEF IInv, RingsOK, BufOK
<1>4. PrintedInOrder'
  <2>1. printed \in Seq(Int) /\ IsStreamPrefix(printed)
        /\ n2p.totalin - n2p.bytes = Len(printed) /\ Len(printed) \in Nat
    BY <1>f DEF IInv, TypeOK, PrintedInOrder
  <2>2. \A i \in 1 .. Len(Written(n2p, r)) : Written(n2p, r)[i] = Len(printed) + i - 1
    BY <1>2, <2>1
  <2>3. IsStreamPrefix(printed') /\ Len(printed') = Len(printed) + Len(Written(n2p, r))
    BY <1>2, <2>1, <2>2, AppendPrefix
  <2>4. n2p.outfd
    BY DEF IInv, JobFlags
  <2> QED BY <2>1, <2>3, <2>4, <1>1, <1>2, <1>f DEF IInv, PrintedInOrder
<1>5. JobFlags'
  <2>1. WriteAvail(n2p) = 0 => r = AGAIN /\ (n2p.bytes = 0 \/ n2p.writeErr)
    BY <1>0, WriteAvailOK DEF WriteResults
  <2>2. WriteAvail(n2p) \in Nat /\ (n2p.bytes = 0 => WriteAvail(n2p) = 0)
    BY <1>0, WriteAvailOK
  <2> QED BY <1>1, <1>f, <2>1, <2>2 DEF IInv, JobFlags, SameEnds, AGAIN, ERR
<1>6. StatusInOrder' /\ StatusFlags' /\ ReturnOK'
  BY DEF IInv, StatusInOrder, StatusFlags, ReturnOK
<1> QED BY <1>3, <1>4, <1>5, <1>6 DEF IInv

\* A read of the printer's status.
LEMMA LpReadStep ==
  ASSUME IInv, NEW r \in LpReadResults, p2n' = readBuffer(p2n, r), TypeOK',
         UNCHANGED <<n2p, sent, conn, printed, received>>, pc' # "done"
  PROVE  IInv'
<1>0. BufOK(p2n) /\ r \in ReadResults(p2n)
  BY RingsBufOK DEF LpReadResults
<1>1. /\ BufOK(p2n') /\ SameEnds(p2n', p2n)
      /\ p2n'.totalin - p2n'.bytes = p2n.totalin - p2n.bytes
      /\ p2n'.totalout = p2n.totalout
      /\ p2n'.eof_sent = p2n.eof_sent /\ p2n'.writeErr = p2n.writeErr
      /\ p2n'.eof_read <=> (p2n.eof_read \/ (p2n.detectEof /\ r \in {EOF, ERR}))
  BY <1>0, ReadOK
<1>2. RingsOK'
  BY <1>1 DEF IInv, RingsOK, BufOK
<1>3. StatusFlags'
  BY <1>1 DEF IInv, StatusFlags, SameEnds
<1>4. StatusInOrder'
  <2>1. /\ p2n.totalin \in Nat /\ p2n.bytes \in Nat
        /\ p2n'.totalin \in Nat /\ p2n'.bytes \in Nat
        /\ p2n.totalout \in Nat
    BY <1>0, <1>1, BufFacts DEF IInv, TypeOK
  <2> QED BY <1>1, <2>1 DEF IInv, StatusInOrder, SameEnds
<1>5. PrintedInOrder' /\ JobFlags' /\ ReturnOK'
  BY DEF IInv, PrintedInOrder, JobFlags, ReturnOK
<1> QED BY <1>2, <1>3, <1>4, <1>5 DEF IInv

\* A write of the printer's status to the client, or its discarding.
LEMMA NetWriteStep ==
  ASSUME IInv, NEW r \in NetWriteResults,
         p2n' = Discarding(writeBuffer(p2n, r), r), TypeOK',
         received' = received \o Written(p2n, r),
         UNCHANGED <<n2p, sent, conn, printed>>, pc' # "done"
  PROVE  IInv'
<1> DEFINE w == writeBuffer(p2n, r)
<1>0. BufOK(p2n) /\ r \in WriteResults(p2n) /\ (r = ERR => conn # "open")
  BY RingsBufOK DEF NetWriteResults
<1>1. /\ r \in Int /\ BufOK(w) /\ SameEnds(w, p2n)
      /\ w.totalin = p2n.totalin
      /\ w.bytes = IF r > 0 THEN p2n.bytes - r ELSE p2n.bytes
      /\ w.totalout = IF r > 0 /\ p2n.outfd THEN p2n.totalout + r
                                             ELSE p2n.totalout
      /\ w.eof_read = p2n.eof_read
      /\ w.writeErr <=> (p2n.writeErr \/ r = ERR)
      /\ w.eof_sent <=> (p2n.eof_sent \/ (p2n.eof_read /\ WriteAvail(p2n) = 0))
  BY <1>0, WriteOK
<1>2. /\ Written(p2n, r) \in Seq(Int)
      /\ Len(Written(p2n, r)) = IF r > 0 /\ p2n.outfd THEN r ELSE 0
      /\ \A i \in 1 .. Len(Written(p2n, r)) :
           Written(p2n, r)[i] = p2n.totalin - p2n.bytes + i - 1
  BY <1>0, WrittenOK
<1>f. p2n.totalin \in Nat /\ p2n.bytes \in Nat /\ p2n.totalout \in Nat
      /\ received \in Seq(Int)
      /\ Len(received) \in Nat /\ IsStreamPrefix(received)
  BY <1>0, BufFacts DEF IInv, TypeOK, StatusInOrder
<1> HIDE DEF w
<1>3. /\ BufOK(p2n') /\ p2n'.detectEof = p2n.detectEof
      /\ p2n'.outfd = (IF r = ERR THEN FALSE ELSE p2n.outfd)
      /\ ~p2n'.writeErr
      /\ p2n'.totalin = p2n.totalin /\ p2n'.bytes = w.bytes
      /\ p2n'.totalout = w.totalout
      /\ p2n'.eof_read = p2n.eof_read /\ p2n'.eof_sent = w.eof_sent
  <2>1. CASE r = ERR
    <3>1. p2n' = [w EXCEPT !.outfd = FALSE, !.writeErr = FALSE]
      BY <2>1 DEF Discarding, w
    <3>2. BufOK(p2n')
      BY <3>1, <1>1, FlagsOK
    <3> QED BY <2>1, <3>1, <3>2, <1>1 DEF BufOK, Buffer_t, SameEnds
  <2>2. CASE r # ERR
    <3>1. p2n' = w
      BY <2>2 DEF Discarding, w
    <3> QED BY <2>2, <3>1, <1>1 DEF SameEnds, IInv, StatusFlags
  <2> QED BY <2>1, <2>2
<1>4. RingsOK' /\ StatusFlags'
  BY <1>1, <1>3 DEF IInv, RingsOK, BufOK, StatusFlags
<1>5. StatusInOrder'
  <2>1. CASE p2n.outfd
    <3>1. p2n.totalin - p2n.bytes = Len(received)
      BY <1>f, <2>1 DEF IInv, StatusInOrder
    <3>2. \A i \in 1 .. Len(Written(p2n, r)) :
            Written(p2n, r)[i] = Len(received) + i - 1
      BY <1>2, <3>1
    <3>3. IsStreamPrefix(received')
          /\ Len(received') = Len(received) + Len(Written(p2n, r))
      BY <1>2, <1>f, <3>2, AppendPrefix
    <3> QED BY <3>1, <3>3, <1>0, <1>1, <1>2, <1>3, <1>f, <2>1
            DEF IInv, StatusInOrder
  <2>2. CASE ~p2n.outfd
    <3>1. received' = received
      <4>1. Written(p2n, r) = << >>
        BY <2>2 DEF Written
      <4>2. received \o << >> = received
        BY <1>f, ConcatEmptySeq, Zenon
      <4> QED BY <4>1, <4>2
    <3> QED BY <3>1, <2>2, <1>1, <1>3 DEF IInv, StatusInOrder
  <2> QED BY <2>1, <2>2
<1>6. PrintedInOrder' /\ JobFlags' /\ ReturnOK'
  BY DEF IInv, PrintedInOrder, JobFlags, ReturnOK
<1> QED BY <1>4, <1>5, <1>6 DEF IInv

-----------------------------------------------------------------------------

\* Every step of the daemon and of the world keeps the types.
LEMMA TypeStep == ASSUME IInv, [Next]_vars PROVE TypeOK'
<1> USE CopyStreamAssumption
<1>0. TypeOK
  BY DEF IInv
<1>b. BufOK(n2p) /\ BufOK(p2n) /\ n2p \in Buffer_t /\ p2n \in Buffer_t
  BY RingsBufOK DEF BufOK
<1>z. 0 \in Ages
  BY DEF Ages
<1>n. \A r \in NetReadResults : readBuffer(n2p, r) \in Buffer_t
  BY <1>b, ReadOK DEF NetReadResults, BufOK
<1>l. \A r \in LpReadResults : readBuffer(p2n, r) \in Buffer_t
  BY <1>b, ReadOK DEF LpReadResults, BufOK
<1>w. \A r \in WriteResults(n2p) : /\ writeBuffer(n2p, r) \in Buffer_t
                                   /\ printed \o Written(n2p, r) \in Seq(Int)
  BY <1>0, <1>b, WriteOK, WrittenOK DEF BufOK, TypeOK
<1>s. \A r \in NetWriteResults :
        /\ Discarding(writeBuffer(p2n, r), r) \in Buffer_t
        /\ received \o Written(p2n, r) \in Seq(Int)
  <2> SUFFICES ASSUME NEW r \in NetWriteResults
               PROVE  /\ Discarding(writeBuffer(p2n, r), r) \in Buffer_t
                      /\ received \o Written(p2n, r) \in Seq(Int)
    OBVIOUS
  <2>1. r \in WriteResults(p2n)
    BY DEF NetWriteResults
  <2>2. BufOK(writeBuffer(p2n, r)) /\ Written(p2n, r) \in Seq(Int)
    BY <2>1, <1>b, WriteOK, WrittenOK
  <2>3. Discarding(writeBuffer(p2n, r), r) \in Buffer_t
    BY <2>2, FlagsOK DEF Discarding, BufOK
  <2> QED BY <2>2, <2>3, <1>0 DEF TypeOK
<1>1. CASE UNCHANGED vars
  BY <1>0, <1>1 DEF vars, TypeOK
<1>2. CASE Daemon
  <2> USE <1>0 DEF TypeOK, bufs, sets, time, peer, hist, Return
  <2>1. CASE Finish
    BY <2>1 DEF Finish, JobResult
  <2>2. CASE Prepare
    BY <2>2 DEF Prepare
  <2>3. CASE SelectReturns
    BY <2>3 DEF SelectReturns, Select
  <2>4. CASE ReadNet
    BY <2>4, <1>n, <1>z DEF ReadNet
  <2>5. CASE SkipReadNet
    BY <2>5 DEF SkipReadNet
  <2>6. CASE IdleStop
    BY <2>6 DEF IdleStop, JobResult
  <2>7. CASE NotIdle
    BY <2>7 DEF NotIdle
  <2>8. CASE ReadLp
    BY <2>8, <1>l DEF ReadLp
  <2>9. CASE SkipReadLp
    BY <2>9 DEF SkipReadLp
  <2>10. CASE WritesLp
    BY <2>10, <1>w, <1>z DEF WritesLp, WriteLp
  <2>11. CASE SkipWriteLp
    BY <2>11 DEF SkipWriteLp
  <2>12. CASE WriteNet
    BY <2>12, <1>s DEF WriteNet
  <2>13. CASE SkipWriteNet
    BY <2>13 DEF SkipWriteNet
  <2>14. CASE UniHead
    BY <2>14 DEF UniHead, JobResult
  <2>15. CASE UniRead
    BY <2>15, <1>n DEF UniRead
  <2>16. CASE UniWrites
    BY <2>16, <1>w DEF UniWrites, UniWrite
  <2> QED BY <1>2, <2>1, <2>2, <2>3, <2>4, <2>5, <2>6, <2>7, <2>8, <2>9, <2>10,
             <2>11, <2>12, <2>13, <2>14, <2>15, <2>16 DEF Daemon
<1>3. CASE Trouble
  <2>1. AGAIN \in NetReadResults
    BY DEF NetReadResults, ReadResults, AGAIN, EOF, ERR
  <2> QED BY <1>0, <1>3, <1>n, <2>1
          DEF Trouble, SelectInterrupted, SelectFails, UniReadInterrupted,
              Return, TypeOK, bufs, sets, time, peer, hist
<1>4. CASE World
  <2> USE <1>0 DEF TypeOK, bufs, sets, time, peer, hist
  <2>1. CASE ClientSends
    BY <2>1 DEF ClientSends
  <2>2. CASE ClientEnds
    BY <2>2 DEF ClientEnds
  <2>3. CASE PaceExpires
    BY <2>3 DEF PaceExpires
  <2>4. CASE Tick
    <3>1. age' \in Ages
      BY <2>4 DEF Tick, Ages
    <3> QED BY <2>4, <3>1 DEF Tick
  <2>5. CASE ClockSet
    BY <2>5 DEF ClockSet
  <2> QED BY <1>4, <2>1, <2>2, <2>3, <2>4, <2>5 DEF World
<1> QED BY <1>1, <1>2, <1>3, <1>4 DEF Next, Done

\* Every step keeps IInv.
LEMMA StepIInv == IInv /\ [Next]_vars => IInv'
<1> SUFFICES ASSUME IInv, [Next]_vars PROVE IInv'
  OBVIOUS
<1>t. TypeOK' /\ TypeOK /\ ReturnOK
  BY TypeStep DEF IInv
<1>d. /\ n2p.eof_sent => n2p.bytes = 0 \/ n2p.writeErr
      /\ ~p2n.writeErr
      /\ n2p.readErr \in BOOLEAN /\ n2p.writeErr \in BOOLEAN
  BY DEF IInv, JobFlags, StatusFlags, TypeOK, Buffer_t
<1>1. CASE UNCHANGED vars
  BY <1>1, <1>t, QuietStep DEF vars, ReturnOK
<1>2. CASE Daemon
  <2> USE <1>t DEF bufs, sets, time, peer, hist
  <2>1. CASE Finish
    <3>1. n2p.eof_sent \/ n2p.writeErr
      BY <2>1, <1>d DEF Finish, LoopGoesOn
    <3>2. ReturnOK'
      BY <2>1, <3>1, <1>d DEF Finish, Return, JobResult, ReturnOK
    <3> QED BY <2>1, <3>2, QuietStep DEF Finish
  <2>2. CASE Prepare
    BY <2>2, QuietStep DEF Prepare, ReturnOK
  <2>3. CASE SelectReturns
    BY <2>3, QuietStep DEF SelectReturns, Select, ReturnOK
  <2>4. CASE ReadNet
    BY <2>4, NetReadStep DEF ReadNet
  <2>5. CASE SkipReadNet
    BY <2>5, QuietStep DEF SkipReadNet, ReturnOK
  <2>6. CASE IdleStop
    <3>1. ReturnOK'
      BY <2>6, <1>d DEF IdleStop, Idle, Return, JobResult, ReturnOK
    <3> QED BY <2>6, <3>1, QuietStep DEF IdleStop
  <2>7. CASE NotIdle
    BY <2>7, QuietStep DEF NotIdle, ReturnOK
  <2>8. CASE ReadLp
    BY <2>8, LpReadStep DEF ReadLp
  <2>9. CASE SkipReadLp
    BY <2>9, QuietStep DEF SkipReadLp, ReturnOK
  <2>10. CASE WritesLp
    BY <2>10, LpWriteStep DEF WritesLp, WriteLp
  <2>11. CASE SkipWriteLp
    BY <2>11, QuietStep DEF SkipWriteLp, ReturnOK
  <2>12. CASE WriteNet
    BY <2>12, NetWriteStep DEF WriteNet
  <2>13. CASE SkipWriteNet
    BY <2>13, QuietStep DEF SkipWriteNet, ReturnOK
  <2>14. CASE UniHead
    <3>1. ReturnOK'
      BY <2>14, <1>d DEF UniHead, Return, JobResult, ReturnOK
    <3> QED BY <2>14, <3>1, QuietStep DEF UniHead
  <2>15. CASE UniRead
    BY <2>15, NetReadStep DEF UniRead
  <2>16. CASE UniWrites
    BY <2>16, LpWriteStep DEF UniWrites, UniWrite
  <2> QED BY <1>2, <2>1, <2>2, <2>3, <2>4, <2>5, <2>6, <2>7, <2>8, <2>9, <2>10,
             <2>11, <2>12, <2>13, <2>14, <2>15, <2>16 DEF Daemon
<1>3. CASE Trouble
  <2> USE <1>t DEF bufs, sets, time, peer, hist
  <2>1. CASE SelectInterrupted
    BY <2>1, QuietStep DEF SelectInterrupted, ReturnOK
  <2>2. CASE SelectFails
    BY <2>2, QuietStep DEF SelectFails, Return, ReturnOK
  <2>3. CASE UniReadInterrupted
    <3>1. AGAIN \in NetReadResults
      BY DEF NetReadResults, ReadResults, AGAIN, EOF, ERR
    <3> QED BY <2>3, <3>1, NetReadStep DEF UniReadInterrupted
  <2> QED BY <1>3, <2>1, <2>2, <2>3 DEF Trouble
<1>4. CASE World
  <2> USE <1>t DEF bufs, sets, time, peer, hist
  <2>1. CASE ClientSends
    <3>1. JobFlags'
      <4>1. n2p' = n2p /\ conn = "open" /\ conn' = conn /\ sent' >= sent
            /\ sent' \in Nat /\ sent \in Nat
        BY <2>1, CopyStreamAssumption DEF ClientSends, TypeOK
      <4>2. n2p.totalin \in Nat
        BY RingsBufOK, BufFacts
      <4> QED BY <4>1, <4>2 DEF IInv, JobFlags
    <3> QED BY <2>1, <3>1 DEF ClientSends, IInv, RingsOK, PrintedInOrder,
                             StatusInOrder, StatusFlags, ReturnOK
  <2>2. CASE ClientEnds
    <3>1. JobFlags' /\ StatusInOrder'
      BY <2>2 DEF ClientEnds, IInv, JobFlags, StatusInOrder
    <3> QED BY <2>2, <3>1 DEF ClientEnds, IInv, RingsOK, PrintedInOrder,
                             StatusFlags, ReturnOK
  <2>3. CASE PaceExpires
    BY <2>3, QuietStep DEF PaceExpires, ReturnOK
  <2>4. CASE Tick
    BY <2>4, QuietStep DEF Tick, ReturnOK
  <2>5. CASE ClockSet
    BY <2>5, QuietStep DEF ClockSet, ReturnOK
  <2> QED BY <1>4, <2>1, <2>2, <2>3, <2>4, <2>5 DEF World
<1> QED BY <1>1, <1>2, <1>3, <1>4 DEF Next, Done

\* IInv holds throughout every job.
THEOREM InductiveInvariant == Spec => []IInv
BY InitIInv, StepIInv, PTL DEF Spec

\* The variables of copy_stream keep their types.
THEOREM TypeCorrect == Spec => []TypeOK
<1>1. IInv => TypeOK
  BY DEF IInv
<1> QED BY <1>1, InductiveInvariant, PTL

\* Both ring buffers hold exactly the bytes their counters say, in order,
\* across wraps, short reads, short writes and rewinds.
THEOREM RingsConsistent == Spec => []RingsOK
<1>1. IInv => RingsOK
  BY DEF IInv
<1> QED BY <1>1, InductiveInvariant, PTL

\* The printer gets the bytes of the client in order, none lost or repeated.
THEOREM NothingLostOrRepeated == Spec => []PrintedInOrder
<1>1. IInv => PrintedInOrder
  BY DEF IInv
<1> QED BY <1>1, InductiveInvariant, PTL

\* The client gets the printer's status in order, and misses bytes only
\* after its connection has failed.
THEOREM StatusNeverReordered == Spec => []StatusInOrder
<1>1. IInv => StatusInOrder
  BY DEF IInv
<1> QED BY <1>1, InductiveInvariant, PTL

\* copy_stream returns 0 only when what it read, and after EOF all the client
\* sent, is printed.
THEOREM SuccessIsComplete == Spec => []SuccessMeansPrinted
<1>1. IInv => SuccessMeansPrinted
  <2> SUFFICES ASSUME IInv, pc = "done", ret = 0
               PROVE  /\ Len(printed) = n2p.totalin
                      /\ n2p.eof_read => Len(printed) = sent
    BY DEF SuccessMeansPrinted
  <2>1. n2p.bytes = 0 /\ ~n2p.readErr
    BY DEF IInv, ReturnOK
  <2>2. n2p.totalin \in Nat /\ n2p.totalout \in Nat
    BY RingsBufOK, BufFacts
  <2> QED BY <2>1, <2>2 DEF IInv, PrintedInOrder, JobFlags
<1> QED BY <1>1, InductiveInvariant, PTL

\* The idle timeout only ends a job with nothing buffered, however the wall
\* clock was set.
THEOREM IdleTimeoutIsSafe == Spec => IdleNeverDropsData
<1>1. IInv /\ [Next]_vars => [IdleStop => n2p.bytes = 0 /\ ~n2p.eof_read
                              /\ Len(printed) = n2p.totalin]_vars
  <2> SUFFICES ASSUME IInv, IdleStop
               PROVE  n2p.bytes = 0 /\ ~n2p.eof_read /\ Len(printed) = n2p.totalin
    OBVIOUS
  <2>1. n2p.totalin \in Nat /\ n2p.totalout \in Nat
    BY RingsBufOK, BufFacts
  <2> QED BY <2>1 DEF IInv, IdleStop, Idle, PrintedInOrder
<1> QED BY <1>1, InductiveInvariant, PTL DEF Spec, IdleNeverDropsData

\* Losing the client's status connection never ends the loop.
THEOREM StatusLossNeverEndsJob == Spec => StatusLossIsHarmless
<1>1. IInv /\ [Next]_vars => [Finish => n2p.eof_sent \/ n2p.writeErr]_vars
  BY DEF IInv, StatusFlags, Finish, LoopGoesOn
<1> QED BY <1>1, InductiveInvariant, PTL DEF Spec, StatusLossIsHarmless

\* While the wall clock is not set, the sample taken before select is never
\* ahead of the clock when the timeout is decided.
SampleIsPast == pc \in {"select", "readNet", "idle"} => nowAge <= age

LEMMA SampleKept ==
  ASSUME ~ClockMaySet, TypeOK, SampleIsPast, [Next]_vars
  PROVE  SampleIsPast'
<1>0. age \in Int /\ nowAge \in Int
  BY CopyStreamAssumption DEF TypeOK, Ages
<1>1. CASE UNCHANGED vars
  BY <1>1 DEF vars, SampleIsPast
<1>2. CASE Daemon
  <2> USE DEF SampleIsPast, time
  <2>1. CASE Finish \/ IdleStop \/ NotIdle \/ ReadLp \/ SkipReadLp \/ SkipWriteLp \/ WriteNet \/ SkipWriteNet
             \/ UniHead \/ UniRead
    BY <2>1 DEF Finish, IdleStop, NotIdle, ReadLp, SkipReadLp, SkipWriteLp, WriteNet, SkipWriteNet, UniHead,
                UniRead, Return
  <2>2. CASE Prepare
    BY <1>0, <2>2 DEF Prepare
  <2>3. CASE SelectReturns
    BY <2>3 DEF SelectReturns, Select
  <2>4. CASE ReadNet
    BY <1>0, <2>4 DEF ReadNet
  <2>5. CASE SkipReadNet
    BY <2>5 DEF SkipReadNet
  <2>6. CASE WritesLp \/ UniWrites
    BY <2>6 DEF WritesLp, WriteLp, UniWrites, UniWrite
  <2> QED BY <1>2, <2>1, <2>2, <2>3, <2>4, <2>5, <2>6 DEF Daemon
<1>3. CASE Trouble
  BY <1>3 DEF Trouble, SelectInterrupted, SelectFails, UniReadInterrupted, Return, SampleIsPast
<1>4. CASE World
  <2>1. pc' = pc /\ nowAge' = nowAge /\ age' \in {age, age + 1}
    BY <1>4 DEF World, ClientSends, ClientEnds, PaceExpires, Tick, ClockSet, time
  <2> QED BY <1>0, <2>1 DEF SampleIsPast
<1> QED BY <1>1, <1>2, <1>3, <1>4 DEF Next, Done

\* As long as the clock is not set, copy_stream gives up on a client only when
\* the whole limit has passed since the last byte it read or printed, although
\* it decides with a sample taken before the wait.
THEOREM IdleTimeoutIsNotEarly == ASSUME ~ClockMaySet PROVE Spec => IdleOnlyAfterLimit
<1>1. Init => SampleIsPast
  BY DEF Init, SampleIsPast
<1>2. TypeOK /\ SampleIsPast /\ [Next]_vars => SampleIsPast'
  BY SampleKept
<1>3. TypeOK /\ SampleIsPast => [IdleStop => age >= IdleLimit]_vars
  BY CopyStreamAssumption DEF TypeOK, Ages, SampleIsPast, IdleStop, Idle
<1> QED BY <1>1, <1>2, <1>3, TypeCorrect, PTL DEF Spec, IdleOnlyAfterLimit

-----------------------------------------------------------------------------
(* Each direction implements ByteChannel: the ring holds a run of            *)
(* consecutive stream bytes, so every step of a ring is one of the abstract  *)
(* queue.                                                                    *)

\* The n stream bytes from offset a on.
Run(a, n) == [i \in 1 .. n |-> a + i - 1]

\* A run is a sequence of its length.
LEMMA RunSeq ==
  ASSUME NEW a \in Nat, NEW n \in Nat
  PROVE  /\ Run(a, n) \in Seq(Int) /\ Len(Run(a, n)) = n
         /\ \A i \in 1 .. n : Run(a, n)[i] = a + i - 1
BY DEF Run

\* Two adjacent runs make one.
LEMMA RunConcat ==
  ASSUME NEW a \in Nat, NEW m \in Nat, NEW n \in Nat
  PROVE  Run(a, m) \o Run(a + m, n) = Run(a, m + n)
<1> DEFINE u == Run(a, m)
           v == Run(a + m, n)
           w == Run(a, m + n)
<1>0. a + m \in Nat /\ m + n \in Nat
  OBVIOUS
<1>1. u \in Seq(Int) /\ Len(u) = m /\ \A i \in 1 .. m : u[i] = a + i - 1
  BY RunSeq
<1>2. v \in Seq(Int) /\ Len(v) = n /\ \A i \in 1 .. n : v[i] = (a + m) + i - 1
  BY <1>0, RunSeq
<1>3. w \in Seq(Int) /\ Len(w) = m + n /\ \A i \in 1 .. m + n : w[i] = a + i - 1
  BY <1>0, RunSeq
<1> HIDE DEF u, v, w
<1>4. u \o v \in Seq(Int) /\ Len(u \o v) = m + n
  <2>1. u \in Seq(Int) /\ v \in Seq(Int)
    BY <1>1, <1>2
  <2>2. u \o v \in Seq(Int) /\ Len(u \o v) = Len(u) + Len(v)
    BY <2>1, ConcatProperties
  <2> QED BY <2>2, <1>1, <1>2
<1>5. ASSUME NEW i \in 1 .. m + n PROVE (u \o v)[i] = w[i]
  <2>1. CASE i <= m
    BY <2>1, <1>1, <1>2, <1>3
  <2>2. CASE i > m
    <3>1. i - m \in 1 .. n /\ (u \o v)[i] = v[i - m]
      BY <2>2, <1>1, <1>2
    <3> QED BY <3>1, <1>2, <1>3
  <2>3. i <= m \/ i > m
    OBVIOUS
  <2> QED BY <2>1, <2>2, <2>3, Zenon
<1>6. u \o v = w
  BY <1>3, <1>4, <1>5, SeqEqual
<1> QED BY <1>6 DEF u, v, w

\* A run is cut into two runs.
LEMMA RunCut ==
  ASSUME NEW a \in Nat, NEW m \in Nat, NEW n \in Nat, n <= m
  PROVE  /\ SubSeq(Run(a, m), 1, n) = Run(a, n)
         /\ SubSeq(Run(a, m), n + 1, Len(Run(a, m))) = Run(a + n, m - n)
<1>1. /\ Run(a, m) \in Seq(Int) /\ Len(Run(a, m)) = m
      /\ \A i \in 1 .. m : Run(a, m)[i] = a + i - 1
  BY RunSeq
<1>2. SubSeq(Run(a, m), 1, n) = Run(a, n)
  <2>1. /\ SubSeq(Run(a, m), 1, n) = [i \in 1 .. n |-> Run(a, m)[i]]
    BY <1>1
  <2> QED BY <2>1, <1>1 DEF Run
<1>3. SubSeq(Run(a, m), n + 1, m) = Run(a + n, m - n)
  <2>1. SubSeq(Run(a, m), n + 1, m) = [i \in 1 .. (m - n) |-> Run(a, m)[i + n]]
    BY <1>1
  <2> QED BY <2>1, <1>1 DEF Run
<1> QED BY <1>1, <1>2, <1>3

-----------------------------------------------------------------------------
(* One ring *)

\* What a consistent ring holds is the run of the last bytes read.
LEMMA PendingRun ==
  ASSUME NEW b, BufOK(b)
  PROVE  /\ Pending(b) = Run(b.totalin - b.bytes, b.bytes)
         /\ b.totalin - b.bytes \in Nat /\ b.bytes \in Nat
         /\ Len(Pending(b)) = b.bytes
<1>1. b.totalin - b.bytes \in Nat /\ b.bytes \in Nat
  BY BufFacts
<1>2. ASSUME NEW i \in 1 .. b.bytes
      PROVE  b.buffer[SlotOf(b, i - 1)] = (b.totalin - b.bytes) + i - 1
  <2>1. i - 1 \in 0 .. b.bytes - 1
    BY <1>1
  <2>2. b.buffer[SlotOf(b, i - 1)] = b.totalin - b.bytes + (i - 1)
    BY <2>1 DEF BufOK, RingOK
  <2> QED BY <2>2, <1>1, BufFacts
<1>3. Pending(b) = Run(b.totalin - b.bytes, b.bytes)
  BY <1>2 DEF Pending, Run
<1>4. Len(Run(b.totalin - b.bytes, b.bytes)) = b.bytes
  BY <1>1, RunSeq
<1> QED BY <1>1, <1>3, <1>4, Zenon

\* A read of n bytes puts a run behind the queue.
LEMMA PutRun ==
  ASSUME NEW b, BufOK(b), NEW c, BufOK(c), NEW n \in Nat,
         c.totalin = b.totalin + n, c.bytes = b.bytes + n
  PROVE  Pending(c) = Pending(b) \o Run(b.totalin, n)
<1> DEFINE a == b.totalin - b.bytes
<1>1. Pending(b) = Run(a, b.bytes) /\ a \in Nat /\ b.bytes \in Nat
  BY PendingRun
<1>2. Pending(c) = Run(c.totalin - c.bytes, c.bytes)
  BY PendingRun
<1>3. c.totalin - c.bytes = a /\ a + b.bytes = b.totalin
  BY BufFacts
<1> HIDE DEF a
<1>4. Run(a, b.bytes) \o Run(a + b.bytes, n) = Run(a, b.bytes + n)
  BY <1>1, RunConcat
<1> QED BY <1>1, <1>2, <1>3, <1>4

\* A write of n bytes removes the front of the queue.
LEMMA TakeRun ==
  ASSUME NEW b, BufOK(b), NEW c, BufOK(c), NEW n \in Nat, n <= b.bytes,
         c.totalin = b.totalin, c.bytes = b.bytes - n
  PROVE  /\ Pending(c) = SubSeq(Pending(b), n + 1, Len(Pending(b)))
         /\ SubSeq(Pending(b), 1, n) = Run(b.totalin - b.bytes, n)
<1> DEFINE a == b.totalin - b.bytes
<1>1. Pending(b) = Run(a, b.bytes) /\ a \in Nat /\ b.bytes \in Nat
  BY PendingRun
<1>2. Pending(c) = Run(c.totalin - c.bytes, c.bytes)
  BY PendingRun
<1>3. c.totalin - c.bytes = a + n
  BY BufFacts
<1> HIDE DEF a
<1>4. /\ SubSeq(Run(a, b.bytes), 1, n) = Run(a, n)
      /\ SubSeq(Run(a, b.bytes), n + 1, Len(Run(a, b.bytes)))
           = Run(a + n, b.bytes - n)
  BY <1>1, RunCut
<1> QED BY <1>1, <1>2, <1>3, <1>4 DEF a

\* What a write puts on its output is the run at the front of the queue.
LEMMA WrittenRun ==
  ASSUME NEW b, BufOK(b), NEW r \in WriteResults(b), r > 0, b.outfd
  PROVE  /\ r \in Nat /\ r <= b.bytes
         /\ Written(b, r) = Run(b.totalin - b.bytes, r)
<1>1. r \in Nat /\ r <= b.bytes
  <2>1. WriteAvail(b) \in Nat /\ WriteAvail(b) <= b.bytes /\ b.bytes \in Nat
    BY WriteAvailOK, BufFacts
  <2> QED BY <2>1 DEF WriteResults, ERR, AGAIN
<1>2. /\ Written(b, r) \in Seq(Int) /\ Len(Written(b, r)) = r
      /\ \A i \in 1 .. Len(Written(b, r)) :
           Written(b, r)[i] = b.totalin - b.bytes + i - 1
  BY WrittenOK
<1>3. /\ Run(b.totalin - b.bytes, r) \in Seq(Int)
      /\ Len(Run(b.totalin - b.bytes, r)) = r
      /\ \A i \in 1 .. r :
           Run(b.totalin - b.bytes, r)[i] = (b.totalin - b.bytes) + i - 1
  BY <1>1, PendingRun, RunSeq
<1>4. \A i \in 1 .. Len(Written(b, r)) :
        Written(b, r)[i] = Run(b.totalin - b.bytes, r)[i]
  BY <1>2, <1>3
<1>5. Written(b, r) = Run(b.totalin - b.bytes, r)
  BY <1>2, <1>3, <1>4, SeqEqual
<1> QED BY <1>1, <1>5

-----------------------------------------------------------------------------
(* The job *)

\* A step that changes neither the job's ring nor what is printed nor whether
\* the job has ended is invisible in the abstract channel.
LEMMA JobStutter ==
  ASSUME UNCHANGED <<n2p, printed, Ended>>
  PROVE  UNCHANGED JobChannel!chanvars
BY DEF JobChannel!chanvars

\* A read from the network is a Put, or invisible.
LEMMA JobPut ==
  ASSUME IInv, IInv', NEW r \in NetReadResults, n2p' = readBuffer(n2p, r),
         printed' = printed, Ended = "no", Ended' = "no"
  PROVE  [JobChannel!Next]_JobChannel!chanvars
<1>0. BufOK(n2p) /\ BufOK(n2p') /\ r \in ReadResults(n2p)
  BY RingsBufOK DEF IInv, TypeOK, RingsOK, BufOK, NetReadResults
<1>1. /\ n2p'.totalin = IF r > 0 THEN n2p.totalin + r ELSE n2p.totalin
      /\ n2p'.bytes = IF r > 0 THEN n2p.bytes + r ELSE n2p.bytes
  BY <1>0, ReadOK
<1>2. Pending(n2p) = Run(n2p.totalin - n2p.bytes, n2p.bytes)
      /\ Pending(n2p') = Run(n2p'.totalin - n2p'.bytes, n2p'.bytes)
      /\ Len(Pending(n2p)) = n2p.bytes
  BY <1>0, PendingRun
<1>3. CASE r > 0
  <2>1. r \in 1 .. BUFFER_SIZE - n2p.bytes /\ r \in Nat
    <3>1. ReadAvail(n2p) \in Nat /\ n2p.bytes + ReadAvail(n2p) <= BUFFER_SIZE
          /\ n2p.bytes \in Nat /\ BUFFER_SIZE \in Nat
      BY <1>0, RewoundOK, BufFacts DEF SameTotals
    <3> QED BY <3>1, <1>0, <1>3 DEF ReadResults, EOF, ERR, AGAIN
  <2>2. n2p'.totalin = n2p.totalin + r /\ n2p'.bytes = n2p.bytes + r
    BY <1>1, <1>3
  <2>3. Pending(n2p') = Pending(n2p) \o Run(n2p.totalin, r)
    BY <2>1, <2>2, <1>0, PutRun
  <2>4. JobChannel!Put
    BY <2>1, <2>2, <2>3, <1>2 DEF JobChannel!Put, Run
  <2> QED BY <2>4 DEF JobChannel!Next
<1>4. CASE ~(r > 0)
  <2>1. n2p'.totalin = n2p.totalin /\ n2p'.bytes = n2p.bytes
    BY <1>1, <1>4
  <2>2. Pending(n2p') = Pending(n2p)
    BY <2>1, <1>2
  <2> QED BY <2>1, <2>2 DEF JobChannel!chanvars
<1> QED BY <1>3, <1>4

\* A write to the printer is a Deliver, or invisible.
LEMMA JobDeliver ==
  ASSUME IInv, IInv', NEW r \in WriteResults(n2p), n2p' = writeBuffer(n2p, r),
         printed' = printed \o Written(n2p, r), Ended = "no", Ended' = "no"
  PROVE  [JobChannel!Next]_JobChannel!chanvars
<1>0. BufOK(n2p) /\ BufOK(n2p') /\ n2p.outfd /\ printed \in Seq(Int)
  BY RingsBufOK DEF IInv, TypeOK, RingsOK, BufOK, JobFlags
<1>1. /\ n2p'.totalin = n2p.totalin
      /\ n2p'.bytes = IF r > 0 THEN n2p.bytes - r ELSE n2p.bytes
  BY <1>0, WriteOK
<1>2. Pending(n2p) = Run(n2p.totalin - n2p.bytes, n2p.bytes)
      /\ Pending(n2p') = Run(n2p'.totalin - n2p'.bytes, n2p'.bytes)
      /\ Len(Pending(n2p)) = n2p.bytes /\ n2p.bytes \in Nat
  BY <1>0, PendingRun
<1>3. CASE r > 0
  <2>1. r \in Nat /\ r <= n2p.bytes
        /\ Written(n2p, r) = Run(n2p.totalin - n2p.bytes, r)
    BY <1>0, <1>3, WrittenRun
  <2>2. n2p'.bytes = n2p.bytes - r
    BY <1>1, <1>3
  <2>3. /\ Pending(n2p') = SubSeq(Pending(n2p), r + 1, Len(Pending(n2p)))
        /\ SubSeq(Pending(n2p), 1, r) = Written(n2p, r)
    BY <2>1, <2>2, <1>0, <1>1, TakeRun
  <2>4. r \in 1 .. Len(Pending(n2p))
    BY <2>1, <1>2, <1>3
  <2>5. JobChannel!Deliver
    BY <2>3, <2>4, <1>1 DEF JobChannel!Deliver
  <2> QED BY <2>5 DEF JobChannel!Next
<1>4. CASE ~(r > 0)
  <2>1. n2p'.totalin = n2p.totalin /\ n2p'.bytes = n2p.bytes
    BY <1>1, <1>4
  <2>2. Pending(n2p') = Pending(n2p)
    BY <2>1, <1>2
  <2>3. printed' = printed
    <3>1. Written(n2p, r) = << >>
      BY <1>4 DEF Written
    <3>2. printed \o << >> = printed
      BY <1>0, ConcatEmptySeq, Zenon
    <3> QED BY <3>1, <3>2
  <2> QED BY <2>1, <2>2, <2>3 DEF JobChannel!chanvars
<1> QED BY <1>3, <1>4

\* copy_stream's return is the End of the channel.
LEMMA JobEnd ==
  ASSUME IInv, IInv', UNCHANGED <<n2p, printed>>, Ended = "no", pc' = "done"
  PROVE  JobChannel!Next
<1>1. CASE ret' = 0
  <2>1. n2p.bytes = 0
    BY <1>1 DEF IInv, ReturnOK
  <2>2. Pending(n2p) = << >>
    BY <2>1 DEF Pending
  <2>3. JobChannel!End
    BY <1>1, <2>2 DEF JobChannel!End, Ended
  <2> QED BY <2>3 DEF JobChannel!Next
<1>2. CASE ret' # 0
  <2>1. JobChannel!End
    BY <1>2 DEF JobChannel!End, Ended
  <2> QED BY <2>1 DEF JobChannel!Next
<1> QED BY <1>1, <1>2

\* The job direction of copy_stream implements the abstract channel: every
\* step of the daemon is a step of the queue or invisible.
THEOREM JobRefinement == Spec => JobIsChannel
<1>1. Init => JobChannel!Init
  <2> SUFFICES ASSUME Init PROVE JobChannel!Init
    OBVIOUS
  <2>1. n2p.bytes = 0 /\ n2p.totalin = 0
    BY DEF Init, initBuffer
  <2>2. Pending(n2p) = << >>
    BY <2>1 DEF Pending
  <2> QED BY <2>1, <2>2 DEF Init, JobChannel!Init, Ended
<1>2. IInv /\ IInv' /\ [Next]_vars => [JobChannel!Next]_JobChannel!chanvars
  <2> SUFFICES ASSUME IInv, IInv', [Next]_vars
               PROVE  [JobChannel!Next]_JobChannel!chanvars
    OBVIOUS
  <2> USE DEF bufs, sets, time, peer, hist
  <2>1. CASE UNCHANGED vars \/ Done
    BY <2>1, JobStutter DEF vars, Done, Ended
  <2>2. CASE Finish \/ IdleStop \/ SelectFails
    BY <2>2, JobEnd DEF Finish, IdleStop, SelectFails, Return, Ended
  <2>3. CASE UniHead
    <3>1. CASE pc' = "done"
      BY <2>3, <3>1, JobEnd DEF UniHead, Ended
    <3>2. CASE pc' # "done"
      BY <2>3, <3>2, JobStutter DEF UniHead, Return, Ended
    <3> QED BY <3>1, <3>2
  <2>4. CASE ReadNet
    BY <2>4, JobPut DEF ReadNet, Ended
  <2>5. CASE UniRead
    BY <2>5, JobPut DEF UniRead, Ended
  <2>6. CASE UniReadInterrupted
    <3>1. AGAIN \in NetReadResults
      BY DEF NetReadResults, ReadResults, AGAIN, EOF, ERR
    <3> QED BY <2>6, <3>1, JobPut DEF UniReadInterrupted, Ended
  <2>7. CASE WritesLp
    BY <2>7, JobDeliver DEF WritesLp, WriteLp, Ended
  <2>8. CASE UniWrites
    BY <2>8, JobDeliver DEF UniWrites, UniWrite, Ended
  <2>9. CASE Prepare \/ SelectReturns \/ SelectInterrupted \/ SkipReadNet
              \/ NotIdle \/ SkipReadLp \/ SkipWriteLp \/ SkipWriteNet
    BY <2>9, JobStutter DEF Prepare, SelectReturns, Select, SelectInterrupted,
         SkipReadNet, NotIdle, SkipReadLp, SkipWriteLp, SkipWriteNet, Ended
  <2>10. CASE ReadLp \/ WriteNet
    BY <2>10, JobStutter DEF ReadLp, WriteNet, Ended
  <2>11. CASE World
    BY <2>11, JobStutter DEF World, ClientSends, ClientEnds, PaceExpires, Tick,
         ClockSet, Ended
  <2> QED BY <2>1, <2>2, <2>3, <2>4, <2>5, <2>6, <2>7, <2>8, <2>9, <2>10, <2>11
          DEF Next, Daemon, Trouble
<1> QED BY <1>1, <1>2, InductiveInvariant, PTL DEF Spec, JobIsChannel, JobChannel!Spec

-----------------------------------------------------------------------------
(* The status *)

\* A step that leaves the status ring, what the client received and the end
\* of the job alone is invisible.
LEMMA StatusStutter ==
  ASSUME UNCHANGED <<p2n, received, Ended>>
  PROVE  UNCHANGED StatusChannel!chanvars
BY DEF StatusChannel!chanvars

\* A read from the printer is a Put, or invisible.
LEMMA StatusPut ==
  ASSUME IInv, IInv', NEW r \in LpReadResults, p2n' = readBuffer(p2n, r),
         received' = received, Ended = "no", Ended' = "no"
  PROVE  [StatusChannel!Next]_StatusChannel!chanvars
<1>0. BufOK(p2n) /\ BufOK(p2n') /\ r \in ReadResults(p2n)
  BY RingsBufOK DEF IInv, TypeOK, RingsOK, BufOK, LpReadResults
<1>1. /\ p2n'.totalin = IF r > 0 THEN p2n.totalin + r ELSE p2n.totalin
      /\ p2n'.bytes = IF r > 0 THEN p2n.bytes + r ELSE p2n.bytes
      /\ p2n'.outfd = p2n.outfd
  BY <1>0, ReadOK DEF SameEnds
<1>2. Pending(p2n) = Run(p2n.totalin - p2n.bytes, p2n.bytes)
      /\ Pending(p2n') = Run(p2n'.totalin - p2n'.bytes, p2n'.bytes)
      /\ Len(Pending(p2n)) = p2n.bytes
  BY <1>0, PendingRun
<1>3. CASE r > 0
  <2>1. r \in 1 .. BUFFER_SIZE - p2n.bytes /\ r \in Nat
    <3>1. ReadAvail(p2n) \in Nat /\ p2n.bytes + ReadAvail(p2n) <= BUFFER_SIZE
          /\ p2n.bytes \in Nat /\ BUFFER_SIZE \in Nat
      BY <1>0, RewoundOK, BufFacts DEF SameTotals
    <3> QED BY <3>1, <1>0, <1>3 DEF ReadResults, EOF, ERR, AGAIN
  <2>2. p2n'.totalin = p2n.totalin + r /\ p2n'.bytes = p2n.bytes + r
    BY <1>1, <1>3
  <2>3. Pending(p2n') = Pending(p2n) \o Run(p2n.totalin, r)
    BY <2>1, <2>2, <1>0, PutRun
  <2>4. StatusChannel!Put
    BY <2>1, <2>2, <2>3, <1>1, <1>2 DEF StatusChannel!Put, Run
  <2> QED BY <2>4 DEF StatusChannel!Next
<1>4. CASE ~(r > 0)
  <2>1. p2n'.totalin = p2n.totalin /\ p2n'.bytes = p2n.bytes
    BY <1>1, <1>4
  <2>2. Pending(p2n') = Pending(p2n)
    BY <2>1, <1>2
  <2> QED BY <2>1, <2>2, <1>1 DEF StatusChannel!chanvars
<1> QED BY <1>3, <1>4

\* A write to the client is a Deliver; after the connection failed it is a
\* Drop; the failing write itself is the Lose.
LEMMA StatusTake ==
  ASSUME IInv, IInv', NEW r \in NetWriteResults,
         p2n' = Discarding(writeBuffer(p2n, r), r),
         received' = received \o Written(p2n, r), Ended = "no", Ended' = "no"
  PROVE  [StatusChannel!Next]_StatusChannel!chanvars
<1> DEFINE w == writeBuffer(p2n, r)
<1>0. BufOK(p2n) /\ BufOK(p2n') /\ r \in WriteResults(p2n)
      /\ received \in Seq(Int)
  BY RingsBufOK DEF IInv, TypeOK, RingsOK, BufOK, NetWriteResults
<1>a. /\ w \in Buffer_t /\ w.totalin = p2n.totalin
      /\ w.bytes = IF r > 0 THEN p2n.bytes - r ELSE p2n.bytes
      /\ w.outfd = p2n.outfd
  BY <1>0, WriteOK DEF SameEnds, BufOK
<1> HIDE DEF w
<1>1. /\ p2n'.totalin = p2n.totalin
      /\ p2n'.bytes = IF r > 0 THEN p2n.bytes - r ELSE p2n.bytes
      /\ p2n'.outfd = IF r = ERR THEN FALSE ELSE p2n.outfd
  <2>1. CASE r = ERR
    BY <2>1, <1>a DEF Discarding, Buffer_t, ERR, w
  <2>2. CASE r # ERR
    BY <2>2, <1>a DEF Discarding, w
  <2> QED BY <2>1, <2>2
<1>2. Pending(p2n) = Run(p2n.totalin - p2n.bytes, p2n.bytes)
      /\ Pending(p2n') = Run(p2n'.totalin - p2n'.bytes, p2n'.bytes)
      /\ Len(Pending(p2n)) = p2n.bytes /\ p2n.bytes \in Nat
  BY <1>0, PendingRun
<1>e. received \o << >> = received
  BY <1>0, ConcatEmptySeq, Zenon
<1>3. CASE r > 0
  <2>1. r \in Nat /\ r <= p2n.bytes
    <3>1. WriteAvail(p2n) \in Nat /\ WriteAvail(p2n) <= p2n.bytes
      BY <1>0, WriteAvailOK
    <3> QED BY <3>1, <1>0, <1>2, <1>3 DEF WriteResults, ERR, AGAIN
  <2>2. p2n'.bytes = p2n.bytes - r /\ p2n'.outfd = p2n.outfd
    <3>1. r # ERR
      BY <2>1 DEF ERR
    <3> QED BY <1>1, <1>3, <3>1
  <2>3. /\ Pending(p2n') = SubSeq(Pending(p2n), r + 1, Len(Pending(p2n)))
        /\ SubSeq(Pending(p2n), 1, r) = Run(p2n.totalin - p2n.bytes, r)
    BY <2>1, <2>2, <1>0, <1>1, TakeRun
  <2>4. r \in 1 .. Len(Pending(p2n))
    BY <2>1, <1>2, <1>3
  <2>5. CASE p2n.outfd
    <3>1. Written(p2n, r) = Run(p2n.totalin - p2n.bytes, r)
      BY <1>0, <1>3, <2>5, WrittenRun
    <3>2. StatusChannel!Deliver
      BY <2>2, <2>3, <2>4, <2>5, <3>1, <1>1 DEF StatusChannel!Deliver
    <3> QED BY <3>2 DEF StatusChannel!Next
  <2>6. CASE ~p2n.outfd
    <3>1. received' = received
      BY <2>6, <1>e DEF Written
    <3>2. StatusChannel!Drop
      BY <2>2, <2>3, <2>4, <2>6, <3>1, <1>1 DEF StatusChannel!Drop
    <3> QED BY <3>2 DEF StatusChannel!Next
  <2> QED BY <2>5, <2>6
<1>4. CASE ~(r > 0)
  <2>1. p2n'.totalin = p2n.totalin /\ p2n'.bytes = p2n.bytes
    BY <1>1, <1>4
  <2>2. Pending(p2n') = Pending(p2n)
    BY <2>1, <1>2
  <2>3. received' = received
    BY <1>4, <1>e DEF Written
  <2>4. CASE r = ERR /\ p2n.outfd
    <3>1. StatusChannel!Lose
      BY <2>1, <2>2, <2>3, <2>4, <1>1 DEF StatusChannel!Lose
    <3> QED BY <3>1 DEF StatusChannel!Next
  <2>5. CASE ~(r = ERR /\ p2n.outfd)
    <3>1. p2n'.outfd = p2n.outfd
      BY <2>5, <1>1, <1>0 DEF BufOK, Buffer_t
    <3> QED BY <2>1, <2>2, <2>3, <3>1 DEF StatusChannel!chanvars
  <2> QED BY <2>4, <2>5
<1> QED BY <1>3, <1>4

\* The status direction of copy_stream implements the channel that may lose
\* its receiver.
THEOREM StatusRefinement == Spec => StatusIsChannel
<1>1. Init => StatusChannel!Init
  <2> SUFFICES ASSUME Init PROVE StatusChannel!Init
    OBVIOUS
  <2>1. p2n.bytes = 0 /\ p2n.totalin = 0 /\ p2n.outfd = TRUE
    BY DEF Init, initBuffer
  <2>2. Pending(p2n) = << >>
    BY <2>1 DEF Pending
  <2> QED BY <2>1, <2>2 DEF Init, StatusChannel!Init, Ended
<1>2. IInv /\ IInv' /\ [Next]_vars => [StatusChannel!Next]_StatusChannel!chanvars
  <2> SUFFICES ASSUME IInv, IInv', [Next]_vars
               PROVE  [StatusChannel!Next]_StatusChannel!chanvars
    OBVIOUS
  <2> USE DEF bufs, sets, time, peer, hist
  <2>1. CASE UNCHANGED vars \/ Done
    BY <2>1, StatusStutter DEF vars, Done, Ended
  <2>2. ASSUME UNCHANGED <<p2n, received>>, pc # "done", pc' = "done"
        PROVE  StatusChannel!Next
    <3>1. StatusChannel!End
      BY <2>2 DEF StatusChannel!End, Ended
    <3> QED BY <3>1 DEF StatusChannel!Next
  <2>3. CASE Finish \/ IdleStop \/ SelectFails
    BY <2>3, <2>2 DEF Finish, IdleStop, SelectFails, Return
  <2>4. CASE UniHead
    <3>1. CASE pc' = "done"
      BY <2>4, <3>1, <2>2 DEF UniHead
    <3>2. CASE pc' # "done"
      BY <2>4, <3>2, StatusStutter DEF UniHead, Return, Ended
    <3> QED BY <3>1, <3>2
  <2>5. CASE ReadLp
    BY <2>5, StatusPut DEF ReadLp, Ended
  <2>6. CASE WriteNet
    BY <2>6, StatusTake DEF WriteNet, Ended
  <2>7. CASE ReadNet \/ UniRead \/ UniReadInterrupted
    BY <2>7, StatusStutter DEF ReadNet, UniRead, UniReadInterrupted, Ended
  <2>8. CASE WritesLp \/ UniWrites
    BY <2>8, StatusStutter DEF WritesLp, WriteLp, UniWrites, UniWrite, Ended
  <2>9. CASE Prepare \/ SelectReturns \/ SelectInterrupted \/ SkipReadNet
              \/ NotIdle \/ SkipReadLp \/ SkipWriteLp \/ SkipWriteNet
    BY <2>9, StatusStutter DEF Prepare, SelectReturns, Select, SelectInterrupted,
         SkipReadNet, NotIdle, SkipReadLp, SkipWriteLp, SkipWriteNet, Ended
  <2>10. CASE World
    BY <2>10, StatusStutter DEF World, ClientSends, ClientEnds, PaceExpires,
         Tick, ClockSet, Ended
  <2> QED BY <2>1, <2>3, <2>4, <2>5, <2>6, <2>7, <2>8, <2>9, <2>10
          DEF Next, Daemon, Trouble
<1> QED BY <1>1, <1>2, InductiveInvariant, PTL
        DEF Spec, StatusIsChannel, StatusChannel!Spec
=============================================================================
