---------------------------- MODULE ByteChannel ----------------------------
(***************************************************************************)
(* What one direction of a print job promises, without buffer arithmetic,  *)
(* descriptors, select or clocks: bytes are accepted in stream order, wait *)
(* in a queue and are delivered in stream order, none lost or repeated.    *)
(*                                                                         *)
(* A Required channel (the job itself) ends "ok" only when everything it   *)
(* accepted was delivered.  A channel that is not Required (the printer's  *)
(* status) may lose its receiver; from then on its bytes are dropped, and  *)
(* it may end with bytes undelivered.                                      *)
(***************************************************************************)
EXTENDS Integers, Sequences

CONSTANTS Capacity, Required

VARIABLES accepted,      \* number of bytes taken from the input
          queue,         \* accepted, not yet delivered or dropped
          delivered,     \* what the receiver got
          lost,          \* the receiver is gone
          ended          \* "no", "ok" or "failed"

chanvars == <<accepted, queue, delivered, lost, ended>>

Init == /\ accepted = 0 /\ queue = << >> /\ delivered = << >>
        /\ lost = FALSE /\ ended = "no"

Put == \E n \in 1 .. Capacity - Len(queue) :
         /\ ended = "no"
         /\ accepted' = accepted + n
         /\ queue' = queue \o [i \in 1 .. n |-> accepted + i - 1]
         /\ UNCHANGED <<delivered, lost, ended>>

Deliver == \E n \in 1 .. Len(queue) :
             /\ ended = "no" /\ ~lost
             /\ delivered' = delivered \o SubSeq(queue, 1, n)
             /\ queue' = SubSeq(queue, n + 1, Len(queue))
             /\ UNCHANGED <<accepted, lost, ended>>

Lose == /\ ended = "no" /\ ~lost /\ ~Required
        /\ lost' = TRUE
        /\ UNCHANGED <<accepted, queue, delivered, ended>>

Drop == \E n \in 1 .. Len(queue) :
          /\ ended = "no" /\ lost
          /\ queue' = SubSeq(queue, n + 1, Len(queue))
          /\ UNCHANGED <<accepted, delivered, lost, ended>>

End == /\ ended = "no"
       /\ \/ ended' = "ok" /\ (Required => queue = << >>)
          \/ ended' = "failed"
       /\ UNCHANGED <<accepted, queue, delivered, lost>>

Next == Put \/ Deliver \/ Lose \/ Drop \/ End

Spec == Init /\ [][Next]_chanvars
=============================================================================
