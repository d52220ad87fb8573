----------------------------- MODULE BjnpLevels -----------------------------
(***************************************************************************)
(* What the BJNP backend makes of the printer's status (bjnp-levels.c).    *)
(* Every status answer is parsed for marker levels, printer status, ink    *)
(* warnings and paper; the backend keeps what it has seen in printer_t and *)
(* writes STATE and ATTR lines from which CUPS keeps the reasons it shows. *)
(* CUPS' set of reasons outlives the printer_t: a connection that fails    *)
(* releases the struct, and the next one starts from LEVEL_UNKNOWN.        *)
(***************************************************************************)
EXTENDS Integers, Sequences, FiniteSets, FiniteSetsExt

CONSTANTS
  Types,      \* cartridge types of the table
  NameOf,     \* marker_name of a type
  Statuses,   \* the status answers the printer gives
  THRESHOLD   \* BJNP_PAPER_OUT_THRESHOLD

\* LEVEL_OK, LEVEL_LOW, LEVEL_EMPTY, LEVEL_UNKNOWN.
Levels == {"OK", "LOW", "EMPTY", "UNKNOWN"}

\* A status answer: the arguments of CIR (type and marker level), DWS (type and
\* warning), DBS and DJS.  A token that is missing or empty is "none" (<<>> for
\* the lists), and a field that does not parse is the type "bad".
StatusOK(s) ==
  /\ \A i \in DOMAIN s.cir : s.cir[i].type \in Types \cup {"bad"} /\ s.cir[i].level \in Nat
  /\ \A i \in DOMAIN s.dws : s.dws[i].type \in Types \cup {"bad"} /\ s.dws[i].warning \in Levels
  /\ s.dbs \in {"none", "idle", "busy", "error"}
  /\ s.djs \in {"none", "ok", "out", "cancelling"}

MaxCarts == Max({Len(s.cir) : s \in Statuses} \cup {Len(s.dws) : s \in Statuses} \cup {1})

ASSUME StatusesAssumption ==
  /\ \A s \in Statuses : StatusOK(s)
  /\ THRESHOLD \in Nat \ {0}
  /\ Types \subseteq DOMAIN NameOf

VARIABLES
  rep,      \* the reporting part of printer_t
  reasons,  \* the reasons CUPS shows, of this job and left by earlier ones
  shown,    \* the last marker-levels attribute
  ret,      \* what the last bjnp_report_levels returned
  said      \* what this connection's printer last said of its paper

levelVars == <<rep, reasons, shown, ret, said>>

\* A reason: one of the standard ones, or a vendor's for one colour.
Low == <<"marker-supply", "low">>
Empty == <<"marker-supply", "empty">>
Media == <<"media", "empty">>
Vendor(name, kind) == <<name, kind>>

Names == {NameOf[t] : t \in Types}
Standard == {Low, Empty, Media}
Capabilities == {"markers", "ink", "status", "paper"}

LevelsTypeOK ==
  /\ rep.caps \subseteq Capabilities
  /\ rep.count \in -1..MaxCarts
  /\ rep.carts \in [1..MaxCarts -> [type: Types \cup {"none"}, warning: Levels, level: Nat \cup {-1}]]
  /\ rep.global \in Levels
  /\ rep.paper \in -1..THRESHOLD
  /\ {rep.first, rep.reported} \subseteq BOOLEAN
  /\ reasons \subseteq Standard \cup (Names \X {"low", "empty"})
  /\ ret \subseteq {"NO_PAPER", "NO_INK", "BUSY", "ERROR"}
  /\ said \in {"none", "ok", "out", "cancelling"}

\* new_printer.
NewPrinter ==
  [caps |-> Capabilities, count |-> -1,
   carts |-> [i \in 1..MaxCarts |-> [type |-> "none", warning |-> "UNKNOWN", level |-> -1]],
   global |-> "UNKNOWN", paper |-> -1, first |-> TRUE, reported |-> FALSE]

-----------------------------------------------------------------------------
(* The parsers.  Each takes the struct q and the answer s.                  *)

\* The fields a list parser gets through: those before the first that does not
\* parse or whose type is not the one learned for that place.
Parsed(q, list) ==
  Min({i \in DOMAIN list : \/ list[i].type = "bad"
                           \/ q.count # -1 /\ q.carts[i].type # list[i].type}
      \cup {Len(list) + 1}) - 1

\* The cartridges' types are learned while their number is not known.
LearnTypes(q, list, n) ==
  [q EXCEPT !.carts = [i \in DOMAIN q.carts |->
     IF i <= n /\ q.count = -1 THEN [q.carts[i] EXCEPT !.type = list[i].type]
     ELSE q.carts[i]]]

LearnCount(q, n) == [q EXCEPT !.count = IF @ = -1 THEN n ELSE @]

\* report_marker_levels: the struct afterwards.
MarkerLevels(q, s) ==
  IF "markers" \notin q.caps \/ s.cir = <<>>
  THEN [q EXCEPT !.caps = @ \ {"markers"}]
  ELSE LET n == Parsed(q, s.cir)
           l == LearnTypes(q, s.cir, n)
           m == [l EXCEPT !.carts = [i \in DOMAIN l.carts |->
                   IF i <= n THEN [l.carts[i] EXCEPT !.level = s.cir[i].level]
                   ELSE l.carts[i]]]
       IN IF n < Len(s.cir) THEN m
          ELSE [LearnCount(m, n) EXCEPT !.reported = @ \/ m.carts # l.carts]

\* The attribute it writes: after the first report every complete answer is
\* reported again, since last_level_report - BJNP_MARKER_INTERVAL > 0 holds.
MarkersShown(q, s) ==
  IF MarkerLevels(q, s).reported /\ s.cir # <<>> /\ Parsed(q, s.cir) = Len(s.cir)
       /\ "markers" \in q.caps
  THEN [i \in 1..Len(s.cir) |-> s.cir[i].level] ELSE shown

\* report_vendor_ink_warnings: the reasons R once a colour goes from one level
\* to another.
VendorInk(R, name, old, new) ==
  LET gone == CASE old = "LOW" -> {Vendor(name, "low")}
                [] old = "EMPTY" -> {Vendor(name, "empty")}
                [] old = "UNKNOWN" -> {Vendor(name, "low"), Vendor(name, "empty")}
                [] OTHER -> {}
      come == CASE new = "LOW" -> {Vendor(name, "low")}
                [] new = "EMPTY" -> {Vendor(name, "empty")}
                [] OTHER -> {}
  IN IF old = new THEN R ELSE (R \ gone) \cup come

\* Mutant of StandardInk: a new printer_t trusts the reasons it finds.
StandardInkTrusts(R, old, new) ==
  LET gone == CASE old = "LOW" -> {Low} [] old = "EMPTY" -> {Empty} [] OTHER -> {}
      come == CASE new = "LOW" -> {Low} [] new = "EMPTY" -> {Empty} [] OTHER -> {}
  IN IF old = new THEN R ELSE (R \ gone) \cup come

\* report_standard_ink_warnings.
StandardInk(R, old, new) ==
  LET gone == CASE old = "LOW" -> {Low} [] old = "EMPTY" -> {Empty}
                [] old = "UNKNOWN" -> {Low, Empty} [] OTHER -> {}
      come == CASE new = "LOW" -> {Low} [] new = "EMPTY" -> {Empty} [] OTHER -> {}
  IN IF old = new THEN R ELSE (R \ gone) \cup come

\* The vendor's reasons of the first n cartridges, one after the other.
VendorReasons(q, list, n) ==
  LET R[i \in 0..n] ==
        IF i = 0 THEN reasons
        ELSE VendorInk(R[i - 1], NameOf[list[i].type], q.carts[i].warning, list[i].warning)
  IN R[n]

\* report_ink_status_messages: the struct, the reasons and the code it returns,
\* which for an empty cartridge has the value of BJNP_NO_PAPER.  A list it
\* cannot follow to the end counts as a printer that is not ready, unless an
\* empty cartridge had been found in it.
InkStatus(q, s) ==
  IF "ink" \notin q.caps \/ s.dws = <<>>
  THEN [rep |-> [q EXCEPT !.caps = @ \ {"ink"}], reasons |-> reasons, ret |-> {}]
  ELSE LET n     == Parsed(q, s.dws)
           l     == LearnTypes(q, s.dws, n)
           m     == [l EXCEPT !.carts = [i \in DOMAIN l.carts |->
                       IF i <= n THEN [l.carts[i] EXCEPT !.warning = s.dws[i].warning]
                       ELSE l.carts[i]]]
           seen  == {s.dws[i].warning : i \in 1..n}
           level == CASE "EMPTY" \in seen -> "EMPTY"
                      [] "EMPTY" \notin seen /\ "LOW" \in seen -> "LOW"
                      [] OTHER -> "OK"
           R     == VendorReasons(q, s.dws, n)
       IN IF n < Len(s.dws)
          THEN [rep |-> m, reasons |-> R, ret |-> IF "EMPTY" \in seen THEN {} ELSE {"NO_PAPER"}]
          ELSE [rep |-> [LearnCount(m, n) EXCEPT !.global = level],
                reasons |-> StandardInk(R, q.global, level),
                ret |-> IF "EMPTY" \in seen THEN {"NO_PAPER"} ELSE {}]

\* report_printer_status.
PrinterStatus(q, s) ==
  IF "status" \notin q.caps \/ s.dbs = "none"
  THEN [rep |-> [q EXCEPT !.caps = @ \ {"status"}], ret |-> {}]
  ELSE [rep |-> q, ret |-> CASE s.dbs = "busy" -> {"BUSY"} [] s.dbs = "error" -> {"ERROR"}
                           [] OTHER -> {}]

\* report_paper_status: at first what the printer says is reported at once,
\* later paper must be seen out THRESHOLD times, and a job cancelled at the
\* printer does not end the condition.
PaperStatus(q, R, s) ==
  IF "paper" \notin q.caps \/ s.djs = "none"
  THEN [rep |-> [q EXCEPT !.caps = @ \ {"paper"}], reasons |-> R, ret |-> {}]
  ELSE LET n == CASE q.first -> IF s.djs = "out" THEN THRESHOLD ELSE 0
                  [] ~q.first /\ s.djs = "out" -> Min({q.paper + 1, THRESHOLD})
                  [] ~q.first /\ s.djs # "out" ->
                       IF q.paper >= THRESHOLD /\ s.djs # "cancelling" THEN 0 ELSE q.paper
           R1 == CASE n >= THRESHOLD /\ (q.first \/ q.paper < THRESHOLD) -> R \cup {Media}
                   [] n < THRESHOLD /\ (q.first \/ q.paper >= THRESHOLD) -> R \ {Media}
                   [] OTHER -> R
       IN [rep |-> [q EXCEPT !.paper = n], reasons |-> R1,
           ret |-> IF n >= THRESHOLD THEN {"NO_PAPER"} ELSE {}]

-----------------------------------------------------------------------------
\* Any job may find the reasons an earlier one left.
LevelsInit ==
  /\ rep = NewPrinter
  /\ reasons \in {{}, {Low, Media}}
  /\ shown = <<>> /\ ret = {} /\ said = "none"

\* bjnp_report_levels with the answer s; the struct goes through the parsers in
\* this order, and the codes are or'ed.
Report(s) ==
  LET a == PrinterStatus(MarkerLevels(rep, s), s)
      b == InkStatus(a.rep, s)
      c == PaperStatus(b.rep, b.reasons, s)
  IN /\ rep' = [c.rep EXCEPT !.first = FALSE]
     /\ reasons' = c.reasons
     /\ shown' = MarkersShown(rep, s)
     /\ ret' = a.ret \cup b.ret \cup c.ret
     /\ said' = s.djs

\* No status comes back: the printer counts as ready.
NoStatus == ret' = {} /\ UNCHANGED <<rep, reasons, shown, said>>

\* The connection fails and the struct is released; the next has a new one.
Reconnect == rep' = NewPrinter /\ said' = "none" /\ UNCHANGED <<reasons, shown, ret>>

LevelsNext == (\E s \in Statuses : Report(s)) \/ NoStatus \/ Reconnect

-----------------------------------------------------------------------------
\* After the first report CUPS shows media-empty-error exactly while the backend
\* holds paper to be out, whatever an earlier job or struct left, as long as the
\* printer reports paper at all (report_paper_status).
MediaReasonAgrees ==
  ~rep.first /\ "paper" \in rep.caps => (Media \in reasons <=> rep.paper >= THRESHOLD)

\* Once ink was reported to the end, CUPS shows the standard reason of the level
\* the backend holds and no other (report_standard_ink_warnings).
InkReasonsAgree ==
  rep.global # "UNKNOWN" =>
    /\ Low \in reasons <=> rep.global = "LOW"
    /\ Empty \in reasons <=> rep.global = "EMPTY"

Named(name) == {i \in DOMAIN rep.carts : rep.carts[i].type \in Types /\ NameOf[rep.carts[i].type] = name}

\* Once a level is known of a cartridge, CUPS shows a vendor's reason for its
\* marker_name only while a cartridge of that name has that level, whatever an
\* earlier job left; and it shows the reason if no other has the name
\* (report_vendor_ink_warnings).  Of two with one name, each takes back the
\* reason of the other with its own.
VendorReasonsAgree ==
  \A name \in Names : (\E i \in Named(name) : rep.carts[i].warning # "UNKNOWN") =>
    LET levels == {rep.carts[i].warning : i \in Named(name)} IN
    /\ Vendor(name, "low") \in reasons => "LOW" \in levels
    /\ Vendor(name, "empty") \in reasons => "EMPTY" \in levels
    /\ Cardinality(Named(name)) = 1 =>
         /\ "LOW" \in levels => Vendor(name, "low") \in reasons
         /\ "EMPTY" \in levels => Vendor(name, "empty") \in reasons

\* A printer that has just said it has paper is not shown as out of paper,
\* whatever an earlier connection, or a job cancelled at the printer, left
\* (report_paper_status).
PaperSeen == said = "ok" /\ "paper" \in rep.caps => Media \notin reasons

\* The reasons CUPS shows are those of the printer as it was last seen.
ReasonsAgree ==
  LevelsTypeOK /\ MediaReasonAgrees /\ InkReasonsAgree /\ VendorReasonsAgree /\ PaperSeen
=============================================================================
