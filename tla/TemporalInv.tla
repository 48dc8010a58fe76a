----------------------------- MODULE TemporalInv -----------------------------
(***************************************************************************)
(* The invariant of Temporal: what a cell is made from, and that it is one *)
(* its type allows, from the parameter to the read.                        *)
(***************************************************************************)
EXTENDS Temporal

Parameter(v) ==
  [type |-> SqlTypeOf(v.kind), day |-> v.day,
   time |-> TicksOf(v.time), offset |-> OffsetMinutes(v.offset)]

Storable(c) == c.time < TicksPerDay /\ c.offset \in (-MaxOffset)..MaxOffset

\* What is bound here is what the library's types hold.
ValueBound ==
  /\ phase \in {"bound", "panicked", "sent", "refused", "stored", "read"} /\ lib \in Libraries
  /\ value # NULL => value \in Values(lib)
  /\ phase \in {"bound", "panicked", "sent", "refused"} => value # NULL
  /\ phase = "panicked" => ~DateFits(value.day)

\* A parameter is sent, refused or stored as Bind made it.
CellMade ==
  /\ phase \in {"sent", "refused", "stored", "read"} /\ value # NULL =>
       DateFits(value.day) /\ cell = Parameter(value)
  /\ phase = "refused" => ~Storable(cell)
  /\ phase \in {"stored", "read"} => cell \in Cells

ReadIt == phase = "read" => target \in Kinds /\ read = ReadAs(target, cell)

TInv == ValueBound /\ CellMade /\ ReadIt
=============================================================================
