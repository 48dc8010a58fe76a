--------------------------- MODULE NativeResponse ---------------------------
(***************************************************************************)
(* The native driver's cursor over one response, as client.rs uses it.     *)
(* The driver is external.  A response is a sequence of tokens:            *)
(*                                                                         *)
(*   "set"     column metadata: a result set starts                        *)
(*   "row"     a row of that set                                           *)
(*   "count"   the end of a statement that reports rows affected           *)
(*   "silent"  the end of a statement that reports none                    *)
(*   "error"   a SQL error; the driver drains what follows it              *)
(*                                                                         *)
(* Rows, sets and items are named by their position in the response.       *)
(***************************************************************************)
EXTENDS Naturals, Sequences

CONSTANT MaxTokens   \* longest response considered

ASSUME MaxTokensAssumption == MaxTokens \in Nat

VARIABLES
  response,  \* the tokens the server sends for the request
  pos,       \* how many of them the driver has read
  onRows     \* TdsClient::on_rows: inside a result set

nativeVars == <<response, pos, onRows>>

Kinds == {"set", "row", "count", "silent", "error"}

\* Rows belong to a result set, and nothing follows an error.
WellFormed(r) ==
  \A i \in DOMAIN r :
    /\ r[i] = "row" => \E s \in 1..(i - 1) : r[s] = "set" /\ \A j \in s + 1..i : r[j] = "row"
    /\ r[i] = "error" => i = Len(r)

Responses == {r \in UNION {[1..n -> Kinds] : n \in 0..MaxTokens} : WellFormed(r)}

NativeTypeOK ==
  /\ response \in Responses
  /\ pos \in 0..Len(response)
  /\ onRows \in BOOLEAN

NativeInit == response \in Responses /\ pos = 0 /\ onRows = FALSE

-----------------------------------------------------------------------------
(* What the next native call finds: ReadTo(i) consumes up to token i *)

ReadTo(i) ==
  /\ pos' = i
  /\ onRows' = (i > 0 /\ response[i] \in {"set", "row"})
  /\ UNCHANGED response

Upcoming(kinds) == {i \in pos + 1..Len(response) : response[i] \in kinds}
NextIs(kinds) == pos < Len(response) /\ response[pos + 1] \in kinds

\* next_row_into and next_row: a row, the end of the set, or an error.
ReadRow == NextIs({"row"}) /\ ReadTo(pos + 1)
\* A slip: the token that ends the rows is lost.
SlipNoMoreRows == ~NextIs({"row", "error"}) /\ onRows' = FALSE /\ pos' = pos + 1 /\ UNCHANGED response

NoMoreRows == ~NextIs({"row", "error"}) /\ onRows' = FALSE /\ UNCHANGED <<response, pos>>
RowError == NextIs({"error"}) /\ ReadTo(pos + 1)

\* execute and advance: one statement further.
ReadStatement(kind) == NextIs({kind}) /\ ReadTo(pos + 1)
AtEnd == pos = Len(response)

\* advance_to_rows: on to the next result set, over statements without rows.
Advanced ==
  \E i \in Upcoming({"set"}) :
    /\ \A j \in Upcoming({"set", "error"}) : i <= j
    /\ ReadTo(i)
AdvanceFails ==
  \E i \in Upcoming({"error"}) : Upcoming({"set"}) = {} /\ ReadTo(i)
NoMoreSets == Upcoming({"set", "error"}) = {} /\ ReadTo(Len(response))

-----------------------------------------------------------------------------
(* Reference: what a response contains *)

Positions(kinds) == {i \in 1..Len(response) : response[i] \in kinds}
Items == Positions({"set", "row"})
Failing == Positions({"error"}) # {}

\* The result set row i belongs to.
SetOf(i) ==
  CHOOSE s \in Positions({"set"}) :
    s <= i /\ \A t \in Positions({"set"}) : t <= i => t <= s

\* The elements of s are the members of S, in response order.
Lists(s, S) ==
  /\ {s[i] : i \in DOMAIN s} = S
  /\ \A i, j \in DOMAIN s : i < j => s[i] < s[j]

=============================================================================
