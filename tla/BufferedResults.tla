--------------------------- MODULE BufferedResults ---------------------------
(***************************************************************************)
(* Client::collect_results and Client::collect_execute_results             *)
(* (client.rs): the loops that buffer a whole response, after close_query  *)
(* and execute; and QueryResult's RowStream (query.rs) over what they      *)
(* buffered.  One future runs one of the loops; it ends with a value or    *)
(* with the first error.  Operators named Slip... are mistakes the         *)
(* properties must tell apart.                                             *)
(***************************************************************************)
EXTENDS NativeResponse, FiniteSets

VARIABLES
  api,         \* "query" (collect_results) or "execute" (collect_execute_results)
  loop,        \* where the loop is
  resultSets,  \* result_sets: the positions of the rows of each set read
  rows,        \* the rows of that set
  statement,   \* the StatementResult being handled: its kind and position
  counts,      \* ExecuteResult::counts, by the statement they are for
  count,       \* rows of the statement being counted
  rowStream,   \* RowStream: its sets, current and remaining
  streamed     \* the rows it has yielded

loopVars == <<api, loop, resultSets, rows, statement, counts, count>>
queryVars == <<resultSets, rows>>
executeVars == <<statement, counts, count>>
streamVars == <<rowStream, streamed>>
vars == <<nativeVars, loopVars, streamVars>>

TypeOK ==
  /\ NativeTypeOK
  /\ api \in {"query", "execute"}
  /\ loop \in {"execute", "test", "row", "advance", "counting", "ok", "err", "streaming", "streamed"}
  /\ resultSets \in Seq(Seq(Nat))
  /\ rows \in Seq(Nat)
  /\ statement \in 0..Len(response)
  /\ counts \in Seq([of : Nat, rows : Nat])
  /\ count \in Nat
  /\ rowStream \in [sets : Seq(Seq(Nat)), current : Seq(Nat), remaining : Nat]
  /\ streamed \in Seq(Nat)

Init ==
  /\ NativeInit
  /\ api \in {"query", "execute"} /\ loop = "execute"
  /\ resultSets = <<>> /\ rows = <<>>
  /\ statement = 0 /\ counts = <<>> /\ count = 0
  /\ rowStream = [sets |-> <<>>, current |-> <<>>, remaining |-> 0] /\ streamed = <<>>

Go(place) == loop' = place /\ UNCHANGED <<api, streamVars>>

-----------------------------------------------------------------------------
(* collect_results: its loop test runs with on_rows or after an advance *)

Execute ==
  /\ api = "query" /\ loop = "execute"
  /\ \/ \E k \in {"set", "count", "silent"} : ReadStatement(k) /\ Go("test")
     \/ AtEnd /\ UNCHANGED nativeVars /\ Go("test")
     \/ ReadStatement("error") /\ Go("err")
  /\ UNCHANGED <<queryVars, executeVars>>

\* while on_rows() || advance_to_rows()
LoopTest ==
  /\ api = "query" /\ loop = "test"
  /\ \/ onRows /\ UNCHANGED nativeVars /\ Go("row")
     \/ ~onRows /\ Advanced /\ Go("row")
     \/ ~onRows /\ AdvanceFails /\ Go("err")
     \/ ~onRows /\ NoMoreSets /\ Go("ok")
  /\ rows' = <<>>
  /\ UNCHANGED <<resultSets, executeVars>>

\* Only sets with rows are pushed.
SlipNextRow ==
  /\ api = "query" /\ loop = "row"
  /\ \/ ReadRow /\ Go("row") /\ rows' = Append(rows, pos') /\ UNCHANGED resultSets
     \/ /\ NoMoreRows /\ Go("advance") /\ UNCHANGED rows
        /\ resultSets' = IF rows = <<>> THEN resultSets ELSE Append(resultSets, rows)
     \/ RowError /\ Go("err") /\ UNCHANGED queryVars
  /\ UNCHANGED executeVars

\* while next_row_into(): the set is pushed when it ends.
NextRow ==
  /\ api = "query" /\ loop = "row"
  /\ \/ ReadRow /\ Go("row") /\ rows' = Append(rows, pos') /\ UNCHANGED resultSets
     \/ NoMoreRows /\ Go("advance") /\ resultSets' = Append(resultSets, rows) /\ UNCHANGED rows
     \/ RowError /\ Go("err") /\ UNCHANGED queryVars
  /\ UNCHANGED executeVars

\* An error is taken for the end: unwrap_or(false).
SlipAfterSet ==
  /\ api = "query" /\ loop = "advance"
  /\ \/ Advanced /\ Go("test")
     \/ (NoMoreSets \/ AdvanceFails) /\ Go("ok")
  /\ UNCHANGED <<queryVars, executeVars>>

\* if !advance_to_rows() { break }
AfterSet ==
  /\ api = "query" /\ loop = "advance"
  /\ \/ Advanced /\ Go("test")
     \/ NoMoreSets /\ Go("ok")
     \/ AdvanceFails /\ Go("err")
  /\ UNCHANGED <<queryVars, executeVars>>

-----------------------------------------------------------------------------
(* collect_execute_results: one StatementResult at a time *)

\* execute or advance returned one: Rows, NoRows with or without a count, End.
Statement ==
  /\ api = "execute" /\ loop \in {"execute", "advance"}
  /\ \/ ReadStatement("set") /\ statement' = pos' /\ count' = 0 /\ Go("counting") /\ UNCHANGED counts
     \/ /\ ReadStatement("count") /\ Go("advance")
        /\ counts' = Append(counts, [of |-> pos', rows |-> 0])
        /\ UNCHANGED <<statement, count>>
     \/ ReadStatement("silent") /\ Go("advance") /\ UNCHANGED executeVars
     \/ ReadStatement("error") /\ Go("err") /\ UNCHANGED executeVars
     \/ AtEnd /\ UNCHANGED nativeVars /\ Go("ok") /\ UNCHANGED executeVars
  /\ UNCHANGED queryVars

\* while next_row(): count the rows of a set.
CountRow ==
  /\ api = "execute" /\ loop = "counting"
  /\ \/ ReadRow /\ count' = count + 1 /\ Go("counting") /\ UNCHANGED counts
     \/ /\ NoMoreRows /\ Go("advance")
        /\ counts' = Append(counts, [of |-> statement, rows |-> count])
        /\ UNCHANGED count
     \/ RowError /\ Go("err") /\ UNCHANGED <<counts, count>>
  /\ UNCHANGED <<queryVars, statement>>

-----------------------------------------------------------------------------
(* QueryResult *)

IntoFirstResult == IF resultSets = <<>> THEN <<>> ELSE resultSets[1]

\* The sum of the lengths of the sets.
Total(sets) == Cardinality(UNION {{k} \X DOMAIN sets[k] : k \in DOMAIN sets})

IntoRowStream ==
  /\ api = "query" /\ loop = "ok" /\ loop' = "streaming"
  /\ rowStream' = [sets      |-> IF resultSets = <<>> THEN <<>> ELSE Tail(resultSets),
                   current   |-> IntoFirstResult,
                   remaining |-> Total(resultSets)]
  /\ UNCHANGED <<nativeVars, api, queryVars, executeVars, streamed>>

\* poll_next: a row of the current set, or the next set, or the end.
PollNext ==
  /\ loop = "streaming"
  /\ CASE rowStream.current # <<>> ->
            /\ rowStream' = [rowStream EXCEPT !.current = Tail(@), !.remaining = @ - 1]
            /\ streamed' = Append(streamed, Head(rowStream.current))
            /\ UNCHANGED loop
       [] rowStream.current = <<>> /\ rowStream.sets # <<>> ->
            /\ rowStream' = [rowStream EXCEPT !.current = Head(rowStream.sets), !.sets = Tail(@)]
            /\ UNCHANGED <<loop, streamed>>
       [] OTHER -> loop' = "streamed" /\ UNCHANGED streamVars
  /\ UNCHANGED <<nativeVars, api, queryVars, executeVars>>

Next ==
  \/ Execute \/ LoopTest \/ NextRow \/ AfterSet \/ Statement \/ CountRow
  \/ IntoRowStream \/ PollNext

Spec == Init /\ [][Next]_vars

-----------------------------------------------------------------------------
(* Correctness *)

Sets == Positions({"set"})
Elements(s) == {s[i] : i \in DOMAIN s}

Read == loop \in {"ok", "streaming", "streamed"}

\* query() returns one Vec per result set, in order, the empty ones and those
\* after statements without rows included, each with exactly its own rows;
\* into_row_stream yields each of them once, in order, whichever sets are
\* empty, and its size_hint counts what it has yet to yield.
ResultsComplete ==
  api = "query" /\ Read =>
    /\ Len(resultSets) = Cardinality(Sets)
    /\ \A s \in Sets :
         Lists(resultSets[Cardinality({t \in Sets : t <= s})],
               {i \in Positions({"row"}) : SetOf(i) = s})
    /\ loop = "streaming" =>
         rowStream.remaining = Cardinality(Positions({"row"}) \ Elements(streamed))
    /\ loop = "streamed" => Lists(streamed, Positions({"row"}))

\* execute() reports one count per statement that has one, in order: the rows
\* of a set, or the server's count; statements without a count leave no gap.
CountsComplete ==
  api = "execute" /\ Read =>
    /\ Lists([k \in DOMAIN counts |-> counts[k].of], Positions({"set", "count"}))
    /\ \A k \in DOMAIN counts :
         counts[k].rows = Cardinality({i \in Positions({"row"}) : SetOf(i) = counts[k].of})

\* No error in the response is swallowed, wherever it is: in the first reply,
\* between rows, or while skipping to the next set; and without one the whole
\* response has been read.
NoErrorSwallowed == Read => ~Failing /\ pos = Len(response)

=============================================================================
