----------------------------- MODULE ReaderProofs -----------------------------
(***************************************************************************)
(* Proofs about ResponseReaders for responses of every length: the stream  *)
(* loses nothing, describes what it returns by the right columns and       *)
(* groups the rows as the server did; the buffering loops return each set, *)
(* row and count; and neither reader swallows an error.                    *)
(***************************************************************************)
EXTENDS ResponseReadersInv, SequenceTheorems, FunctionTheorems, FiniteSetTheorems, TLAPS

SP == INSTANCE QueryStreamProofs

-----------------------------------------------------------------------------
(* The stream *)

\* The two instances of QueryStream, under Stream! and under SP!, are the same.
LEMMA SameStream ==
  /\ Stream!Init <=> SP!Init
  /\ Stream!Generate <=> SP!Generate
  /\ Stream!Take <=> SP!Take
  /\ Stream!Collect <=> SP!Collect
  /\ Stream!Peek <=> SP!Peek
  /\ Stream!ReportError <=> SP!ReportError
  /\ Stream!ReportEnd <=> SP!ReportEnd
  /\ Stream!DropPoll <=> SP!DropPoll
  /\ \A f \in {"next", "columns", "collect"} : Stream!StartPoll(f) <=> SP!StartPoll(f)
<1>1. Stream!Init <=> SP!Init
  BY DEF Stream!Init, SP!Init, Stream!NativeInit, SP!NativeInit, Stream!Responses, SP!Responses,
         Stream!Kinds, SP!Kinds, Stream!WellFormed, SP!WellFormed
<1>2. Stream!Generate <=> SP!Generate
  <2>1. Stream!Execute <=> SP!Execute
    BY DEF Stream!Execute, SP!Execute, Stream!ReadStatement, SP!ReadStatement, Stream!NextIs, SP!NextIs,
           Stream!ReadTo, SP!ReadTo, Stream!EnterSet, SP!EnterSet, Stream!Continue, SP!Continue,
           Stream!AtEnd, SP!AtEnd, Stream!nativeVars, SP!nativeVars
  <2>2. Stream!Advance <=> SP!Advance
    BY DEF Stream!Advance, SP!Advance, Stream!Advanced, SP!Advanced, Stream!Upcoming, SP!Upcoming,
           Stream!ReadTo, SP!ReadTo, Stream!EnterSet, SP!EnterSet, Stream!Continue, SP!Continue,
           Stream!AdvanceFails, SP!AdvanceFails, Stream!NoMoreSets, SP!NoMoreSets
  <2>3. Stream!Fetch <=> SP!Fetch
    BY DEF Stream!Fetch, SP!Fetch, Stream!ReadRow, SP!ReadRow, Stream!RowError, SP!RowError,
           Stream!NoMoreRows, SP!NoMoreRows, Stream!NextIs, SP!NextIs,
           Stream!ReadTo, SP!ReadTo, Stream!Continue, SP!Continue
  <2>4. QED BY <2>1, <2>2, <2>3
        DEF Stream!Generate, SP!Generate, Stream!Running, SP!Running, Stream!callerVars, SP!callerVars
<1>3. /\ Stream!Take <=> SP!Take
      /\ Stream!Peek <=> SP!Peek
  BY DEF Stream!Take, SP!Take, Stream!Peek, SP!Peek,
         Stream!Obtain, SP!Obtain, Stream!Describe, SP!Describe, Stream!Found, SP!Found,
         Stream!Yielded, SP!Yielded, Stream!AtYield, SP!AtYield,
         Stream!IsMetadata, SP!IsMetadata, Stream!nativeVars, SP!nativeVars
<1>4. Stream!Collect <=> SP!Collect
  BY DEF Stream!Collect, SP!Collect, Stream!Grouped, SP!Grouped,
         Stream!Obtain, SP!Obtain, Stream!Describe, SP!Describe, Stream!Found, SP!Found,
         Stream!Yielded, SP!Yielded, Stream!AtYield, SP!AtYield,
         Stream!IsMetadata, SP!IsMetadata, Stream!nativeVars, SP!nativeVars
<1>5. /\ Stream!ReportError <=> SP!ReportError
      /\ Stream!ReportEnd <=> SP!ReportEnd
      /\ Stream!DropPoll <=> SP!DropPoll
      /\ \A f \in {"next", "columns", "collect"} : Stream!StartPoll(f) <=> SP!StartPoll(f)
  BY DEF Stream!ReportError, SP!ReportError, Stream!ReportEnd, SP!ReportEnd,
         Stream!DropPoll, SP!DropPoll, Stream!StartPoll, SP!StartPoll,
         Stream!Running, SP!Running, Stream!Finished, SP!Finished,
         Stream!genVars, SP!genVars, Stream!nativeVars, SP!nativeVars
<1>6. QED BY <1>1, <1>2, <1>3, <1>4, <1>5

\* So are the properties.
LEMMA SameProperties ==
  /\ Stream!NothingLost <=> SP!NothingLost
  /\ Stream!ErrorOnce <=> SP!ErrorOnce
  /\ Stream!RowsMatchSchema <=> SP!RowsMatchSchema
  /\ Stream!ColumnsFit <=> SP!ColumnsFit
  /\ Stream!SetsKept <=> SP!SetsKept
  /\ Stream!TypeOK <=> SP!TypeOK
<1>1. /\ Stream!Sets = SP!Sets /\ Stream!Items = SP!Items /\ Stream!Released = SP!Released
      /\ Stream!Failing <=> SP!Failing
  BY DEF Stream!Released, SP!Released, Stream!Items, SP!Items, Stream!Positions, SP!Positions,
         Stream!AtYield, SP!AtYield, Stream!Failing, SP!Failing, Stream!Sets, SP!Sets
<1>2. \A i : Stream!SetOf(i) = SP!SetOf(i)
  <2>1. Stream!Positions({"set"}) = SP!Positions({"set"})
    BY DEF Stream!Positions, SP!Positions
  <2>2. QED BY <2>1 DEF Stream!SetOf, SP!SetOf
<1>3. Stream!NothingLost <=> SP!NothingLost
  BY <1>1 DEF Stream!NothingLost, SP!NothingLost, Stream!At, SP!At,
              Stream!Collected, SP!Collected, Stream!Peeked, SP!Peeked
<1>4. Stream!ErrorOnce <=> SP!ErrorOnce
  BY <1>1 DEF Stream!ErrorOnce, SP!ErrorOnce
<1>5. Stream!RowsMatchSchema <=> SP!RowsMatchSchema
  <2>1. \A S : Stream!Cardinality(S) = SP!Cardinality(S)
    BY DEF Stream!Cardinality, SP!Cardinality
  <2>2. QED BY <1>1, <1>2, <2>1 DEF Stream!RowsMatchSchema, SP!RowsMatchSchema
<1>6. Stream!ColumnsFit <=> SP!ColumnsFit
  BY <1>1, <1>2 DEF Stream!ColumnsFit, SP!ColumnsFit
<1>7. Stream!SetsKept <=> SP!SetsKept
  <2>1. \A S : Stream!Cardinality(S) = SP!Cardinality(S)
    BY DEF Stream!Cardinality, SP!Cardinality
  <2>2. \A s : Stream!At(s) = SP!At(s)
    BY DEF Stream!At, SP!At
  <2>3. Stream!Collected = SP!Collected
    BY <2>2 DEF Stream!Collected, SP!Collected
  <2>4. \A s, S : Stream!Lists(s, S) <=> SP!Lists(s, S)
    BY DEF Stream!Lists, SP!Lists
  <2>5. {i \in Stream!Collected : Stream!SetOf(i) \in Stream!At(taken)}
          = {i \in SP!Collected : SP!SetOf(i) \in SP!At(taken)}
    BY <1>2, <2>2, <2>3
  <2>6. /\ Stream!Sets \ Stream!At(taken) = SP!Sets \ SP!At(taken)
        /\ (Stream!Items \ Stream!Sets) \ Stream!At(taken) = (SP!Items \ SP!Sets) \ SP!At(taken)
    BY <1>1, <2>2
  <2>7. Stream!Cardinality(Stream!Sets \ Stream!At(taken)) = SP!Cardinality(SP!Sets \ SP!At(taken))
    BY <2>1, <2>6
  <2>8. \A k : Stream!Lists([i \in DOMAIN results[k] |-> results[k][i].at], Stream!At(results[k]))
              <=> SP!Lists([i \in DOMAIN results[k] |-> results[k][i].at], SP!At(results[k]))
    BY <2>2, <2>4
  <2>9. ASSUME NEW k, NEW l
        PROVE  (\A i \in Stream!At(results[k]), j \in Stream!At(results[l]) :
                  (k = l <=> Stream!SetOf(i) = Stream!SetOf(j)) /\ (k < l => i < j))
               <=> (\A i \in SP!At(results[k]), j \in SP!At(results[l]) :
                      (k = l <=> SP!SetOf(i) = SP!SetOf(j)) /\ (k < l => i < j))
    BY <1>2, <2>2
  <2>10. QED BY <2>3, <2>5, <2>6, <2>7, <2>8, <2>9 DEF Stream!SetsKept, SP!SetsKept
<1>8. Stream!TypeOK <=> SP!TypeOK
  BY DEF Stream!TypeOK, SP!TypeOK, Stream!NativeTypeOK, SP!NativeTypeOK, Stream!Item, SP!Item,
         Stream!Responses, SP!Responses, Stream!Kinds, SP!Kinds, Stream!WellFormed, SP!WellFormed
<1>9. QED BY <1>3, <1>4, <1>5, <1>6, <1>7, <1>8

LEMMA NoneApart == None \notin SP!Item
  BY NoneAssumption DEF SP!Item

-----------------------------------------------------------------------------
(* The response *)

\* What a response is made of, and that it stays as it is.
LEMMA Native ==
  ASSUME NativeTypeOK
  PROVE  /\ Len(response) \in Nat /\ pos \in 0..Len(response)
         /\ SP!NativeTypeOK
         /\ \A i \in 1..Len(response) :
              /\ response[i] = "row" =>
                   \E s \in 1..(i - 1) :
                     response[s] = "set" /\ \A j \in s + 1..i : response[j] = "row"
              /\ response[i] = "error" => i = Len(response)
<1>1. SP!NativeTypeOK
  BY DEF NativeTypeOK, SP!NativeTypeOK, Responses, SP!Responses, Kinds, SP!Kinds,
         WellFormed, SP!WellFormed
<1>2. SP!NativeTypeOK => response \in SP!Responses /\ pos \in 0..Len(response)
  BY DEF SP!NativeTypeOK
<1>3. QED BY <1>1, <1>2, SP!ResponseFacts, MaxTokensAssumption

LEMMA ResponseStays ==
  ASSUME response' = response
  PROVE  /\ Rows' = Rows /\ \A kinds : Positions(kinds)' = Positions(kinds)
         /\ \A i : SetOf(i)' = SetOf(i) /\ SetsUpTo(i)' = SetsUpTo(i) /\ RowsOf(i)' = RowsOf(i)
<1>1. \A kinds : Positions(kinds)' = Positions(kinds)
  BY DEF Positions
<1>2. Positions({"set"})' = Positions({"set"}) /\ Positions({"row"})' = Positions({"row"})
  BY DEF Positions
<1>3. \A i : SetOf(i)' = SetOf(i)
  BY <1>2 DEF SetOf
<1>4. QED BY <1>1, <1>2, <1>3 DEF SetsUpTo, Rows, RowsOf

\* Where no row comes next, none comes before the next set.
LEMMA NoRowsSkipped ==
  ASSUME NativeTypeOK, ~NextIs({"row"}), NEW m \in 0..Len(response),
         \A j \in pos + 1..Len(response) : response[j] = "set" => m < j
  PROVE  \A j \in pos + 1..m : response[j] \notin {"set", "row"}
<1>1. \A j \in SP!Upcoming({"set"}) : m < j
  BY DEF SP!Upcoming
<1>2. ~SP!NextIs({"row"})
  BY DEF NextIs, SP!NextIs
<1>3. \A j \in pos + 1..m : j \notin SP!Items
  BY <1>1, <1>2, Native, SP!NoRowsBetween, MaxTokensAssumption
<1>4. \A j \in pos + 1..m : j \in 1..Len(response)
  BY Native
<1>5. QED BY <1>3, <1>4 DEF SP!Items, SP!Positions

\* The set of a row is the last one before it.
LEMMA SetOfRow ==
  ASSUME NativeTypeOK, NEW i \in Rows
  PROVE  /\ SetOf(i) \in Positions({"set"}) /\ SetOf(i) < i
         /\ \A t \in Positions({"set"}) : t <= i => t <= SetOf(i)
         /\ \A j \in SetOf(i) + 1..i : j \in Rows
<1>1. i \in 1..Len(response) /\ response[i] = "row" /\ Len(response) \in Nat
  BY Native DEF Rows, Positions
<1>2. PICK s \in 1..(i - 1) : response[s] = "set" /\ \A j \in s + 1..i : response[j] = "row"
  BY <1>1, Native
<1>3. s \in Positions({"set"}) /\ s <= i /\ s < i
  BY <1>1, <1>2 DEF Positions
<1>4. ASSUME NEW t \in Positions({"set"}), t <= i PROVE t <= s
  <2>1. t \in 1..Len(response) /\ response[t] = "set"
    BY DEF Positions
  <2>2. t \notin s + 1..i
    BY <1>2, <2>1
  <2>3. QED BY <1>1, <1>4, <2>1, <2>2
<1>5. \A t \in Positions({"set"}) : t \in Nat
  BY DEF Positions
<1>6. SetOf(i) = s
  <2>1. \A t \in Positions({"set"}) :
          t <= i /\ (\A u \in Positions({"set"}) : u <= i => u <= t) => t = s
    BY <1>3, <1>4, <1>5
  <2>2. QED BY <1>3, <1>4, <2>1 DEF SetOf
<1>7. \A j \in s + 1..i : j \in Rows
  BY <1>1, <1>2 DEF Rows, Positions
<1>8. QED BY <1>3, <1>4, <1>6, <1>7

\* The rows of a set are those that follow it, up to where none comes next.
LEMMA RowsFollow ==
  ASSUME NativeTypeOK, NEW s \in Positions({"set"}), s <= pos, ~NextIs({"row"}),
         \A i \in s + 1..pos : i \in Rows
  PROVE  RowsOf(s) = s + 1..pos
<1>1. /\ Len(response) \in Nat /\ pos \in 0..Len(response)
      /\ s \in 1..Len(response) /\ response[s] = "set"
  BY Native DEF Positions
<1>2. ASSUME NEW i \in s + 1..pos PROVE i \in RowsOf(s)
  <2>1. i \in Rows /\ s <= i
    BY <1>1
  <2>2. /\ SetOf(i) \in Positions({"set"}) /\ SetOf(i) < i /\ s <= SetOf(i)
        /\ SetOf(i) \in Nat
    BY <2>1, SetOfRow DEF Positions
  <2>3. SetOf(i) \notin s + 1..pos
    BY <2>2 DEF Rows, Positions
  <2>4. QED BY <1>1, <2>1, <2>2, <2>3 DEF RowsOf
<1>3. ASSUME NEW i \in RowsOf(s) PROVE i \in s + 1..pos
  <2>1. i \in Rows /\ SetOf(i) = s
    BY DEF RowsOf
  <2>2. s < i /\ i \in 1..Len(response) /\ \A j \in s + 1..i : j \in Rows
    BY <2>1, SetOfRow DEF Rows, Positions
  <2>3. CASE i > pos
    <3>1. pos + 1 \in s + 1..i /\ pos < Len(response)
      BY <1>1, <2>2, <2>3
    <3>2. QED BY <2>2, <3>1 DEF NextIs, Rows, Positions
  <2>4. QED BY <1>1, <2>2, <2>3
<1>4. QED BY <1>2, <1>3

\* There are finitely many of everything.
LEMMA AllFinite ==
  ASSUME NativeTypeOK
  PROVE  /\ \A kinds : IsFiniteSet(Positions(kinds)) /\ Positions(kinds) \subseteq 1..Len(response)
         /\ IsFiniteSet(Rows) /\ Rows \subseteq Nat
         /\ \A i : IsFiniteSet(SetsUpTo(i)) /\ IsFiniteSet(RowsOf(i))
<1>1. Len(response) \in Nat /\ IsFiniteSet(1..Len(response))
  BY Native, FS_Interval
<1>2. \A kinds : Positions(kinds) \subseteq 1..Len(response)
  BY DEF Positions
<1>3. /\ Rows \subseteq 1..Len(response)
      /\ \A i : SetsUpTo(i) \subseteq 1..Len(response) /\ RowsOf(i) \subseteq 1..Len(response)
  BY <1>2 DEF Rows, SetsUpTo, RowsOf
<1>4. \A T : T \subseteq 1..Len(response) => IsFiniteSet(T)
  BY <1>1, FS_Subset
<1>5. Rows \subseteq Nat
  BY <1>1, <1>3
<1>6. \A kinds : IsFiniteSet(Positions(kinds))
  BY <1>2, <1>4
<1>7. IsFiniteSet(Rows) /\ \A i : IsFiniteSet(SetsUpTo(i)) /\ IsFiniteSet(RowsOf(i))
  BY <1>3, <1>4
<1>8. QED BY <1>2, <1>5, <1>6, <1>7

\* One token is read.
LEMMA OneRead ==
  ASSUME NativeTypeOK, NEW k, NextIs({k}), ReadTo(pos + 1)
  PROVE  /\ pos + 1 \in 1..Len(response) /\ response[pos + 1] = k /\ pos' = pos + 1
         /\ response' = response /\ NativeTypeOK' /\ onRows' = (k \in {"set", "row"})
         /\ pos + 1 \in Positions({k})
<1>1. Len(response) \in Nat /\ pos \in 0..Len(response)
  BY Native
<1>2. pos + 1 \in 1..Len(response) /\ response[pos + 1] = k /\ pos' = pos + 1 /\ response' = response
  BY <1>1 DEF NextIs, ReadTo
<1>3. onRows' = (k \in {"set", "row"})
  BY <1>1, <1>2 DEF ReadTo
<1>4. NativeTypeOK'
  BY <1>1, <1>2, <1>3 DEF NativeTypeOK
<1>5. QED BY <1>2, <1>3, <1>4 DEF Positions

\* advance_to_rows ends at the next set, passes all there is, or fails.
LEMMA OnToSet ==
  ASSUME NativeTypeOK, ~NextIs({"row"}), Advanced
  PROVE  /\ pos' \in Positions({"set"}) /\ pos < pos' /\ onRows' = TRUE
         /\ response' = response /\ NativeTypeOK'
         /\ \A j \in pos + 1..(pos' - 1) : response[j] \notin {"set", "row"}
<1>1. PICK i \in Upcoming({"set"}) : (\A j \in Upcoming({"set", "error"}) : i <= j) /\ ReadTo(i)
  BY DEF Advanced
<1>2. Len(response) \in Nat /\ pos \in 0..Len(response)
  BY Native
<1>3. i \in pos + 1..Len(response) /\ response[i] = "set" /\ pos' = i /\ response' = response
  BY <1>1 DEF Upcoming, ReadTo
<1>4. i \in 1..Len(response) /\ pos < i /\ onRows' = TRUE
  <2>1. i \in 1..Len(response) /\ pos < i /\ i > 0
    BY <1>2, <1>3
  <2>2. onRows' = (i > 0 /\ response[i] \in {"set", "row"})
    BY <1>1 DEF ReadTo
  <2>3. QED BY <1>3, <2>1, <2>2
<1>5. NativeTypeOK'
  BY <1>3, <1>4 DEF NativeTypeOK
<1>6. \A j \in pos + 1..Len(response) : response[j] = "set" => i - 1 < j
  BY <1>1, <1>2, <1>4 DEF Upcoming
<1>7. i - 1 \in 0..Len(response)
  BY <1>2, <1>4
<1>8. QED BY <1>3, <1>4, <1>5, <1>6, <1>7, NoRowsSkipped DEF Positions

LEMMA OnToEnd ==
  ASSUME NativeTypeOK, NoMoreSets
  PROVE  /\ pos' = Len(response) /\ response' = response /\ NativeTypeOK'
         /\ pos \notin Positions({"error"}) => pos' \notin Positions({"error"})
         /\ ~NextIs({"row"}) => \A j \in pos + 1..Len(response) : response[j] \notin {"set", "row"}
<1>1. /\ Len(response) \in Nat /\ pos \in 0..Len(response)
      /\ Upcoming({"set", "error"}) = {} /\ pos' = Len(response) /\ response' = response
      /\ onRows' \in BOOLEAN
  BY Native DEF NoMoreSets, ReadTo
<1>2. \A j \in pos + 1..Len(response) : response[j] \notin {"set", "error"}
  BY <1>1 DEF Upcoming
<1>3. NativeTypeOK'
  BY <1>1 DEF NativeTypeOK
<1>4. pos \notin Positions({"error"}) => Len(response) \notin Positions({"error"})
  <2>1. pos = Len(response) \/ Len(response) \in pos + 1..Len(response)
    BY <1>1
  <2>2. QED BY <1>2, <2>1 DEF Positions
<1>5. Len(response) \in 0..Len(response)
  BY <1>1
<1>6. QED BY <1>1, <1>2, <1>3, <1>4, <1>5, NoRowsSkipped

LEMMA OnToError ==
  ASSUME NativeTypeOK, AdvanceFails
  PROVE  response' = response /\ NativeTypeOK'
<1>1. PICK i \in Upcoming({"error"}) : ReadTo(i)
  BY DEF AdvanceFails
<1>2. Len(response) \in Nat /\ pos \in 0..Len(response)
  BY Native
<1>3. i \in 0..Len(response) /\ pos' = i /\ response' = response /\ onRows' \in BOOLEAN
  BY <1>1, <1>2 DEF Upcoming, ReadTo
<1>4. QED BY <1>3 DEF NativeTypeOK

-----------------------------------------------------------------------------
(* Sequences of positions, one after the other *)

LEMMA ElementsAppend ==
  ASSUME NEW s \in Seq(Nat), NEW e \in Nat
  PROVE  /\ Elements(Append(s, e)) = Elements(s) \cup {e}
         /\ Increasing(s) /\ (\A i \in Elements(s) : i < e) => Increasing(Append(s, e))
<1>1. /\ Len(Append(s, e)) = Len(s) + 1 /\ Len(s) \in Nat
      /\ \A i \in 1..Len(s) : Append(s, e)[i] = s[i]
      /\ Append(s, e)[Len(s) + 1] = e
      /\ DOMAIN Append(s, e) = 1..(Len(s) + 1) /\ DOMAIN s = 1..Len(s)
  BY AppendProperties
<1>2. Elements(Append(s, e)) = Elements(s) \cup {e}
  BY <1>1 DEF Elements
<1>3. ASSUME Increasing(s), \A i \in Elements(s) : i < e,
             NEW i \in 1..(Len(s) + 1), NEW j \in 1..(Len(s) + 1), i < j
      PROVE  Append(s, e)[i] < Append(s, e)[j]
  <2>1. i \in 1..Len(s)
    BY <1>1, <1>3
  <2>2. CASE j = Len(s) + 1
    BY <1>1, <1>3, <2>1, <2>2 DEF Elements
  <2>3. CASE j # Len(s) + 1
    <3>1. j \in 1..Len(s)
      BY <1>1, <2>3
    <3>2. QED BY <1>1, <1>3, <2>1, <3>1 DEF Increasing
  <2>4. QED BY <2>2, <2>3
<1>4. QED BY <1>1, <1>2, <1>3 DEF Increasing

LEMMA ElementsTail ==
  ASSUME NEW s \in Seq(Nat), s # <<>>, Increasing(s)
  PROVE  /\ Head(s) \in Nat /\ Tail(s) \in Seq(Nat)
         /\ Elements(s) = Elements(Tail(s)) \cup {Head(s)}
         /\ \A i \in Elements(Tail(s)) : Head(s) < i
         /\ Increasing(Tail(s))
<1>1. /\ Head(s) \in Nat /\ Tail(s) \in Seq(Nat) /\ Len(Tail(s)) = Len(s) - 1
      /\ \A i \in 1..Len(Tail(s)) : Tail(s)[i] = s[i + 1]
      /\ Head(s) = s[1]
  BY HeadTailProperties
<1>2. Len(s) \in Nat /\ Len(s) >= 1 /\ DOMAIN s = 1..Len(s) /\ DOMAIN Tail(s) = 1..(Len(s) - 1)
  BY <1>1
<1>3. \A i \in 1..(Len(s) - 1) : i + 1 \in DOMAIN s /\ Tail(s)[i] = s[i + 1] /\ 1 < i + 1
  BY <1>1, <1>2
<1>4. 1 \in DOMAIN s /\ \A i \in DOMAIN s : i # 1 => i - 1 \in DOMAIN Tail(s) /\ Tail(s)[i - 1] = s[i]
  BY <1>1, <1>2
<1>5. Elements(s) = Elements(Tail(s)) \cup {Head(s)}
  <2>1. \A i \in DOMAIN s : s[i] \in Elements(Tail(s)) \cup {Head(s)}
    BY <1>1, <1>4 DEF Elements
  <2>2. \A i \in DOMAIN Tail(s) : Tail(s)[i] \in Elements(s)
    BY <1>2, <1>3 DEF Elements
  <2>3. Head(s) \in Elements(s)
    BY <1>1, <1>4 DEF Elements
  <2>4. QED BY <2>1, <2>2, <2>3 DEF Elements
<1>6. \A i \in Elements(Tail(s)) : Head(s) < i
  <2>1. \A i \in 1..(Len(s) - 1) : s[1] < s[i + 1]
    BY <1>3, <1>4 DEF Increasing
  <2>2. QED BY <1>1, <1>2, <1>3, <2>1 DEF Elements
<1>7. Increasing(Tail(s))
  <2>1. \A i, j \in 1..(Len(s) - 1) : i < j => i + 1 < j + 1
    BY <1>2
  <2>2. QED BY <1>2, <1>3, <2>1 DEF Increasing
<1>8. QED BY <1>1, <1>5, <1>6, <1>7

\* One more sequence after the others.
LEMMA OneMore ==
  ASSUME NEW seqs \in Seq(Seq(Nat)), NEW s \in Seq(Nat), NEW S, InOrder(seqs, S),
         Increasing(s), Precedes(S, Elements(s))
  PROVE  InOrder(Append(seqs, s), S \cup Elements(s))
<1> DEFINE n == Len(seqs)
           more == Append(seqs, s)
<1>1. /\ n \in Nat /\ DOMAIN seqs = 1..n /\ DOMAIN more = 1..(n + 1)
      /\ more[n + 1] = s /\ \A k \in 1..n : more[k] = seqs[k]
  BY AppendProperties
<1>2. \A k \in 1..(n + 1) : k \in 1..n \/ k = n + 1
  BY <1>1
<1>3. \A k \in 1..n : k \in 1..(n + 1) /\ ~(n + 1 < k)
  BY <1>1
<1>4. n + 1 \in 1..(n + 1) /\ ~(n + 1 < n + 1)
  BY <1>1
<1> HIDE DEF n, more
<1>5. UNION {Elements(seqs[k]) : k \in 1..n} = S
  BY <1>1 DEF InOrder
<1>6. UNION {Elements(more[k]) : k \in 1..(n + 1)} = S \cup Elements(s)
  <2>1. ASSUME NEW i PROVE i \in UNION {Elements(more[k]) : k \in 1..(n + 1)} <=> i \in S \cup Elements(s)
    <3>1. i \in UNION {Elements(more[k]) : k \in 1..(n + 1)} <=> \E k \in 1..(n + 1) : i \in Elements(more[k])
      OBVIOUS
    <3>2. i \in S <=> \E k \in 1..n : i \in Elements(seqs[k])
      BY <1>5
    <3>3. QED BY <1>1, <1>2, <1>3, <1>4, <3>1, <3>2
  <2>2. QED BY <2>1
<1>7. \A k \in 1..(n + 1) : Increasing(more[k])
  BY <1>1, <1>2 DEF InOrder
<1>8. ASSUME NEW k \in 1..(n + 1), NEW l \in 1..(n + 1), k < l
      PROVE  Precedes(Elements(more[k]), Elements(more[l]))
  <2>1. k \in 1..n
    BY <1>2, <1>3, <1>4, <1>8
  <2>2. CASE l \in 1..n
    BY <1>1, <1>8, <2>1, <2>2 DEF InOrder
  <2>3. CASE l = n + 1
    <3>1. Elements(more[k]) \subseteq S
      BY <1>1, <1>5, <2>1
    <3>2. QED BY <1>1, <2>3, <3>1 DEF Precedes
  <2>4. QED BY <1>2, <2>2, <2>3
<1>9. QED BY <1>1, <1>6, <1>7, <1>8 DEF InOrder, more

\* The first sequence, and those after it.
LEMMA FirstOf ==
  ASSUME NEW seqs \in Seq(Seq(Nat)), seqs # <<>>, NEW S \in SUBSET Nat, InOrder(seqs, S)
  PROVE  /\ Head(seqs) \in Seq(Nat) /\ Tail(seqs) \in Seq(Seq(Nat))
         /\ Elements(Head(seqs)) \subseteq S /\ Increasing(Head(seqs))
         /\ Precedes(Elements(Head(seqs)), S \ Elements(Head(seqs)))
         /\ InOrder(Tail(seqs), S \ Elements(Head(seqs)))
<1> DEFINE n == Len(seqs)
           h == Head(seqs)
           t == Tail(seqs)
<1>1. /\ h \in Seq(Nat) /\ t \in Seq(Seq(Nat)) /\ Len(t) = n - 1 /\ h = seqs[1]
      /\ \A k \in 1..Len(t) : t[k] = seqs[k + 1]
  BY HeadTailProperties
<1>2. n \in Nat /\ n >= 1 /\ DOMAIN seqs = 1..n /\ DOMAIN t = 1..(n - 1)
  BY <1>1
<1>3. /\ 1 \in 1..n
      /\ \A k \in 1..n : k # 1 => k - 1 \in 1..(n - 1) /\ k - 1 + 1 = k /\ 1 < k
      /\ \A k \in 1..(n - 1) : k + 1 \in 1..n /\ 1 < k + 1 /\ t[k] = seqs[k + 1]
      /\ \A k, l \in 1..(n - 1) : k < l => k + 1 < l + 1
  BY <1>1, <1>2
<1> HIDE DEF n, h, t
<1>4. /\ UNION {Elements(seqs[k]) : k \in 1..n} = S
      /\ \A k \in 1..n : Increasing(seqs[k])
      /\ \A k, l \in 1..n : k < l => Precedes(Elements(seqs[k]), Elements(seqs[l]))
  BY <1>2 DEF InOrder
<1>5. \A i : i \in S <=> \E k \in 1..n : i \in Elements(seqs[k])
  BY <1>4
<1>6. Elements(h) \subseteq S /\ Increasing(h)
  BY <1>1, <1>3, <1>4, <1>5
<1>7. \A k \in 1..(n - 1) : Precedes(Elements(h), Elements(t[k])) /\ Elements(t[k]) \subseteq S
  BY <1>1, <1>3, <1>4, <1>5
<1>8. \A i \in S : ~(i < i)
  OBVIOUS
<1>9. \A i : i \in S \ Elements(h) <=> \E k \in 1..(n - 1) : i \in Elements(t[k])
  <2>1. ASSUME NEW i \in S \ Elements(h) PROVE \E k \in 1..(n - 1) : i \in Elements(t[k])
    <3>1. PICK k \in 1..n : i \in Elements(seqs[k])
      BY <1>5
    <3>2. k # 1
      BY <1>1, <3>1
    <3>3. k - 1 \in 1..(n - 1) /\ t[k - 1] = seqs[k]
      BY <1>3, <3>2
    <3>4. QED BY <3>1, <3>3
  <2>2. ASSUME NEW k \in 1..(n - 1), NEW i \in Elements(t[k]) PROVE i \in S \ Elements(h)
    BY <1>7, <1>8 DEF Precedes
  <2>3. QED BY <2>1, <2>2
<1>10. Precedes(Elements(h), S \ Elements(h))
  BY <1>7, <1>9 DEF Precedes
<1>11. InOrder(t, S \ Elements(h))
  <2>1. UNION {Elements(t[k]) : k \in 1..(n - 1)} = S \ Elements(h)
    BY <1>9
  <2>2. /\ \A k \in 1..(n - 1) : Increasing(t[k])
        /\ \A k, l \in 1..(n - 1) : k < l => Precedes(Elements(t[k]), Elements(t[l]))
    BY <1>3, <1>4
  <2>3. QED BY <1>2, <2>1, <2>2 DEF InOrder
<1>12. QED BY <1>1, <1>6, <1>10, <1>11 DEF h, t

\* The number of elements of sequences in order.
LEMMA TotalIs ==
  ASSUME NEW seqs \in Seq(Seq(Nat)), NEW S \in SUBSET Nat, InOrder(seqs, S), IsFiniteSet(S)
  PROVE  Buffer!Total(seqs) = Cardinality(S)
<1> DEFINE places == UNION {{k} \X DOMAIN seqs[k] : k \in DOMAIN seqs}
           f == [p \in places |-> seqs[p[1]][p[2]]]
<1>1. \A p : p \in places <=> \E k \in DOMAIN seqs : \E i \in DOMAIN seqs[k] : p = <<k, i>>
  OBVIOUS
<1>2. \A k \in DOMAIN seqs : k \in Nat /\ seqs[k] \in Seq(Nat) /\ \A i \in DOMAIN seqs[k] : i \in Nat
  OBVIOUS
<1> HIDE DEF places
<1>3. \A e : e \in S <=> \E k \in DOMAIN seqs : \E i \in DOMAIN seqs[k] : e = seqs[k][i]
  BY DEF InOrder, Elements
<1>4. ASSUME NEW p \in places PROVE f[p] \in S
  <2>1. PICK k \in DOMAIN seqs : \E i \in DOMAIN seqs[k] : p = <<k, i>>
    BY <1>1
  <2>2. PICK i \in DOMAIN seqs[k] : p = <<k, i>>
    BY <2>1
  <2>3. f[p] = seqs[k][i]
    BY <2>2
  <2>4. QED BY <1>3, <2>3
<1>5. ASSUME NEW e \in S PROVE \E p \in places : f[p] = e
  <2>1. PICK k \in DOMAIN seqs : \E i \in DOMAIN seqs[k] : e = seqs[k][i]
    BY <1>3
  <2>2. PICK i \in DOMAIN seqs[k] : e = seqs[k][i]
    BY <2>1
  <2>3. <<k, i>> \in places
    BY <1>1
  <2>4. f[<<k, i>>] = e
    BY <2>2, <2>3
  <2>5. QED BY <2>3, <2>4
<1>6. ASSUME NEW p \in places, NEW q \in places, f[p] = f[q] PROVE p = q
  <2>1. PICK k \in DOMAIN seqs : \E i \in DOMAIN seqs[k] : p = <<k, i>>
    BY <1>1
  <2>2. PICK i \in DOMAIN seqs[k] : p = <<k, i>>
    BY <2>1
  <2>3. PICK l \in DOMAIN seqs : \E j \in DOMAIN seqs[l] : q = <<l, j>>
    BY <1>1
  <2>4. PICK j \in DOMAIN seqs[l] : q = <<l, j>>
    BY <2>3
  <2>5. seqs[k][i] = seqs[l][j] /\ seqs[k][i] \in S /\ ~(seqs[k][i] < seqs[k][i])
    BY <1>3, <1>6, <2>2, <2>4
  <2>6. seqs[k][i] \in Elements(seqs[k]) /\ seqs[l][j] \in Elements(seqs[l])
    BY DEF Elements
  <2>7. ~(k < l) /\ ~(l < k)
    BY <2>5, <2>6 DEF InOrder, Precedes
  <2>8. k = l
    BY <1>2, <2>7
  <2>9. ~(i < j) /\ ~(j < i)
    BY <2>5, <2>8 DEF InOrder, Increasing
  <2>10. QED BY <1>2, <2>2, <2>4, <2>8, <2>9
<1>7. f \in Bijection(places, S)
  BY <1>4, <1>5, <1>6 DEF Bijection, Injection, IsInjective, Surjection
<1>8. ExistsBijection(S, places)
  BY <1>7, Fun_ExistsBijSymmetric DEF ExistsBijection
<1>9. Cardinality(places) = Cardinality(S)
  BY <1>8, FS_Bijection
<1>10. QED BY <1>9 DEF Buffer!Total, Buffer!Cardinality, Cardinality, places

-----------------------------------------------------------------------------
(* The buffering loops *)

\* The loops move the driver as the response is read.
LEMMA SameMoves ==
  /\ \A k : Buffer!ReadStatement(k) <=> NextIs({k}) /\ ReadTo(pos + 1)
  /\ Buffer!ReadRow <=> NextIs({"row"}) /\ ReadTo(pos + 1)
  /\ Buffer!RowError <=> NextIs({"error"}) /\ ReadTo(pos + 1)
  /\ Buffer!NoMoreRows <=> ~NextIs({"row", "error"}) /\ onRows' = FALSE /\ UNCHANGED <<response, pos>>
  /\ Buffer!AtEnd <=> AtEnd
  /\ Buffer!Advanced <=> Advanced
  /\ Buffer!NoMoreSets <=> NoMoreSets
  /\ Buffer!AdvanceFails <=> AdvanceFails
<1>1. /\ \A k : Buffer!ReadStatement(k) <=> NextIs({k}) /\ ReadTo(pos + 1)
      /\ Buffer!ReadRow <=> NextIs({"row"}) /\ ReadTo(pos + 1)
      /\ Buffer!RowError <=> NextIs({"error"}) /\ ReadTo(pos + 1)
      /\ Buffer!NoMoreRows <=> ~NextIs({"row", "error"}) /\ onRows' = FALSE /\ UNCHANGED <<response, pos>>
      /\ Buffer!AtEnd <=> AtEnd
  BY DEF Buffer!ReadStatement, Buffer!ReadRow, Buffer!RowError, Buffer!NoMoreRows, Buffer!AtEnd,
         Buffer!NextIs, Buffer!ReadTo, NextIs, ReadTo, AtEnd
<1>2. /\ Buffer!Advanced <=> Advanced
      /\ Buffer!NoMoreSets <=> NoMoreSets
      /\ Buffer!AdvanceFails <=> AdvanceFails
  BY DEF Buffer!Advanced, Buffer!NoMoreSets, Buffer!AdvanceFails, Buffer!Upcoming, Buffer!ReadTo,
         Advanced, NoMoreSets, AdvanceFails, Upcoming, ReadTo
<1>3. QED BY <1>1, <1>2

\* What was gathered is looked at after a step as before it.
LEMMA LaterIs ==
  ASSUME response' = response
  PROVE  /\ EachSet(resultSets, Gathered)' <=> EachSet(resultSets', Gathered')
         /\ EachRow(resultSets, Gathered)' <=> EachRow(resultSets', Gathered')
         /\ EachCount(counts, Counted)' <=> EachCount(counts', Counted')
<1>1. /\ Positions({"set"})' = Positions({"set"}) /\ Rows' = Rows
      /\ Positions({"set", "count"})' = Positions({"set", "count"})
  BY ResponseStays
<1>2. SetsUpTo(Gathered)' = SetsUpTo(Gathered')
  BY <1>1 DEF SetsUpTo
<1>3. \A s : SetsUpTo(s)' = SetsUpTo(s) /\ RowsOf(s)' = RowsOf(s)
  BY ResponseStays
<1>4. EachSet(resultSets, Gathered)' <=> EachSet(resultSets', Gathered')
  BY <1>2, <1>3 DEF EachSet, Lists
<1>5. EachRow(resultSets, Gathered)' <=> EachRow(resultSets', Gathered')
  BY <1>1 DEF EachRow, InOrder, Elements, Increasing, Precedes
<1>6. EachCount(counts, Counted)' <=> EachCount(counts', Counted')
  <2>1. \A k : RowsOf(counts[k].of)' = RowsOf(counts'[k].of)
    <3>1. \A i : SetOf(i)' = SetOf(i)
      BY ResponseStays
    <3>2. QED BY <1>1, <3>1 DEF RowsOf
  <2>2. QED BY <1>1, <2>1 DEF EachCount, Lists
<1>7. QED BY <1>4, <1>5, <1>6

\* Tokens that are neither metadata nor rows add nothing.
LEMMA GoOn ==
  ASSUME NativeTypeOK, NEW sets, NEW g \in Int, NEW h \in Int, g <= h,
         \A j \in g + 1..h : j \in 1..Len(response) => response[j] \notin {"set", "row"},
         EachSet(sets, g), EachRow(sets, g)
  PROVE  EachSet(sets, h) /\ EachRow(sets, h)
<1>1. \A j \in Positions({"set", "row"}) : j \in Int /\ (j <= g <=> j <= h)
  BY DEF Positions
<1>2. SetsUpTo(g) = SetsUpTo(h) /\ {i \in Rows : i <= g} = {i \in Rows : i <= h}
  BY <1>1 DEF SetsUpTo, Rows, Positions
<1>3. QED BY <1>2 DEF EachSet, EachRow

\* A set that has been read to its end.
LEMMA SetDone ==
  ASSUME NativeTypeOK, NEW sets \in Seq(Seq(Nat)), NEW s \in Positions({"set"}), s <= pos,
         ~NextIs({"row"}), \A i \in s + 1..pos : i \in Rows,
         NEW list \in Seq(Nat), Len(list) = pos - s, \A i \in DOMAIN list : list[i] = s + i,
         EachSet(sets, s - 1), EachRow(sets, s - 1)
  PROVE  EachSet(Append(sets, list), pos) /\ EachRow(Append(sets, list), pos)
<1>1. /\ Len(response) \in Nat /\ pos \in 0..Len(response) /\ s \in 1..Len(response)
      /\ DOMAIN list = 1..(pos - s) /\ Len(sets) \in Nat
  BY Native DEF Positions
<1>2. Elements(list) = s + 1..pos
  <2>1. pos \in Nat /\ s \in Nat
    BY <1>1
  <2>2. \A i \in 1..(pos - s) : s + i \in s + 1..pos
    BY ONLY <2>1
  <2>3. \A j \in s + 1..pos : j - s \in 1..(pos - s) /\ s + (j - s) = j
    BY ONLY <2>1
  <2>4. \A i \in DOMAIN list : list[i] \in s + 1..pos
    BY <1>1, <2>2
  <2>5. ASSUME NEW j \in s + 1..pos PROVE \E i \in DOMAIN list : list[i] = j
    BY <1>1, <2>3
  <2>6. QED BY <2>4, <2>5 DEF Elements
<1>3. Increasing(list)
  BY <1>1 DEF Increasing
<1>4. RowsOf(s) = Elements(list) /\ Lists(list, RowsOf(s))
  BY <1>2, <1>3, RowsFollow DEF Lists, Elements, Increasing
<1>5. /\ SetsUpTo(pos) = SetsUpTo(s - 1) \cup {s} /\ SetsUpTo(s) = SetsUpTo(pos)
      /\ s \notin SetsUpTo(s - 1)
  <2>1. \A t \in Positions({"set"}) : t \in Nat /\ t \notin s + 1..pos
    BY DEF Rows, Positions
  <2>2. \A t \in Positions({"set"}) : (t <= pos <=> t <= s - 1 \/ t = s) /\ (t <= s <=> t <= pos)
    BY <1>1, <2>1
  <2>3. SetsUpTo(s) = SetsUpTo(pos)
    BY <2>2 DEF SetsUpTo
  <2>4. s <= pos /\ ~(s <= s - 1)
    BY <1>1
  <2>5. QED BY <2>2, <2>3, <2>4 DEF SetsUpTo
<1>6. Cardinality(SetsUpTo(pos)) = Len(sets) + 1
  BY <1>5, AllFinite, FS_AddElement DEF EachSet
<1>7. /\ Len(Append(sets, list)) = Len(sets) + 1 /\ Append(sets, list)[Len(sets) + 1] = list
      /\ \A k \in 1..Len(sets) : Append(sets, list)[k] = sets[k]
  BY AppendProperties
<1>8. ASSUME NEW t \in SetsUpTo(s - 1) PROVE Cardinality(SetsUpTo(t)) \in 1..Len(sets)
  <2>1. t \in SetsUpTo(t) /\ SetsUpTo(t) \subseteq SetsUpTo(s - 1)
    BY <1>1 DEF SetsUpTo, Positions
  <2>2. /\ Cardinality(SetsUpTo(t)) \in Nat /\ Cardinality(SetsUpTo(t)) # 0
        /\ Cardinality(SetsUpTo(t)) <= Cardinality(SetsUpTo(s - 1))
    BY <2>1, AllFinite, FS_CardinalityType, FS_EmptySet, FS_Subset
  <2>3. QED BY <1>1, <2>2 DEF EachSet
<1>9. EachSet(Append(sets, list), pos)
  BY <1>4, <1>5, <1>6, <1>7, <1>8 DEF EachSet
<1>10. {i \in Rows : i <= pos} = {i \in Rows : i <= s - 1} \cup Elements(list)
  <2>1. \A i \in Rows : i \in Nat /\ i # s
    BY DEF Rows, Positions
  <2>2. \A i \in Rows : i <= pos <=> i <= s - 1 \/ i \in s + 1..pos
    BY <1>1, <2>1
  <2>3. QED BY <1>2, <2>2
<1>11. Precedes({i \in Rows : i <= s - 1}, Elements(list))
  BY <1>1, <1>2, AllFinite DEF Precedes
<1>12. EachRow(Append(sets, list), pos)
  BY <1>3, <1>10, <1>11, OneMore DEF EachRow
<1>13. QED BY <1>9, <1>12

\* A step of collect_results keeps the invariant when it keeps these parts.
LEMMA QueryKept ==
  ASSUME BInv, api = "query", response' = response, NativeTypeOK', api' = api,
         UNCHANGED <<statement, counts, count, rowStream, streamed>>,
         loop' \in {"test", "row", "advance", "ok", "err"}, loop \notin {"streaming", "streamed"},
         resultSets' \in Seq(Seq(Nat)), rows' \in Seq(Nat),
         BufferPlace', QueryPlace',
         loop' # "err" => EachSet(resultSets', Gathered') /\ EachRow(resultSets', Gathered')
  PROVE  BInv'
<1>1. BufferTyped'
  BY DEF BInv, BufferTyped
<1>2. EachSet(resultSets, Gathered)' <=> EachSet(resultSets', Gathered')
  BY LaterIs
<1>3. EachRow(resultSets, Gathered)' <=> EachRow(resultSets', Gathered')
  BY LaterIs
<1>4. QueryInv'
  BY <1>2, <1>3 DEF BInv, QueryInv
<1>5. QED BY <1>1, <1>4 DEF BInv

\* An error ends the loop.
LEMMA QueryFails ==
  ASSUME BInv, api = "query", response' = response, NativeTypeOK', api' = api, loop' = "err",
         UNCHANGED <<resultSets, statement, counts, count, rowStream, streamed>>,
         rows' \in Seq(Nat), loop \notin {"streaming", "streamed"}
  PROVE  BInv'
<1>1. BufferPlace' /\ QueryPlace' /\ resultSets' \in Seq(Seq(Nat))
  BY DEF BufferPlace, QueryPlace, BInv, BufferTyped
<1>2. QED BY <1>1, QueryKept

\* What advance_to_rows skips adds nothing.
LEMMA NothingBefore ==
  ASSUME NativeTypeOK, NEW sets, EachSet(sets, pos), EachRow(sets, pos), NEW s \in Nat, pos < s,
         \A j \in pos + 1..(s - 1) : response[j] \notin {"set", "row"}
  PROVE  EachSet(sets, s - 1) /\ EachRow(sets, s - 1)
<1>1. pos \in Int
  BY Native
<1>2. s - 1 \in Int /\ pos <= s - 1
  BY <1>1
<1>3. QED BY <1>1, <1>2, GoOn

\* advance_to_rows, in the loop test or after a set.
LEMMA MovesOn ==
  ASSUME BInv, api = "query", api' = api, loop \in {"test", "advance"},
         UNCHANGED <<resultSets, statement, counts, count, rowStream, streamed>>,
         ~NextIs({"row"}), loop = "test" => ~onRows,
         \/ Advanced /\ loop' = "row" /\ rows' = <<>>
         \/ Advanced /\ loop' = "test" /\ rows' = rows
         \/ NoMoreSets /\ loop' = "ok" /\ rows' \in Seq(Nat)
         \/ AdvanceFails /\ loop' = "err" /\ rows' \in Seq(Nat)
  PROVE  BInv'
<1>1. /\ NativeTypeOK /\ resultSets \in Seq(Seq(Nat)) /\ rows \in Seq(Nat)
      /\ pos \notin Positions({"error"})
      /\ EachSet(resultSets, Gathered) /\ EachRow(resultSets, Gathered) /\ Gathered = pos
  BY DEF BInv, BufferTyped, BufferPlace, QueryInv, Gathered
<1>2. Len(response) \in Nat /\ pos \in 0..Len(response)
  BY <1>1, Native
<1>3. CASE Advanced /\ ((loop' = "row" /\ rows' = <<>>) \/ (loop' = "test" /\ rows' = rows))
  <2>1. /\ pos' \in Positions({"set"}) /\ pos < pos' /\ onRows' = TRUE
        /\ response' = response /\ NativeTypeOK'
        /\ \A j \in pos + 1..(pos' - 1) : response[j] \notin {"set", "row"}
    BY <1>1, <1>3, OnToSet
  <2>2. pos' \in Nat /\ EachSet(resultSets, pos' - 1) /\ EachRow(resultSets, pos' - 1)
    <3>1. pos' \in Nat
      BY <2>1 DEF Positions
    <3>2. QED BY <1>1, <2>1, <3>1, NothingBefore
  <2>3. Gathered' = pos' - 1
    BY <1>3, <2>1, <2>2 DEF Gathered
  <2>4. resultSets' = resultSets
    OBVIOUS
  <2>5. /\ Positions({"set"})' = Positions({"set"}) /\ Positions({"error"})' = Positions({"error"})
        /\ Positions({"set"}) \cap Positions({"error"}) = {}
    BY <2>1, ResponseStays DEF Positions
  <2>6. BufferPlace'
    BY <1>3, <2>1, <2>5 DEF BufferPlace
  <2>7. QueryPlace'
    BY <1>3, <2>1, <2>2, <2>5 DEF QueryPlace
  <2>8. EachSet(resultSets', Gathered') /\ EachRow(resultSets', Gathered')
    BY <2>2, <2>3, <2>4
  <2>9. rows' \in Seq(Nat)
    <3>1. CASE rows' = <<>>
      BY <3>1
    <3>2. CASE rows' = rows
      BY <1>1, <3>2
    <3>3. QED BY <1>3, <3>1, <3>2
  <2>10. resultSets' \in Seq(Seq(Nat))
    BY <1>1, <2>4
  <2>11. loop' \in {"test", "row"}
    BY <1>3
  <2>12. QED BY <1>1, <2>1, <2>6, <2>7, <2>8, <2>9, <2>10, <2>11, QueryKept
<1>4. CASE NoMoreSets /\ loop' = "ok" /\ rows' \in Seq(Nat)
  <2>1. /\ pos' = Len(response) /\ response' = response /\ NativeTypeOK'
        /\ pos' \notin Positions({"error"})
        /\ \A j \in pos + 1..Len(response) : response[j] \notin {"set", "row"}
    BY <1>1, <1>4, OnToEnd
  <2>2. Gathered' = Len(response)
    BY <1>4, <2>1 DEF Gathered
  <2>3. EachSet(resultSets, Len(response)) /\ EachRow(resultSets, Len(response))
    BY <1>1, <1>2, <2>1, GoOn
  <2>4. BufferPlace' /\ QueryPlace'
    BY <1>4, <2>1, ResponseStays DEF BufferPlace, QueryPlace
  <2>5. QED BY <1>1, <1>4, <2>1, <2>2, <2>3, <2>4, QueryKept
<1>5. CASE AdvanceFails /\ loop' = "err" /\ rows' \in Seq(Nat)
  BY <1>1, <1>5, OnToError, QueryFails
<1>6. QED BY <1>3, <1>4, <1>5

LEMMA QueryExecute == ASSUME BInv, Buffer!Execute PROVE BInv'
<1>1. /\ api = "query" /\ api' = api /\ loop = "execute" /\ pos = 0 /\ ~onRows /\ NativeTypeOK
      /\ UNCHANGED <<resultSets, rows, statement, counts, count, rowStream, streamed>>
      /\ resultSets \in Seq(Seq(Nat)) /\ rows \in Seq(Nat)
      /\ EachSet(resultSets, 0) /\ EachRow(resultSets, 0)
  BY DEF Buffer!Execute, Buffer!Go, Buffer!queryVars, Buffer!executeVars, Buffer!streamVars,
         BInv, BufferTyped, QueryInv, QueryPlace, Gathered
<1>2. Len(response) \in Nat
  BY <1>1, Native
<1>3. ASSUME NEW k \in {"set", "count", "silent"}, NextIs({k}), ReadTo(pos + 1), loop' = "test"
      PROVE  BInv'
  <2>1. /\ 1 \in 1..Len(response) /\ response[1] = k /\ pos' = 1 /\ response' = response
        /\ NativeTypeOK' /\ onRows' = (k \in {"set", "row"})
    <3>1. /\ pos + 1 \in 1..Len(response) /\ response[pos + 1] = k /\ pos' = pos + 1
          /\ response' = response /\ NativeTypeOK' /\ onRows' = (k \in {"set", "row"})
      BY <1>1, <1>3, OneRead
    <3>2. pos + 1 = 1
      BY <1>1
    <3>3. QED BY <3>1, <3>2
  <2>2. (onRows' <=> k = "set") /\ 1 \notin Positions({"error"}) /\ (k = "set" => 1 \in Positions({"set"}))
    BY <1>3, <2>1 DEF Positions
  <2>3. BufferPlace'
    BY <1>3, <2>1, <2>2, ResponseStays DEF BufferPlace
  <2>4. QueryPlace'
    <3>1. ASSUME k # "set" PROVE ~NextIs({"row"})'
      <4>1. SUFFICES ASSUME 1 < Len(response), response[1 + 1] = "row" PROVE FALSE
        BY <2>1 DEF NextIs
      <4>2. 2 \in 1..Len(response)
        BY <1>2, <4>1
      <4>3. PICK s \in 1..(2 - 1) : response[s] = "set"
        BY <1>1, <4>1, <4>2, Native
      <4>4. s = 1
        OBVIOUS
      <4>5. QED BY <2>1, <3>1, <4>3, <4>4
    <3>2. Positions({"set"})' = Positions({"set"})
      BY <2>1, ResponseStays
    <3>3. QED BY <1>3, <2>1, <2>2, <3>1, <3>2 DEF QueryPlace
  <2>5. EachSet(resultSets', Gathered') /\ EachRow(resultSets', Gathered')
    <3>1. CASE k = "set"
      <4>1. Gathered' = 0
        BY <1>3, <2>1, <2>2, <3>1 DEF Gathered
      <4>2. QED BY <1>1, <4>1
    <3>2. CASE k # "set"
      <4>1. Gathered' = 1
        BY <1>3, <2>1, <2>2, <3>2 DEF Gathered
      <4>2. \A j \in 0 + 1..1 : response[j] \notin {"set", "row"}
        BY <1>3, <2>1, <3>2
      <4>3. EachSet(resultSets, 1) /\ EachRow(resultSets, 1)
        BY <1>1, <4>2, GoOn
      <4>4. QED BY <1>1, <4>1, <4>3
    <3>3. QED BY <3>1, <3>2
  <2>6. QED BY <1>1, <1>3, <2>1, <2>3, <2>4, <2>5, QueryKept
<1>4. CASE Buffer!AtEnd /\ UNCHANGED Buffer!nativeVars /\ Buffer!Go("test")
  <2>1. UNCHANGED <<response, pos, onRows>> /\ loop' = "test" /\ pos = Len(response)
    BY <1>4, SameMoves DEF Buffer!nativeVars, Buffer!Go, AtEnd
  <2>2. NativeTypeOK'
    BY <1>1, <2>1 DEF NativeTypeOK
  <2>3. BufferPlace' /\ QueryPlace' /\ Gathered' = 0
    BY <1>1, <1>2, <2>1 DEF BufferPlace, QueryPlace, Gathered, NextIs, Positions
  <2>4. QED BY <1>1, <2>1, <2>2, <2>3, QueryKept
<1>5. CASE NextIs({"error"}) /\ ReadTo(pos + 1) /\ loop' = "err"
  BY <1>1, <1>5, OneRead, QueryFails
<1>6. \/ \E k \in {"set", "count", "silent"} : NextIs({k}) /\ ReadTo(pos + 1) /\ loop' = "test"
      \/ Buffer!AtEnd /\ UNCHANGED Buffer!nativeVars /\ Buffer!Go("test")
      \/ NextIs({"error"}) /\ ReadTo(pos + 1) /\ loop' = "err"
  BY SameMoves DEF Buffer!Execute, Buffer!Go
<1>7. QED BY <1>3, <1>4, <1>5, <1>6

LEMMA QueryLoopTest == ASSUME BInv, Buffer!LoopTest PROVE BInv'
<1>1. /\ api = "query" /\ api' = api /\ loop = "test" /\ rows' = <<>> /\ NativeTypeOK
      /\ UNCHANGED <<resultSets, statement, counts, count, rowStream, streamed>>
      /\ resultSets \in Seq(Seq(Nat)) /\ rows' \in Seq(Nat)
  BY DEF Buffer!LoopTest, Buffer!Go, Buffer!executeVars, Buffer!streamVars, BInv, BufferTyped
<1>2. CASE onRows /\ UNCHANGED Buffer!nativeVars /\ Buffer!Go("row")
  <2>1. UNCHANGED <<response, pos, onRows>> /\ loop' = "row" /\ onRows
    BY <1>2 DEF Buffer!nativeVars, Buffer!Go
  <2>2. NativeTypeOK' /\ pos \in Nat
    BY <1>1, <2>1, Native DEF NativeTypeOK
  <2>3. /\ EachSet(resultSets, pos - 1) /\ EachRow(resultSets, pos - 1)
        /\ pos \in Positions({"set"}) /\ pos \notin Positions({"error"})
    BY <1>1, <2>1 DEF BInv, QueryInv, QueryPlace, Gathered, BufferPlace
  <2>4. Gathered' = pos - 1
    BY <1>1, <2>1, <2>2 DEF Gathered
  <2>5. BufferPlace' /\ QueryPlace'
    BY <1>1, <2>1, <2>2, <2>3, ResponseStays DEF BufferPlace, QueryPlace
  <2>6. QED BY <1>1, <2>1, <2>2, <2>3, <2>4, <2>5, QueryKept
<1>3. CASE ~onRows /\ \/ Advanced /\ loop' = "row"
                      \/ AdvanceFails /\ loop' = "err"
                      \/ NoMoreSets /\ loop' = "ok"
  <2>1. ~NextIs({"row"})
    BY <1>1, <1>3 DEF BInv, QueryInv, QueryPlace
  <2>2. QED BY <1>1, <1>3, <2>1, MovesOn
<1>4. QED BY <1>2, <1>3, SameMoves DEF Buffer!LoopTest, Buffer!Go

LEMMA QueryNextRow == ASSUME BInv, Buffer!NextRow PROVE BInv'
<1>1. /\ api = "query" /\ api' = api /\ loop = "row" /\ NativeTypeOK
      /\ UNCHANGED <<statement, counts, count, rowStream, streamed>>
      /\ resultSets \in Seq(Seq(Nat)) /\ rows \in Seq(Nat)
      /\ pos \notin Positions({"error"})
  BY DEF Buffer!NextRow, Buffer!Go, Buffer!executeVars, Buffer!streamVars, BInv, BufferTyped, BufferPlace
<1> DEFINE n == Len(rows)
           s == pos - n
<1>2. /\ s \in Positions({"set"}) /\ \A i \in DOMAIN rows : rows[i] = s + i /\ rows[i] \in Rows
      /\ EachSet(resultSets, s - 1) /\ EachRow(resultSets, s - 1)
  BY <1>1 DEF BInv, QueryInv, QueryPlace, Gathered
<1>3. /\ n \in Nat /\ DOMAIN rows = 1..n /\ pos \in Nat /\ s \in Nat /\ s >= 1 /\ pos = s + n
      /\ Len(response) \in Nat
  <2>1. n \in Nat /\ DOMAIN rows = 1..n
    BY <1>1
  <2>2. Len(response) \in Nat /\ pos \in Nat
    BY <1>1, Native
  <2>3. s \in Nat /\ s >= 1
    BY <1>2, <2>2 DEF Positions
  <2>4. QED BY <2>1, <2>2, <2>3
<1> HIDE DEF s
<1>4. CASE NextIs({"row"}) /\ ReadTo(pos + 1) /\ loop' = "row" /\ rows' = Append(rows, pos')
           /\ resultSets' = resultSets
  <2>1. /\ pos + 1 \in 1..Len(response) /\ pos' = pos + 1 /\ response' = response /\ NativeTypeOK'
        /\ pos + 1 \in Rows /\ pos + 1 \notin Positions({"error"})
    BY <1>1, <1>4, OneRead DEF Rows, Positions
  <2>2. /\ rows' \in Seq(Nat) /\ Len(rows') = n + 1 /\ DOMAIN rows' = 1..(n + 1)
        /\ \A i \in 1..n : rows'[i] = rows[i]
        /\ rows'[n + 1] = pos + 1
    BY <1>1, <1>3, <1>4, <2>1, AppendProperties
  <2>3. pos' - Len(rows') = s
    BY <1>3, <2>1, <2>2
  <2>4. Gathered' = s - 1
    BY <1>4, <2>3 DEF Gathered
  <2>5. \A i \in 1..(n + 1) : rows'[i] = s + i /\ rows'[i] \in Rows
    <3>1. \A i \in 1..(n + 1) : i \in 1..n \/ i = n + 1
      BY <1>3
    <3>2. s + (n + 1) = pos + 1
      BY <1>3
    <3>3. QED BY <1>2, <1>3, <2>1, <2>2, <3>1, <3>2
  <2>6. BufferPlace'
    BY <1>4, <2>1, ResponseStays DEF BufferPlace
  <2>7. QueryPlace'
    <3>1. Positions({"set"})' = Positions({"set"}) /\ Rows' = Rows
      BY <2>1, ResponseStays
    <3>2. QED BY <1>2, <1>4, <2>2, <2>3, <2>5, <3>1 DEF QueryPlace
  <2>8. QED BY <1>1, <1>2, <1>4, <2>1, <2>2, <2>4, <2>6, <2>7, QueryKept
<1>5. CASE ~NextIs({"row", "error"}) /\ onRows' = FALSE /\ UNCHANGED <<response, pos>>
           /\ loop' = "advance" /\ resultSets' = Append(resultSets, rows) /\ rows' = rows
  <2>1. ~NextIs({"row"}) /\ ~NextIs({"row"})' /\ NativeTypeOK'
    BY <1>1, <1>5 DEF NextIs, NativeTypeOK
  <2>2. \A i \in s + 1..pos : i \in Rows
    <3>1. \A i \in s + 1..pos : i - s \in 1..n /\ s + (i - s) = i
      BY <1>3
    <3>2. \A i \in s + 1..pos : rows[i - s] = i /\ rows[i - s] \in Rows
      BY <1>2, <1>3, <3>1
    <3>3. QED BY <3>2
  <2>3. s <= pos /\ n = pos - s
    BY <1>3
  <2>4. EachSet(resultSets', pos) /\ EachRow(resultSets', pos)
    BY <1>1, <1>2, <1>5, <2>1, <2>2, <2>3, SetDone
  <2>5. Gathered' = pos
    BY <1>5 DEF Gathered
  <2>6. BufferPlace' /\ QueryPlace'
    BY <1>1, <1>5, <2>1, ResponseStays DEF BufferPlace, QueryPlace
  <2>7. resultSets' \in Seq(Seq(Nat)) /\ rows' \in Seq(Nat)
    BY <1>1, <1>5
  <2>8. QED BY <1>1, <1>5, <2>1, <2>4, <2>5, <2>6, <2>7, QueryKept
<1>6. CASE NextIs({"error"}) /\ ReadTo(pos + 1) /\ loop' = "err"
           /\ resultSets' = resultSets /\ rows' = rows
  BY <1>1, <1>6, OneRead, QueryFails
<1>7. QED BY <1>4, <1>5, <1>6, SameMoves DEF Buffer!NextRow, Buffer!Go, Buffer!queryVars

LEMMA QueryAfterSet == ASSUME BInv, Buffer!AfterSet PROVE BInv'
<1>1. /\ api = "query" /\ api' = api /\ loop = "advance"
      /\ UNCHANGED <<resultSets, rows, statement, counts, count, rowStream, streamed>>
      /\ rows' \in Seq(Nat) /\ ~NextIs({"row"})
  BY DEF Buffer!AfterSet, Buffer!Go, Buffer!executeVars, Buffer!queryVars, Buffer!streamVars,
         BInv, BufferTyped, QueryInv, QueryPlace
<1>2. \/ Advanced /\ loop' = "test"
      \/ AdvanceFails /\ loop' = "err"
      \/ NoMoreSets /\ loop' = "ok"
  BY SameMoves DEF Buffer!AfterSet, Buffer!Go
<1>3. QED BY <1>1, <1>2, MovesOn

\* One more count.
LEMMA CountMore ==
  ASSUME NativeTypeOK, NEW list \in Seq([of : Nat, rows : Nat]),
         NEW g \in Int, NEW s \in Positions({"set", "count"}), NEW e \in Int, g = s - 1, s <= e,
         \A j \in s + 1..e : j \notin Positions({"set", "count"}),
         NEW n \in Nat, n = Cardinality(RowsOf(s)), EachCount(list, g)
  PROVE  /\ Append(list, [of |-> s, rows |-> n]) \in Seq([of : Nat, rows : Nat])
         /\ EachCount(Append(list, [of |-> s, rows |-> n]), e)
<1> DEFINE C == Positions({"set", "count"})
           new == [of |-> s, rows |-> n]
           more == Append(list, new)
<1>1. s \in Nat /\ new \in [of : Nat, rows : Nat] /\ \A i \in C : i \in Int
  BY DEF Positions
<1>2. /\ more \in Seq([of : Nat, rows : Nat]) /\ DOMAIN more = 1..(Len(list) + 1)
      /\ DOMAIN list = 1..Len(list) /\ Len(list) \in Nat
      /\ more[Len(list) + 1] = new /\ \A k \in 1..Len(list) : more[k] = list[k]
  BY <1>1, AppendProperties
<1>3. Len(list) \in Nat
  BY <1>2
<1>4. /\ \A k \in 1..(Len(list) + 1) : k \in 1..Len(list) \/ k = Len(list) + 1
      /\ \A k \in 1..Len(list) : k \in 1..(Len(list) + 1) /\ ~(Len(list) + 1 < k)
      /\ Len(list) + 1 \in 1..(Len(list) + 1) /\ ~(Len(list) + 1 < Len(list) + 1)
  BY <1>3
<1>5. more[Len(list) + 1] = new /\ \A k \in 1..Len(list) : more[k] = list[k]
  BY <1>2
<1>6. new.of = s /\ new.rows = n
  OBVIOUS
<1> HIDE DEF new, more
<1>7. \A k \in 1..Len(list) : list[k].of \in C /\ list[k].of <= g
  BY <1>2 DEF EachCount, Lists
<1>8. \A i \in C : i <= e <=> i <= g \/ i = s
  <2>1. ASSUME NEW i \in C, i <= e PROVE i <= g \/ i = s
    <3>1. i \notin s + 1..e
      OBVIOUS
    <3>2. QED BY <1>1, <2>1, <3>1
  <2>2. QED BY <1>1, <2>1
<1>9. {more[k].of : k \in 1..(Len(list) + 1)} = {i \in C : i <= e}
  <2>1. {list[k].of : k \in 1..Len(list)} = {i \in C : i <= g}
    BY <1>2 DEF EachCount, Lists
  <2>2. \A k \in 1..(Len(list) + 1) : more[k].of \in {i \in C : i <= e}
    BY <1>4, <1>5, <1>6, <1>7, <1>8
  <2>3. ASSUME NEW i \in {j \in C : j <= e} PROVE \E k \in 1..(Len(list) + 1) : i = more[k].of
    <3>1. CASE i = s
      BY <1>4, <1>5, <1>6, <3>1
    <3>2. CASE i <= g
      <4>1. PICK k \in 1..Len(list) : i = list[k].of
        BY <2>1, <3>2
      <4>2. QED BY <1>4, <1>5, <4>1
    <3>3. QED BY <1>8, <3>1, <3>2
  <2>4. QED BY <2>2, <2>3
<1>10. ASSUME NEW k \in 1..(Len(list) + 1), NEW l \in 1..(Len(list) + 1), k < l
       PROVE  more[k].of < more[l].of
  <2>1. k \in 1..Len(list)
    BY <1>4, <1>10
  <2>2. CASE l = Len(list) + 1
    <3>1. more[l].of = s /\ more[k].of \in C /\ more[k].of <= g
      BY <1>5, <1>6, <1>7, <2>1, <2>2
    <3>2. \A i \in C : i <= g => i < s
      BY <1>1
    <3>3. QED BY <3>1, <3>2
  <2>3. CASE l \in 1..Len(list)
    <3>1. list[k].of < list[l].of
      BY <1>2, <1>10, <2>1, <2>3 DEF EachCount, Lists
    <3>2. QED BY <1>5, <2>1, <2>3, <3>1
  <2>4. QED BY <1>4, <2>2, <2>3
<1>11. \A k \in 1..(Len(list) + 1) : more[k].rows = Cardinality(RowsOf(more[k].of))
  BY <1>2, <1>4, <1>5, <1>6 DEF EachCount
<1>12. EachCount(more, e)
  BY <1>2, <1>9, <1>10, <1>11 DEF EachCount, Lists
<1>13. QED BY <1>2, <1>12 DEF more, new

\* A step of collect_execute_results keeps the invariant when it keeps these parts.
LEMMA ExecuteKept ==
  ASSUME BInv, api = "execute", response' = response, NativeTypeOK', api' = api,
         UNCHANGED <<resultSets, rows, rowStream, streamed>>,
         statement' \in 0..Len(response), counts' \in Seq([of : Nat, rows : Nat]), count' \in Nat,
         BufferPlace', CountPlace', loop' # "err" => EachCount(counts', Counted')
  PROVE  BInv'
<1>1. BufferTyped'
  <2>1. loop' \in {"execute", "advance", "counting", "ok", "err"}
    BY DEF CountPlace
  <2>2. QED BY <2>1 DEF BInv, BufferTyped
<1>2. EachCount(counts, Counted)' <=> EachCount(counts', Counted')
  BY LaterIs
<1>3. ExecuteInv'
  BY <1>2 DEF ExecuteInv
<1>4. QED BY <1>1, <1>3 DEF BInv

LEMMA ExecuteStatement == ASSUME BInv, Buffer!Statement PROVE BInv'
<1>1. /\ api = "execute" /\ api' = api /\ loop \in {"execute", "advance"}
      /\ UNCHANGED <<resultSets, rows, rowStream, streamed>>
      /\ NativeTypeOK /\ statement \in 0..Len(response) /\ counts \in Seq([of : Nat, rows : Nat])
      /\ count \in Nat /\ EachCount(counts, pos) /\ pos \notin Positions({"error"})
  BY DEF Buffer!Statement, Buffer!Go, Buffer!queryVars, Buffer!streamVars,
         BInv, BufferTyped, ExecuteInv, CountPlace, Counted, BufferPlace
<1>2. Len(response) \in Nat /\ pos \in Nat
  BY <1>1, Native
<1> DEFINE Read(k) == NextIs({k}) /\ ReadTo(pos + 1)
<1>3. ASSUME NEW k \in {"set", "count", "silent", "error"}, Read(k)
      PROVE  /\ pos + 1 \in Positions({k}) /\ pos + 1 \in 1..Len(response) /\ response[pos + 1] = k
             /\ pos' = pos + 1 /\ response' = response /\ NativeTypeOK'
             /\ k # "error" => pos' \notin Positions({"error"})
             /\ \A kinds : Positions(kinds)' = Positions(kinds)
  <2>1. /\ pos + 1 \in Positions({k}) /\ pos + 1 \in 1..Len(response) /\ response[pos + 1] = k
        /\ pos' = pos + 1 /\ response' = response /\ NativeTypeOK'
    BY <1>1, <1>3, OneRead
  <2>2. QED BY <2>1, ResponseStays DEF Positions
<1> HIDE DEF Read
<1>4. CASE Read("set") /\ statement' = pos' /\ count' = 0 /\ loop' = "counting" /\ counts' = counts
  <2>1. /\ pos' = pos + 1 /\ pos + 1 \in Positions({"set"}) /\ pos + 1 \in 1..Len(response)
        /\ response' = response /\ NativeTypeOK' /\ pos' \notin Positions({"error"})
        /\ \A kinds : Positions(kinds)' = Positions(kinds)
    BY <1>3, <1>4
  <2>2. BufferPlace'
    BY <1>4, <2>1 DEF BufferPlace
  <2>3. CountPlace'
    <3>1. statement' + 1..pos' = {} /\ pos' = statement' + count'
      BY <1>2, <1>4, <2>1
    <3>2. QED BY <1>4, <2>1, <3>1 DEF CountPlace
  <2>4. Counted' = pos
    BY <1>2, <1>4, <2>1 DEF Counted
  <2>5. EachCount(counts', Counted')
    BY <1>1, <1>4, <2>4
  <2>6. statement' \in 0..Len(response) /\ count' \in Nat /\ counts' \in Seq([of : Nat, rows : Nat])
    BY <1>1, <1>2, <1>4, <2>1
  <2>7. QED BY <1>1, <2>1, <2>2, <2>3, <2>5, <2>6, ExecuteKept
<1>5. CASE Read("count") /\ loop' = "advance" /\ counts' = Append(counts, [of |-> pos', rows |-> 0])
           /\ UNCHANGED <<statement, count>>
  <2>1. /\ pos' = pos + 1 /\ pos + 1 \in Positions({"count"}) /\ response[pos + 1] = "count"
        /\ response' = response /\ NativeTypeOK' /\ pos' \notin Positions({"error"})
        /\ \A kinds : Positions(kinds)' = Positions(kinds)
    BY <1>3, <1>5
  <2>2. BufferPlace' /\ CountPlace' /\ Counted' = pos + 1
    BY <1>5, <2>1 DEF BufferPlace, CountPlace, Counted
  <2>3. RowsOf(pos + 1) = {}
    <3>1. ASSUME NEW i \in RowsOf(pos + 1) PROVE FALSE
      <4>1. pos + 1 \in Positions({"set"})
        BY <1>1, SetOfRow DEF RowsOf
      <4>2. QED BY <2>1, <4>1 DEF Positions
    <3>2. QED BY <3>1
  <2>4. Cardinality(RowsOf(pos + 1)) = 0
    BY <2>3, FS_EmptySet
  <2>5. pos + 1 \in Positions({"set", "count"})
    BY <2>1 DEF Positions
  <2>6. counts' = Append(counts, [of |-> pos + 1, rows |-> 0])
    BY <1>5, <2>1
  <2>7. pos \in Int /\ pos + 1 \in Int /\ pos = pos + 1 - 1 /\ pos + 1 <= pos + 1
        /\ (pos + 1) + 1..pos + 1 = {} /\ 0 \in Nat
    BY <1>2
  <2>8. counts' \in Seq([of : Nat, rows : Nat]) /\ EachCount(counts', pos + 1)
    BY <1>1, <2>4, <2>5, <2>6, <2>7, CountMore
  <2>9. EachCount(counts', Counted')
    BY <2>2, <2>8
  <2>10. statement' \in 0..Len(response) /\ count' \in Nat
    BY <1>1, <1>5
  <2>11. QED BY <1>1, <2>1, <2>2, <2>8, <2>9, <2>10, ExecuteKept
<1>6. CASE Read("silent") /\ loop' = "advance" /\ UNCHANGED <<statement, counts, count>>
  <2>1. /\ pos' = pos + 1 /\ response[pos + 1] = "silent"
        /\ response' = response /\ NativeTypeOK' /\ pos' \notin Positions({"error"})
        /\ \A kinds : Positions(kinds)' = Positions(kinds)
    BY <1>3, <1>6
  <2>2. BufferPlace' /\ CountPlace' /\ Counted' = pos + 1
    BY <1>6, <2>1 DEF BufferPlace, CountPlace, Counted
  <2>3. \A i \in Positions({"set", "count"}) : i \in Nat /\ i # pos + 1
    BY <2>1 DEF Positions
  <2>4. \A i \in Positions({"set", "count"}) : i <= pos <=> i <= pos + 1
    BY <1>2, <2>3
  <2>5. EachCount(counts, pos + 1)
    BY <1>1, <2>4 DEF EachCount
  <2>6. EachCount(counts', Counted')
    BY <1>6, <2>2, <2>5
  <2>7. QED BY <1>1, <1>6, <2>1, <2>2, <2>6, ExecuteKept
<1>7. CASE Read("error") /\ loop' = "err" /\ UNCHANGED <<statement, counts, count>>
  <2>1. BufferPlace' /\ CountPlace'
    BY <1>7 DEF BufferPlace, CountPlace
  <2>2. QED BY <1>1, <1>3, <1>7, <2>1, ExecuteKept
<1>8. CASE AtEnd /\ UNCHANGED Buffer!nativeVars /\ loop' = "ok" /\ UNCHANGED <<statement, counts, count>>
  <2>1. UNCHANGED <<response, pos, onRows>> /\ pos = Len(response)
    BY <1>8 DEF Buffer!nativeVars, AtEnd
  <2>2. NativeTypeOK'
    BY <1>1, <2>1 DEF NativeTypeOK
  <2>3. BufferPlace' /\ CountPlace' /\ Counted' = pos
    BY <1>1, <1>8, <2>1, ResponseStays DEF BufferPlace, CountPlace, Counted
  <2>4. EachCount(counts', Counted')
    BY <1>1, <1>8, <2>3
  <2>5. QED BY <1>1, <1>8, <2>1, <2>2, <2>3, <2>4, ExecuteKept
<1>9. QED BY <1>4, <1>5, <1>6, <1>7, <1>8, SameMoves
      DEF Buffer!Statement, Buffer!Go, Buffer!executeVars, Read

LEMMA ExecuteCountRow == ASSUME BInv, Buffer!CountRow PROVE BInv'
<1>1. /\ api = "execute" /\ api' = api /\ loop = "counting"
      /\ UNCHANGED <<resultSets, rows, statement, rowStream, streamed>>
      /\ NativeTypeOK /\ statement \in 0..Len(response) /\ counts \in Seq([of : Nat, rows : Nat])
      /\ count \in Nat /\ EachCount(counts, statement - 1) /\ pos \notin Positions({"error"})
      /\ statement \in Positions({"set"}) /\ pos = statement + count
      /\ \A i \in statement + 1..pos : i \in Rows
  BY DEF Buffer!CountRow, Buffer!Go, Buffer!queryVars, Buffer!streamVars,
         BInv, BufferTyped, ExecuteInv, CountPlace, Counted, BufferPlace
<1>2. Len(response) \in Nat /\ pos \in Nat /\ statement \in Nat
  BY <1>1, Native
<1>3. CASE NextIs({"row"}) /\ ReadTo(pos + 1) /\ count' = count + 1 /\ loop' = "counting"
           /\ counts' = counts
  <2>1. /\ pos' = pos + 1 /\ response' = response /\ NativeTypeOK'
        /\ pos + 1 \in Rows /\ pos + 1 \notin Positions({"error"})
        /\ Rows' = Rows /\ \A kinds : Positions(kinds)' = Positions(kinds)
    BY <1>1, <1>3, OneRead, ResponseStays DEF Rows, Positions
  <2>2. BufferPlace' /\ Counted' = statement - 1
    BY <1>1, <1>3, <2>1 DEF BufferPlace, Counted
  <2>3. CountPlace'
    <3>1. pos + 1 = statement + (count + 1) /\ \A i \in statement + 1..(pos + 1) : i \in statement + 1..pos \/ i = pos + 1
      BY <1>1, <1>2
    <3>2. \A i \in statement + 1..(pos + 1) : i \in Rows
      BY <1>1, <2>1, <3>1
    <3>3. statement' = statement
      BY <1>1
    <3>4. QED BY <1>1, <1>3, <2>1, <3>1, <3>2, <3>3 DEF CountPlace
  <2>4. EachCount(counts', Counted') /\ count' \in Nat
    BY <1>1, <1>3, <2>2
  <2>5. QED BY <1>1, <1>3, <2>1, <2>2, <2>3, <2>4, ExecuteKept
<1>4. CASE ~NextIs({"row", "error"}) /\ onRows' = FALSE /\ UNCHANGED <<response, pos>>
           /\ loop' = "advance" /\ counts' = Append(counts, [of |-> statement, rows |-> count])
           /\ count' = count
  <2>1. ~NextIs({"row"}) /\ NativeTypeOK'
    BY <1>1, <1>4 DEF NextIs, NativeTypeOK
  <2>2. RowsOf(statement) = statement + 1..pos
    BY <1>1, <1>2, <2>1, RowsFollow
  <2>3. Cardinality(statement + 1..pos) = count
    <3>1. statement + 1 \in Int /\ pos \in Int
      BY <1>2
    <3>2. Cardinality(statement + 1..pos) = IF statement + 1 > pos THEN 0 ELSE pos - (statement + 1) + 1
      BY <3>1, FS_Interval
    <3>3. QED BY <1>1, <1>2, <3>2
  <2>4. /\ statement \in Positions({"set", "count"}) /\ statement - 1 \in Int /\ statement <= pos
        /\ pos \in Int
    BY <1>1, <1>2 DEF Positions
  <2>5. \A j \in statement + 1..pos : j \notin Positions({"set", "count"})
    BY <1>1 DEF Rows, Positions
  <2>6. counts' \in Seq([of : Nat, rows : Nat]) /\ EachCount(counts', pos)
    BY <1>1, <1>4, <2>2, <2>3, <2>4, <2>5, CountMore
  <2>7. BufferPlace' /\ CountPlace' /\ Counted' = pos
    BY <1>1, <1>4, ResponseStays DEF BufferPlace, CountPlace, Counted
  <2>8. EachCount(counts', Counted') /\ count' \in Nat
    BY <1>1, <1>4, <2>6, <2>7
  <2>9. QED BY <1>1, <1>4, <2>1, <2>6, <2>7, <2>8, ExecuteKept
<1>5. CASE NextIs({"error"}) /\ ReadTo(pos + 1) /\ loop' = "err" /\ UNCHANGED <<counts, count>>
  <2>1. response' = response /\ NativeTypeOK'
    BY <1>1, <1>5, OneRead
  <2>2. BufferPlace' /\ CountPlace'
    BY <1>5 DEF BufferPlace, CountPlace
  <2>3. QED BY <1>1, <1>5, <2>1, <2>2, ExecuteKept
<1>6. QED BY <1>3, <1>4, <1>5, SameMoves DEF Buffer!CountRow, Buffer!Go

\* The rows of the sets gathered, of all of them when the loop is done.
LEMMA AllGathered ==
  ASSUME BInv, api = "query", loop = "ok"
  PROVE  /\ InOrder(resultSets, Rows) /\ resultSets \in Seq(Seq(Nat))
         /\ IsFiniteSet(Rows) /\ Rows \in SUBSET Nat
<1>1. /\ NativeTypeOK /\ resultSets \in Seq(Seq(Nat)) /\ pos = Len(response)
      /\ EachRow(resultSets, pos)
  BY DEF BInv, BufferTyped, BufferPlace, QueryInv, Gathered
<1>2. \A i \in Rows : i <= pos
  BY <1>1 DEF Rows, Positions
<1>3. {i \in Rows : i <= pos} = Rows
  BY <1>2
<1>4. QED BY <1>1, <1>3, AllFinite DEF EachRow

\* A step of RowStream keeps the invariant when it keeps these parts.
LEMMA StreamKept ==
  ASSUME BInv, api = "query", api' = api, loop \in {"ok", "streaming"}, loop' \in {"streaming", "streamed"},
         UNCHANGED <<response, pos, onRows, resultSets, rows, statement, counts, count>>,
         rowStream' \in [sets : Seq(Seq(Nat)), current : Seq(Nat), remaining : Nat],
         streamed' \in Seq(Nat),
         loop' = "streaming" => Streaming', loop' = "streamed" => Lists(streamed', Rows)
  PROVE  BInv'
<1>1. NativeTypeOK' /\ BufferTyped'
  BY DEF BInv, BufferTyped, NativeTypeOK
<1>2. /\ Rows' = Rows /\ \A kinds : Positions(kinds)' = Positions(kinds)
      /\ \A i : SetsUpTo(i)' = SetsUpTo(i) /\ RowsOf(i)' = RowsOf(i)
  BY ResponseStays
<1>3. BufferPlace' /\ QueryPlace'
  BY <1>2 DEF BInv, BufferPlace, QueryPlace
<1>4. Gathered' = Gathered
  BY DEF Gathered
<1>5. EachSet(resultSets', Gathered') /\ EachRow(resultSets', Gathered')
  BY <1>4 DEF BInv, QueryInv
<1>6. EachSet(resultSets, Gathered)' /\ EachRow(resultSets, Gathered)'
  BY <1>5, LaterIs
<1>7. Lists(streamed', Rows) => Lists(streamed, Rows)'
  BY <1>2 DEF Lists
<1>8. QueryInv'
  BY <1>3, <1>6, <1>7 DEF QueryInv
<1>9. QED BY <1>1, <1>3, <1>8 DEF BInv

LEMMA SetsLater ==
  InOrder(rowStream.sets, Unyielded \ Elements(rowStream.current))'
    <=> InOrder(rowStream'.sets, Unyielded' \ Elements(rowStream.current)')
BY DEF InOrder, Elements, Increasing, Precedes

LEMMA StreamStarts == ASSUME BInv, Buffer!IntoRowStream PROVE BInv'
<1> DEFINE first == Buffer!IntoFirstResult
           others == IF resultSets = <<>> THEN <<>> ELSE Tail(resultSets)
<1>1. /\ api = "query" /\ api' = api /\ loop = "ok" /\ loop' = "streaming" /\ streamed' = streamed
      /\ UNCHANGED <<response, pos, onRows, resultSets, rows, statement, counts, count>>
      /\ rowStream' = [sets |-> others, current |-> first, remaining |-> Buffer!Total(resultSets)]
      /\ streamed = <<>> /\ NativeTypeOK
  BY DEF Buffer!IntoRowStream, Buffer!nativeVars, Buffer!queryVars, Buffer!executeVars, BInv, QueryInv
<1>2. /\ InOrder(resultSets, Rows) /\ resultSets \in Seq(Seq(Nat))
      /\ IsFiniteSet(Rows) /\ Rows \in SUBSET Nat
  BY <1>1, AllGathered
<1>3. Buffer!Total(resultSets) = Cardinality(Rows) /\ Cardinality(Rows) \in Nat
  BY <1>2, TotalIs, FS_CardinalityType
<1>4. /\ first \in Seq(Nat) /\ others \in Seq(Seq(Nat))
      /\ Elements(first) \subseteq Rows /\ Increasing(first)
      /\ Precedes(Elements(first), Rows \ Elements(first))
      /\ InOrder(others, Rows \ Elements(first))
  <2>1. CASE resultSets = <<>>
    <3>1. first = <<>> /\ others = <<>> /\ Elements(<<>>) = {}
      BY <2>1 DEF Buffer!IntoFirstResult, Elements
    <3>2. Rows = {}
      BY <1>2, <2>1 DEF InOrder
    <3>3. InOrder(<<>>, {}) /\ Increasing(<<>>) /\ Precedes({}, {})
      BY DEF InOrder, Increasing, Precedes
    <3>4. Elements(first) = {} /\ Rows \ Elements(first) = {}
      BY <3>1, <3>2
    <3>5. first \in Seq(Nat) /\ others \in Seq(Seq(Nat))
      <4>1. <<>> \in Seq(Nat) /\ <<>> \in Seq(Seq(Nat))
        OBVIOUS
      <4>2. QED BY <3>1, <4>1
    <3>6. InOrder(others, Rows \ Elements(first)) /\ Increasing(first)
      BY <3>1, <3>3, <3>4
    <3>7. Precedes(Elements(first), Rows \ Elements(first))
      BY <3>4 DEF Precedes
    <3>8. QED BY <3>4, <3>5, <3>6, <3>7
  <2>2. CASE resultSets # <<>>
    <3>1. first = Head(resultSets) /\ others = Tail(resultSets)
      BY <1>2, <2>2, HeadTailProperties DEF Buffer!IntoFirstResult
    <3>2. QED BY <1>2, <2>2, <3>1, FirstOf
  <2>3. QED BY <2>1, <2>2
<1> HIDE DEF first, others
<1>5. Elements(streamed)' = {} /\ Unyielded' = Rows /\ Rows' = Rows
  BY <1>1, ResponseStays DEF Unyielded, Elements
<1>6. Streaming'
  <2>1. rowStream'.sets = others /\ rowStream'.current = first /\ rowStream'.remaining = Cardinality(Rows)
    BY <1>1, <1>3
  <2>2. /\ Elements(rowStream.current)' = Elements(first)
        /\ Increasing(rowStream.current)' <=> Increasing(first)
    BY <2>1 DEF Elements, Increasing
  <2>3. Increasing(streamed)'
    BY <1>1 DEF Increasing
  <2>4. Precedes(Elements(streamed), Unyielded)'
    BY <1>5 DEF Precedes
  <2>5. Precedes(Elements(rowStream.current), Unyielded \ Elements(rowStream.current))'
    BY <1>4, <1>5, <2>2 DEF Precedes
  <2>6. InOrder(rowStream.sets, Unyielded \ Elements(rowStream.current))'
    BY <1>4, <1>5, <2>1, <2>2, SetsLater
  <2>7. QED BY <1>4, <1>5, <2>1, <2>2, <2>3, <2>4, <2>5, <2>6 DEF Streaming
<1>7. rowStream' \in [sets : Seq(Seq(Nat)), current : Seq(Nat), remaining : Nat]
  BY <1>1, <1>3, <1>4
<1>8. streamed' \in Seq(Nat)
  BY <1>1
<1>9. QED BY <1>1, <1>6, <1>7, <1>8, StreamKept

LEMMA StreamPolled == ASSUME BInv, Buffer!PollNext PROVE BInv'
<1> DEFINE current == rowStream.current
           others == rowStream.sets
           seen == Elements(streamed)
<1>1. /\ loop = "streaming" /\ api' = api /\ NativeTypeOK /\ streamed \in Seq(Nat)
      /\ UNCHANGED <<response, pos, onRows, resultSets, rows, statement, counts, count>>
      /\ rowStream \in [sets : Seq(Seq(Nat)), current : Seq(Nat), remaining : Nat]
  BY DEF Buffer!PollNext, Buffer!nativeVars, Buffer!queryVars, Buffer!executeVars, BInv, BufferTyped
<1>2. api = "query"
  BY <1>1 DEF BInv, BufferTyped, ExecuteInv, CountPlace
<1>3. /\ seen \subseteq Rows /\ Elements(current) \subseteq Unyielded
      /\ Increasing(streamed) /\ Increasing(current) /\ Precedes(seen, Unyielded)
      /\ Precedes(Elements(current), Unyielded \ Elements(current))
      /\ InOrder(others, Unyielded \ Elements(current))
      /\ rowStream.remaining = Cardinality(Unyielded)
  BY <1>1, <1>2 DEF BInv, QueryInv, Streaming
<1>4. /\ current \in Seq(Nat) /\ others \in Seq(Seq(Nat))
      /\ IsFiniteSet(Rows) /\ Rows \subseteq Nat /\ Rows' = Rows
      /\ IsFiniteSet(Unyielded) /\ Unyielded \subseteq Nat
  BY <1>1, AllFinite, ResponseStays, FS_Subset DEF Unyielded
<1>5. CASE current # <<>> /\ rowStream' = [rowStream EXCEPT !.current = Tail(@), !.remaining = @ - 1]
           /\ streamed' = Append(streamed, Head(current)) /\ loop' = loop
  <2> DEFINE h == Head(current)
             rest == Tail(current)
  <2>1. /\ h \in Nat /\ rest \in Seq(Nat) /\ Elements(current) = Elements(rest) \cup {h}
        /\ \A i \in Elements(rest) : h < i
        /\ Increasing(rest)
    BY <1>3, <1>4, <1>5, ElementsTail
  <2>2. /\ rowStream'.sets = others /\ rowStream'.current = rest
        /\ rowStream'.remaining = rowStream.remaining - 1
        /\ rowStream' \in [sets : Seq(Seq(Nat)), current : Seq(Nat), remaining : Int]
    <3>1. rowStream.remaining - 1 \in Int
      BY <1>1
    <3>2. rowStream' = [sets |-> others, current |-> rest, remaining |-> rowStream.remaining - 1]
      BY <1>1, <1>5
    <3>3. QED BY <1>4, <2>1, <3>1, <3>2
  <2> HIDE DEF h, rest, current, others
  <2>3. h \in Unyielded /\ h \notin Elements(rest) /\ h \notin seen /\ \A i \in seen : i < h
    <3>1. h \in Unyielded
      BY <1>3, <2>1
    <3>2. ~(h < h)
      BY <2>1
    <3>3. QED BY <1>3, <2>1, <3>1, <3>2 DEF Unyielded, Precedes, seen
  <2>4. streamed' \in Seq(Nat) /\ Elements(streamed') = seen \cup {h} /\ Increasing(streamed')
    BY <1>1, <1>3, <1>5, <2>1, <2>3, ElementsAppend DEF h
  <2>5. Unyielded' = Unyielded \ {h}
    BY <1>4, <2>4 DEF Unyielded, seen, Elements
  <2>6. /\ Cardinality(Unyielded \ {h}) = Cardinality(Unyielded) - 1
        /\ Cardinality(Unyielded \ {h}) \in Nat
    BY <1>4, <2>3, FS_RemoveElement, FS_CardinalityType
  <2>7. Unyielded' \ Elements(rest) = Unyielded \ Elements(current)
    BY <2>1, <2>5
  <2>8. Precedes(seen \cup {h}, Unyielded')
    <3>1. \A j \in Unyielded' : h < j
      <4>1. \A j \in Unyielded' : j \in Elements(rest) \/ j \in Unyielded \ Elements(current)
        BY <2>7
      <4>2. QED BY <1>3, <2>1, <4>1 DEF Precedes
    <3>2. QED BY <1>3, <2>5, <3>1 DEF Precedes
  <2>9. Precedes(Elements(rest), Unyielded' \ Elements(rest))
    BY <1>3, <2>1, <2>7 DEF Precedes
  <2>10. Streaming'
    <3>1. /\ Elements(streamed)' = seen \cup {h} /\ Elements(rowStream.current)' = Elements(rest)
          /\ Increasing(streamed)' /\ Increasing(rowStream.current)'
      BY <2>1, <2>2, <2>4 DEF Elements, Increasing
    <3>2. seen \cup {h} \subseteq Rows /\ Elements(rest) \subseteq Unyielded'
      BY <1>3, <2>1, <2>3, <2>5 DEF Unyielded
    <3>3. InOrder(rowStream.sets, Unyielded \ Elements(rowStream.current))'
      BY <1>3, <2>2, <2>7, <3>1, SetsLater
    <3>4. Precedes(Elements(streamed), Unyielded)'
      BY <2>8, <3>1 DEF Precedes
    <3>5. Precedes(Elements(rowStream.current), Unyielded \ Elements(rowStream.current))'
      BY <2>9, <3>1 DEF Precedes
    <3>6. rowStream'.remaining = Cardinality(Unyielded')
      BY <1>3, <2>2, <2>5, <2>6
    <3>7. QED BY <1>4, <3>1, <3>2, <3>3, <3>4, <3>5, <3>6 DEF Streaming
  <2>11. rowStream' \in [sets : Seq(Seq(Nat)), current : Seq(Nat), remaining : Nat]
    BY <1>3, <2>2, <2>6
  <2>12. QED BY <1>1, <1>2, <1>5, <2>4, <2>10, <2>11, StreamKept
<1>6. CASE current = <<>> /\ others # <<>>
           /\ rowStream' = [rowStream EXCEPT !.current = Head(others), !.sets = Tail(@)]
           /\ UNCHANGED <<loop, streamed>>
  <2> DEFINE h == Head(others)
             rest == Tail(others)
  <2>1. Elements(current) = {} /\ Unyielded \ Elements(current) = Unyielded
    BY <1>6 DEF Elements
  <2>2. /\ h \in Seq(Nat) /\ rest \in Seq(Seq(Nat))
        /\ Elements(h) \subseteq Unyielded /\ Increasing(h)
        /\ Precedes(Elements(h), Unyielded \ Elements(h))
        /\ InOrder(rest, Unyielded \ Elements(h))
    BY <1>3, <1>4, <1>6, <2>1, FirstOf
  <2>3. /\ rowStream'.sets = rest /\ rowStream'.current = h
        /\ rowStream'.remaining = rowStream.remaining
        /\ rowStream' \in [sets : Seq(Seq(Nat)), current : Seq(Nat), remaining : Nat]
    BY <1>1, <1>6, <2>2
  <2> HIDE DEF h, rest, current, others
  <2>4. Unyielded' = Unyielded
    BY <1>4, <1>6 DEF Unyielded, Elements
  <2>5. Streaming'
    <3>1. /\ Elements(streamed)' = seen /\ Elements(rowStream.current)' = Elements(h)
          /\ Increasing(streamed)' /\ Increasing(rowStream.current)'
      BY <1>3, <1>6, <2>2, <2>3 DEF Elements, Increasing, seen
    <3>2. InOrder(rowStream.sets, Unyielded \ Elements(rowStream.current))'
      BY <2>2, <2>3, <2>4, <3>1, SetsLater
    <3>3. Precedes(Elements(streamed), Unyielded)'
      BY <1>3, <2>4, <3>1 DEF Precedes
    <3>4. Precedes(Elements(rowStream.current), Unyielded \ Elements(rowStream.current))'
      BY <2>2, <2>4, <3>1 DEF Precedes
    <3>5. QED BY <1>3, <1>4, <2>2, <2>3, <2>4, <3>1, <3>2, <3>3, <3>4 DEF Streaming
  <2>6. streamed' \in Seq(Nat)
    BY <1>1, <1>6
  <2>7. QED BY <1>1, <1>2, <1>6, <2>3, <2>5, <2>6, StreamKept
<1>7. CASE current = <<>> /\ others = <<>> /\ loop' = "streamed" /\ UNCHANGED <<rowStream, streamed>>
  <2>1. Elements(current) = {}
    BY <1>7 DEF Elements
  <2>2. Unyielded = {}
    BY <1>3, <1>7, <2>1 DEF InOrder
  <2>3. seen = Rows
    BY <1>3, <2>2 DEF Unyielded
  <2>4. Lists(streamed', Rows)
    BY <1>3, <1>7, <2>3 DEF Lists, Elements, Increasing
  <2>5. QED BY <1>1, <1>2, <1>7, <2>4, StreamKept
<1>8. QED BY <1>5, <1>6, <1>7 DEF Buffer!PollNext, Buffer!streamVars

LEMMA LoopKeeps == ASSUME BInv, Buffer!Next PROVE BInv'
BY QueryExecute, QueryLoopTest, QueryNextRow, QueryAfterSet, ExecuteStatement, ExecuteCountRow,
   StreamStarts, StreamPolled DEF Buffer!Next

-----------------------------------------------------------------------------
(* Both *)

RInv ==
  /\ reader \in {"stream", "buffer"} /\ NativeTypeOK
  /\ reader = "stream" => SP!SInv /\ SP!DInv /\ SP!GInv /\ BufferTyped
  /\ reader = "buffer" => BInv /\ SP!TypeOK

\* The reader that is idle keeps its types.
LEMMA IdleTyped ==
  /\ BufferTyped /\ UNCHANGED <<response, bufferVars>> => BufferTyped'
  /\ SP!TypeOK /\ NativeTypeOK' /\ UNCHANGED streamVars => SP!TypeOK'
<1>1. BufferTyped /\ UNCHANGED <<response, bufferVars>> => BufferTyped'
  BY DEF BufferTyped, bufferVars
<1>2. SP!NativeTypeOK' <=> NativeTypeOK'
  BY DEF NativeTypeOK, SP!NativeTypeOK, Responses, SP!Responses, Kinds, SP!Kinds,
         WellFormed, SP!WellFormed
<1>3. SP!TypeOK /\ NativeTypeOK' /\ UNCHANGED streamVars => SP!TypeOK'
  BY <1>2 DEF SP!TypeOK, streamVars
<1>4. QED BY <1>1, <1>3

LEMMA StreamReads == ASSUME SP!Next PROVE response' = response
BY DEF SP!Next, SP!Ready, SP!Generate, SP!Execute, SP!Advance, SP!Fetch, SP!ReadStatement, SP!ReadTo,
       SP!Advanced, SP!AdvanceFails, SP!NoMoreSets, SP!ReadRow, SP!RowError, SP!NoMoreRows,
       SP!nativeVars, SP!Take, SP!Collect, SP!Peek, SP!Obtain, SP!ReportError, SP!ReportEnd,
       SP!StartPoll, SP!DropPoll

\* Nothing that the invariant speaks of changes in a stuttering step.
LEMMA StreamStutters ==
  ASSUME SP!SInv, SP!DInv, SP!GInv, UNCHANGED <<response, pos, onRows, streamVars>>
  PROVE  SP!SInv' /\ SP!DInv' /\ SP!GInv'
<1> USE DEF streamVars
<1>1. SP!SInv'
  <2>1. SP!TypeOK'
    BY DEF SP!SInv, SP!TypeOK, SP!NativeTypeOK
  <2>2. /\ \A kinds : SP!Positions(kinds)' = SP!Positions(kinds)
        /\ SP!Items' = SP!Items /\ SP!Sets' = SP!Sets /\ SP!Failing' = SP!Failing
    BY DEF SP!Positions, SP!Items, SP!Sets, SP!Failing
  <2>3. SP!Released' = SP!Released
    BY <2>2 DEF SP!Released, SP!AtYield
  <2>4. SP!Place'
    BY <2>2 DEF SP!SInv, SP!Place, SP!NextIs
  <2>5. SP!Writing' /\ SP!Reporting' /\ SP!PeekedLast' /\ SP!CollectLast'
    BY <2>2 DEF SP!SInv, SP!Writing, SP!Reporting, SP!PeekedLast, SP!CollectLast
  <2>6. SP!NothingLost'
    BY <2>2, <2>3 DEF SP!SInv, SP!NothingLost, SP!At, SP!Collected, SP!Peeked
  <2>7. QED BY <2>1, <2>4, <2>5, <2>6 DEF SP!SInv
<1>2. /\ SP!Sets' = SP!Sets /\ SP!Released' = SP!Released
      /\ SP!Positions({"set"})' = SP!Positions({"set"})
      /\ \A i : SP!Before(i)' = SP!Before(i) /\ SP!UpTo(i)' = SP!UpTo(i)
  BY DEF SP!Sets, SP!Released, SP!Items, SP!Positions, SP!AtYield, SP!Before, SP!UpTo
<1>3. SP!DInv'
  <2>1. SP!RowsMatchSchema'
    BY SP!RowsKept, MaxTokensAssumption DEF SP!DInv
  <2>2. \A i : SP!SetOf(i)' = SP!SetOf(i) /\ SP!Last(i)' = SP!Last(i)
    BY <1>2 DEF SP!SetOf, SP!Last
  <2>3. SP!WriterFits'
    BY <1>2 DEF SP!DInv, SP!WriterFits
  <2>4. SP!PeekedFits'
    BY <1>2, <2>2 DEF SP!DInv, SP!PeekedFits, SP!Fits
  <2>5. SP!ColumnsKnown'
    BY <1>2, <2>2 DEF SP!DInv, SP!ColumnsKnown
  <2>6. QED BY <2>1, <2>3, <2>4, <2>5 DEF SP!DInv
<1>4. SP!Handed' = SP!Handed
  BY <1>2 DEF SP!Handed, SP!Peeked
<1>5. SP!GInv'
  BY <1>2, <1>4, SP!GroupsStay, MaxTokensAssumption
<1>6. QED BY <1>1, <1>3, <1>5

LEMMA BufferStutters ==
  ASSUME BInv, UNCHANGED <<response, pos, onRows, bufferVars>>
  PROVE  BInv'
<1> USE DEF bufferVars
<1>1. NativeTypeOK' /\ BufferTyped'
  BY DEF BInv, BufferTyped, NativeTypeOK
<1>2. /\ Rows' = Rows /\ \A kinds : Positions(kinds)' = Positions(kinds)
      /\ \A i : SetsUpTo(i)' = SetsUpTo(i) /\ RowsOf(i)' = RowsOf(i)
  BY ResponseStays
<1>3. BufferPlace'
  BY <1>2 DEF BInv, BufferPlace
<1>4. Gathered' = Gathered /\ Counted' = Counted
  BY DEF Gathered, Counted
<1>5. ASSUME api = "query" PROVE QueryInv'
  <2>1. QueryPlace'
    BY <1>2, <1>5 DEF BInv, QueryInv, QueryPlace, NextIs
  <2>2. loop # "err" => EachSet(resultSets, Gathered)' /\ EachRow(resultSets, Gathered)'
    BY <1>4, <1>5, LaterIs DEF BInv, QueryInv
  <2>3. loop = "streaming" => Streaming'
    BY <1>2, <1>5 DEF BInv, QueryInv, Streaming, Unyielded, InOrder, Elements, Increasing, Precedes
  <2>4. Lists(streamed, Rows)' <=> Lists(streamed, Rows)
    BY <1>2 DEF Lists
  <2>5. QED BY <1>5, <2>1, <2>2, <2>3, <2>4 DEF BInv, QueryInv
<1>6. ASSUME api = "execute" PROVE ExecuteInv'
  <2>1. CountPlace'
    BY <1>2, <1>6 DEF BInv, ExecuteInv, CountPlace
  <2>2. loop # "err" => EachCount(counts, Counted)'
    BY <1>4, <1>6, LaterIs DEF BInv, ExecuteInv
  <2>3. QED BY <2>1, <2>2 DEF ExecuteInv
<1>7. QED BY <1>1, <1>3, <1>5, <1>6 DEF BInv

LEMMA Stutter ==
  ASSUME RInv, UNCHANGED vars
  PROVE  RInv'
<1>1. UNCHANGED <<response, pos, onRows, reader, streamVars, bufferVars>>
  BY DEF vars, nativeVars
<1>2. NativeTypeOK'
  BY <1>1 DEF RInv, NativeTypeOK
<1>3. QED BY <1>1, <1>2, IdleTyped, StreamStutters, BufferStutters DEF RInv

\* At first nothing is gathered.
LEMMA InitBuffer == ASSUME Buffer!Init, NativeTypeOK, pos = 0, onRows = FALSE PROVE BInv
<1>1. /\ api \in {"query", "execute"} /\ loop = "execute"
      /\ resultSets = <<>> /\ rows = <<>> /\ statement = 0 /\ counts = <<>> /\ count = 0
      /\ rowStream = [sets |-> <<>>, current |-> <<>>, remaining |-> 0] /\ streamed = <<>>
  BY DEF Buffer!Init
<1>2. BufferTyped
  <2>1. Len(response) \in Nat
    BY Native
  <2>2. /\ <<>> \in Seq(Seq(Nat)) /\ <<>> \in Seq(Nat) /\ <<>> \in Seq([of : Nat, rows : Nat])
    OBVIOUS
  <2>3. QED BY <1>1, <2>1, <2>2 DEF BufferTyped
<1>3. /\ \A kinds : \A i \in Positions(kinds) : i >= 1 /\ i \in Nat
      /\ \A kinds : 0 \notin Positions(kinds)
  BY DEF Positions
<1>4. Gathered = 0 /\ Counted = 0 /\ BufferPlace
  BY <1>1, <1>3 DEF Gathered, Counted, BufferPlace
<1>5. SetsUpTo(0) = {} /\ {i \in Rows : i <= 0} = {} /\ {i \in Positions({"set", "count"}) : i <= 0} = {}
  BY <1>3 DEF SetsUpTo, Rows
<1>6. EachSet(<<>>, 0)
  BY <1>5, FS_EmptySet DEF EachSet
<1>7. EachRow(<<>>, 0)
  BY <1>5 DEF EachRow, InOrder
<1>8. EachCount(<<>>, 0)
  BY <1>5 DEF EachCount, Lists
<1>9. QueryInv
  BY <1>1, <1>4, <1>6, <1>7 DEF QueryInv, QueryPlace
<1>10. ExecuteInv
  BY <1>1, <1>4, <1>8 DEF ExecuteInv, CountPlace
<1>11. QED BY <1>2, <1>4, <1>9, <1>10 DEF BInv

LEMMA InitInv == ASSUME Init PROVE RInv
<1>1. reader \in {"stream", "buffer"} /\ Stream!Init /\ Buffer!Init
  BY DEF Init
<1>2. SP!Init
  BY <1>1, SameStream
<1>3. SP!SInv /\ SP!DInv /\ SP!GInv
  BY <1>2, NoneApart, SP!InitHolds, SP!InitDescribes, SP!InitGroups, MaxTokensAssumption
<1>4. NativeTypeOK /\ pos = 0 /\ onRows = FALSE
  BY <1>2, <1>3 DEF SP!SInv, SP!TypeOK, SP!Init, SP!NativeInit, NativeTypeOK, SP!NativeTypeOK,
                    Responses, SP!Responses, Kinds, SP!Kinds, WellFormed, SP!WellFormed
<1>5. BInv
  BY <1>1, <1>4, InitBuffer
<1>6. QED BY <1>1, <1>3, <1>4, <1>5 DEF RInv, BInv, SP!SInv

LEMMA NextInv == ASSUME RInv, Next PROVE RInv'
<1>1. CASE Ready \/ DropPoll \/ \E f \in {"next", "columns", "collect"} : StartPoll(f)
  <2>1. reader = "stream" /\ reader' = reader /\ UNCHANGED bufferVars
    BY <1>1 DEF Ready, DropPoll, StartPoll, BufferIdle
  <2>2. SP!Next
    BY <1>1, SameStream DEF Ready, DropPoll, StartPoll, Stream!Ready, SP!Ready, SP!Next
  <2>3. SP!SInv' /\ SP!DInv' /\ SP!GInv'
    BY <2>1, <2>2, NoneApart, SP!StepKeeps, SP!StepDescribes, SP!StepGroups, MaxTokensAssumption DEF RInv
  <2>4. BufferTyped'
    BY <2>1, <2>2, StreamReads, IdleTyped DEF RInv
  <2>5. NativeTypeOK'
    BY <2>3 DEF SP!SInv, SP!TypeOK, NativeTypeOK, SP!NativeTypeOK,
                Responses, SP!Responses, Kinds, SP!Kinds, WellFormed, SP!WellFormed
  <2>6. QED BY <2>1, <2>3, <2>4, <2>5 DEF RInv
<1>2. CASE Loop
  <2>1. reader = "buffer" /\ reader' = reader /\ Buffer!Next /\ UNCHANGED streamVars
    BY <1>2 DEF Loop, StreamIdle
  <2>2. BInv'
    BY <2>1, LoopKeeps DEF RInv
  <2>3. NativeTypeOK' /\ SP!TypeOK'
    BY <2>1, <2>2, IdleTyped DEF RInv, BInv
  <2>4. QED BY <2>1, <2>2, <2>3 DEF RInv
<1>3. QED BY <1>1, <1>2 DEF Next

\* The invariant of both readers (compat.rs:70-138, client.rs:294-451,
\* query.rs) holds in every reachable state: the stream's place in the
\* response, who holds its items and how they are grouped, and what a buffering
\* loop has gathered of the response it has read.
THEOREM ReaderInvariance == Spec => []RInv
<1>1. Init => RInv
  BY InitInv
<1>2. RInv /\ [Next]_vars => RInv'
  BY NextInv, Stutter
<1>3. QED BY <1>1, <1>2, PTL DEF Spec

\* Every variable of both readers has its type.
THEOREM ReadersTyped == Spec => []TypeOK
<1>1. RInv => Stream!TypeOK
  BY SameProperties DEF RInv, SP!SInv
<1>2. RInv => Buffer!TypeOK
  <2>1. NativeTypeOK => Buffer!NativeTypeOK
    BY DEF NativeTypeOK, Buffer!NativeTypeOK, Responses, Buffer!Responses, Kinds, Buffer!Kinds,
           WellFormed, Buffer!WellFormed
  <2>2. QED BY <2>1 DEF RInv, BInv, BufferTyped, Buffer!TypeOK
<1>3. QED BY <1>1, <1>2, ReaderInvariance, PTL DEF TypeOK

\* The stream loses and repeats nothing, whatever polls are dropped and however
\* long the response.
THEOREM StreamLosesNothing == Spec => []NothingLost
<1>1. RInv => NothingLost
  BY SameProperties DEF RInv, SP!SInv, NothingLost
<1>2. QED BY <1>1, ReaderInvariance, PTL

\* Every row, and what columns() returns, is described by the metadata the
\* server sent before it, whatever was peeked or dropped in between.
THEOREM RowsAlwaysDescribed == Spec => []RowsDescribed
<1>1. RInv => RowsDescribed
  BY SameProperties, SP!ColumnsDescribe, MaxTokensAssumption
  DEF RInv, SP!SInv, SP!DInv, RowsDescribed
<1>2. QED BY <1>1, ReaderInvariance, PTL

\* into_results (compat.rs) groups the rows as the server did: a Vec for each
\* set whose metadata it received, empty or not, one more for the rows of a set
\* begun before it, and no row in another's Vec.
THEOREM SetsAlwaysKept == Spec => []SetsKept
<1>1. RInv => SetsKept
  BY SameProperties, SP!GroupsKept, MaxTokensAssumption DEF RInv, SetsKept
<1>2. QED BY <1>1, ReaderInvariance, PTL

\* The properties of a loop that has read a response are about all of it.
LEMMA ReadIsAll ==
  ASSUME BInv, Buffer!Read
  PROVE  /\ pos = Len(response) /\ pos \notin Positions({"error"})
         /\ SetsUpTo(pos) = Positions({"set"}) /\ {i \in Rows : i <= pos} = Rows
         /\ {i \in Positions({"set", "count"}) : i <= pos} = Positions({"set", "count"})
         /\ Gathered = pos /\ Counted = pos
         /\ loop # "err"
<1>1. /\ pos = Len(response) /\ pos \notin Positions({"error"}) /\ loop # "err"
      /\ Gathered = pos /\ Counted = pos
  BY DEF Buffer!Read, BInv, BufferPlace, Gathered, Counted
<1>2. \A kinds : \A i \in Positions(kinds) : i <= pos
  BY <1>1 DEF Positions
<1>3. QED BY <1>1, <1>2 DEF SetsUpTo, Rows

LEMMA SameResponse ==
  /\ \A kinds : Buffer!Positions(kinds) = Positions(kinds)
  /\ Buffer!Sets = Positions({"set"})
  /\ \A i : Buffer!SetOf(i) = SetOf(i)
  /\ \A s, S : Buffer!Lists(s, S) <=> Lists(s, S)
  /\ \A s : Buffer!Elements(s) = Elements(s)
  /\ \A S : Buffer!Cardinality(S) = Cardinality(S)
<1>1. \A kinds : Buffer!Positions(kinds) = Positions(kinds)
  BY DEF Buffer!Positions, Positions
<1>2. Buffer!Positions({"set"}) = Positions({"set"})
  BY <1>1
<1>3. QED BY <1>1, <1>2 DEF Buffer!Sets, Buffer!SetOf, SetOf, Buffer!Lists, Lists,
          Buffer!Elements, Elements, Buffer!Cardinality, Cardinality

\* query() and execute() (client.rs:294-451), and the RowStream of a result
\* (query.rs), return all there is and nothing else: a Vec for each set with
\* its own rows, a count for each statement that has one, and every row once.
THEOREM ResultsAlwaysComplete == Spec => []ResultsComplete
<1>1. ASSUME BInv, api = "query", Buffer!Read PROVE Buffer!ResultsComplete
  <2>1. /\ EachSet(resultSets, pos) /\ SetsUpTo(pos) = Positions({"set"})
        /\ loop = "streaming" => rowStream.remaining = Cardinality(Rows \ Elements(streamed))
        /\ loop = "streamed" => Lists(streamed, Rows)
    BY <1>1, ReadIsAll DEF BInv, QueryInv, Streaming, Unyielded
  <2>2. /\ Buffer!Sets = Positions({"set"}) /\ Buffer!Positions({"row"}) = Rows
        /\ \A s : {t \in Buffer!Sets : t <= s} = SetsUpTo(s)
        /\ \A s : {i \in Buffer!Positions({"row"}) : Buffer!SetOf(i) = s} = RowsOf(s)
    BY SameResponse DEF Rows, SetsUpTo, RowsOf
  <2>3. /\ Len(resultSets) = Cardinality(Positions({"set"}))
        /\ \A s \in Positions({"set"}) : Lists(resultSets[Cardinality(SetsUpTo(s))], RowsOf(s))
    BY <2>1 DEF EachSet
  <2>4. QED BY <2>1, <2>2, <2>3, SameResponse DEF Buffer!ResultsComplete
<1>2. ASSUME BInv, api = "execute", Buffer!Read PROVE Buffer!CountsComplete
  <2>1. /\ EachCount(counts, pos)
        /\ {i \in Positions({"set", "count"}) : i <= pos} = Positions({"set", "count"})
    BY <1>2, ReadIsAll DEF BInv, ExecuteInv
  <2>2. \A s : {i \in Buffer!Positions({"row"}) : Buffer!SetOf(i) = s} = RowsOf(s)
    BY SameResponse DEF Rows, RowsOf
  <2>3. QED BY <2>1, <2>2, SameResponse DEF EachCount, Buffer!CountsComplete
<1>3. BInv => Buffer!ResultsComplete /\ Buffer!CountsComplete
  BY <1>1, <1>2 DEF Buffer!ResultsComplete, Buffer!CountsComplete
<1>4. RInv => ResultsComplete
  BY <1>3 DEF RInv, ResultsComplete
<1>5. QED BY <1>4, ReaderInvariance, PTL

\* Neither reader swallows the error of a response or tells it twice.
THEOREM ErrorsTold == Spec => []ErrorOnce
<1>1. ASSUME BInv PROVE Buffer!NoErrorSwallowed
  <2>1. ASSUME Buffer!Read PROVE ~Buffer!Failing /\ pos = Len(response)
    <3>1. pos = Len(response) /\ pos \notin Positions({"error"})
      BY <1>1, <2>1, ReadIsAll
    <3>2. \A i \in 1..Len(response) : response[i] = "error" => i = Len(response)
      BY <1>1, Native DEF BInv
    <3>3. QED BY <3>1, <3>2 DEF Positions, Buffer!Failing, Buffer!Positions
  <2>2. QED BY <2>1 DEF Buffer!NoErrorSwallowed
<1>2. RInv => ErrorOnce
  BY <1>1, SameProperties, SP!ErrorsReported, MaxTokensAssumption DEF RInv, ErrorOnce
<1>3. QED BY <1>2, ReaderInvariance, PTL

==============================================================================
