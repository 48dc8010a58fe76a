-------------------------- MODULE QueryStreamProofs --------------------------
(***************************************************************************)
(* The steps of QueryStream keep its invariants, for responses of every     *)
(* length.  The theorems that rest on these lemmas are in ReaderProofs.    *)
(***************************************************************************)
EXTENDS QueryStreamInv, SequenceTheorems, FiniteSetTheorems, TLAPS

-----------------------------------------------------------------------------
(* Responses *)

\* A response is a finite, well-formed sequence.
LEMMA ResponseFacts ==
  ASSUME response \in Responses
  PROVE  /\ Len(response) \in Nat
         /\ \A i \in 1..Len(response) :
              /\ response[i] \in Kinds
              /\ response[i] = "row" =>
                   \E s \in 1..(i - 1) :
                     response[s] = "set" /\ \A j \in s + 1..i : response[j] = "row"
              /\ response[i] = "error" => i = Len(response)
<1>1. PICK n \in 0..MaxTokens : response \in [1..n -> Kinds]
  BY DEF Responses
<1>2. n \in Nat /\ response \in Seq(Kinds)
  BY <1>1, MaxTokensAssumption
<1>3. Len(response) \in Nat /\ DOMAIN response = 1..Len(response)
  BY <1>2
<1>4. \A i \in 1..Len(response) :
        /\ response[i] = "row" =>
             \E s \in 1..(i - 1) :
               response[s] = "set" /\ \A j \in s + 1..i : response[j] = "row"
        /\ response[i] = "error" => i = Len(response)
  BY <1>3 DEF Responses, WellFormed
<1>5. \A i \in 1..Len(response) : response[i] \in Kinds
  BY <1>2
<1>6. QED BY <1>3, <1>4, <1>5

\* No rows follow where no row comes next, up to the next result set.
LEMMA NoRowsBetween ==
  ASSUME NativeTypeOK, ~NextIs({"row"}), NEW m \in 0..Len(response),
         \A j \in Upcoming({"set"}) : m < j
  PROVE  \A j \in (pos + 1)..m : j \notin Items
<1>1. /\ Len(response) \in Nat /\ pos \in 0..Len(response)
      /\ \A i \in 1..Len(response) : response[i] = "row" =>
           \E s \in 1..(i - 1) : response[s] = "set" /\ \A j \in s + 1..i : response[j] = "row"
  BY ResponseFacts DEF NativeTypeOK
<1>2. SUFFICES ASSUME NEW j \in (pos + 1)..m, j \in Items PROVE FALSE
  OBVIOUS
<1>3. j \in 1..Len(response) /\ response[j] \in {"set", "row"} /\ pos < j /\ j <= m
  BY <1>1, <1>2 DEF Items, Positions
<1>4. CASE response[j] = "set"
  BY <1>1, <1>3, <1>4 DEF Upcoming
<1>5. CASE response[j] = "row"
  <2>1. PICK s \in 1..(j - 1) : response[s] = "set" /\ \A k \in s + 1..j : response[k] = "row"
    BY <1>1, <1>3, <1>5
  <2>2. CASE s <= pos
    <3>1. response[pos + 1] = "row" /\ pos < Len(response)
      BY <1>1, <1>3, <2>1, <2>2
    <3>2. QED BY <3>1 DEF NextIs
  <2>3. CASE s > pos
    <3>1. s \in Upcoming({"set"})
      BY <1>1, <1>3, <2>1, <2>3 DEF Upcoming
    <3>2. QED BY <1>1, <1>3, <2>1, <3>1
  <2>4. QED BY <1>1, <2>1, <2>2, <2>3
<1>6. QED BY <1>3, <1>4, <1>5

-----------------------------------------------------------------------------
(* The generator *)

\* What the generator may do between two yields: it moves over no item.
GenStep ==
  /\ UNCHANGED response /\ NativeTypeOK' /\ Place' /\ Released' = Released
  /\ gen' # "start" /\ resultIndex' \in Nat /\ schema' \in Nat \cup {None}
  /\ gen' \in {"advancing", "fetching", "metadata", "row", "error", "done"}
  /\ gen' = "done" => ~Failing
  /\ Writing'

\* Reading up to token i passes no item if there is none before it.
LEMMA ReadSkips ==
  ASSUME TypeOK, ~AtYield, NEW i \in (pos + 1)..Len(response), ReadTo(i),
         \A j \in (pos + 1)..(i - 1) : j \notin Items,
         AtYield' <=> i \in Items
  PROVE  Released' = Released /\ NativeTypeOK' /\ pos' = i /\ response' = response
<1>1. Len(response) \in Nat /\ pos \in 0..Len(response) /\ response \in Responses
  BY ResponseFacts DEF TypeOK, NativeTypeOK
<1>2. pos' = i /\ response' = response /\ onRows' \in BOOLEAN
  BY <1>1 DEF ReadTo
<1>3. Items' = Items /\ \A j \in Items : j \in 1..Len(response)
  BY <1>2 DEF Items, Positions
<1>4. \A j : j \in Released <=> j \in Items /\ j <= pos
  BY DEF Released
<1>5. \A j : j \in Released' <=> j \in Items /\ j <= i /\ ~(i \in Items /\ j = i)
  BY <1>2, <1>3 DEF Released
<1>6. \A j : j \in Items /\ j <= pos <=> j \in Items /\ j <= i /\ ~(i \in Items /\ j = i)
  BY <1>1, <1>3
<1>7. \A j : j \in Released' <=> j \in Released
  BY <1>4, <1>5, <1>6
<1>8. Released' = Released
  BY <1>7 DEF Released
<1>9. NativeTypeOK'
  BY <1>1, <1>2 DEF NativeTypeOK
<1>10. QED BY <1>2, <1>8, <1>9

\* execute, with the loop test that follows it.
LEMMA ExecuteStep == ASSUME TypeOK, Place, Writing, Execute PROVE GenStep
<1>1. pos = 0 /\ ~AtYield /\ gen = "start"
  BY DEF Execute, Place, AtYield
<1>2. /\ Len(response) \in Nat /\ resultIndex \in Nat /\ schema \in Nat \cup {None}
      /\ NativeTypeOK
      /\ \A i \in 1..Len(response) : response[i] = "row" =>
           \E s \in 1..(i - 1) : response[s] = "set" /\ \A j \in s + 1..i : response[j] = "row"
  BY ResponseFacts DEF TypeOK, NativeTypeOK
<1>3. CASE AtEnd /\ UNCHANGED nativeVars /\ Continue("advancing")
  <2>1. /\ UNCHANGED <<response, pos, onRows, resultIndex, schema>> /\ gen' = "advancing"
        /\ pos = Len(response)
    BY <1>3 DEF Continue, nativeVars, AtEnd
  <2>2. Released' = Released
    BY <1>1, <2>1 DEF Released, AtYield, Items, Positions
  <2>3. Place'
    BY <1>1, <2>1 DEF Place, NextIs, Positions
  <2>4. NativeTypeOK'
    BY <1>2, <2>1 DEF NativeTypeOK
  <2>5. QED BY <1>2, <2>1, <2>2, <2>3, <2>4 DEF GenStep, Writing
<1>4. ASSUME NEW k \in {"set", "count", "silent", "error"}, ReadStatement(k),
             \/ k = "set" /\ EnterSet
             \/ k \in {"count", "silent"} /\ Continue("advancing")
             \/ k = "error" /\ Continue("error")
      PROVE  GenStep
  <2>1. /\ 1 \in (pos + 1)..Len(response) /\ response[1] = k /\ ReadTo(1) /\ Len(response) >= 1
    BY <1>1, <1>2, <1>4 DEF ReadStatement, NextIs
  <2>2. gen' = IF k = "set" THEN "metadata" ELSE IF k = "error" THEN "error" ELSE "advancing"
    BY <1>4 DEF EnterSet, Continue
  <2>3. 1 \in Items <=> k = "set"
    BY <1>4, <2>1 DEF Items, Positions
  <2>4. Released' = Released /\ NativeTypeOK' /\ pos' = 1 /\ response' = response
    <3>1. AtYield' <=> 1 \in Items
      BY <1>4, <2>2, <2>3 DEF AtYield
    <3>2. \A j \in (pos + 1)..(1 - 1) : j \notin Items
      BY <1>1
    <3>3. QED BY <1>1, <2>1, <3>1, <3>2, ReadSkips
  <2>5. resultIndex' \in Nat /\ schema' \in Nat \cup {None} /\ Writing'
    BY <1>2, <1>4, <2>2, <2>4 DEF EnterSet, Continue, Writing
  <2>6. Place'
    <3>1. ASSUME k \in {"count", "silent"}, NextIs({"row"})' PROVE FALSE
      <4>1. 2 \in 1..Len(response) /\ response[2] = "row"
        BY <1>2, <2>4, <3>1 DEF NextIs
      <4>2. PICK s \in 1..(2 - 1) : response[s] = "set"
        BY <1>2, <4>1
      <4>3. s = 1
        OBVIOUS
      <4>4. QED BY <2>1, <3>1, <4>2, <4>3
    <3>2. k \in {"count", "silent"} => ~NextIs({"row"})'
      BY <3>1
    <3>3. pos' \in Positions({k})'
      BY <1>2, <2>1, <2>4 DEF Positions
    <3>4. CASE k = "set"
      BY <2>1, <2>2, <2>4, <3>3, <3>4 DEF Place, Positions
    <3>5. CASE k = "error"
      BY <2>2, <3>3, <3>5 DEF Place
    <3>6. CASE k \in {"count", "silent"}
      BY <2>1, <2>2, <2>4, <3>2, <3>6 DEF Place, Positions
    <3>7. QED BY <3>4, <3>5, <3>6
  <2>7. QED BY <2>2, <2>4, <2>5, <2>6 DEF GenStep, Writing
<1>5. QED BY <1>3, <1>4 DEF Execute

\* advance_stream.
LEMMA AdvanceStep == ASSUME TypeOK, Place, Writing, Advance PROVE GenStep
<1>1. gen = "advancing" /\ ~AtYield /\ ~NextIs({"row"}) /\ pos \notin Positions({"error"})
  BY DEF Advance, Place, AtYield
<1>2. /\ Len(response) \in Nat /\ resultIndex \in Nat /\ schema \in Nat \cup {None}
      /\ NativeTypeOK /\ pos \in 0..Len(response)
  BY ResponseFacts DEF TypeOK, NativeTypeOK
<1>3. CASE Advanced /\ EnterSet
  <2>1. PICK i \in Upcoming({"set"}) : (\A j \in Upcoming({"set", "error"}) : i <= j) /\ ReadTo(i)
    BY <1>3 DEF Advanced
  <2>2. i \in (pos + 1)..Len(response) /\ response[i] = "set"
    BY <2>1 DEF Upcoming
  <2>3. \A j \in (pos + 1)..(i - 1) : j \notin Items
    <3>1. \A j \in Upcoming({"set"}) : i - 1 < j
      BY <1>2, <2>1, <2>2 DEF Upcoming
    <3>2. QED BY <1>1, <1>2, <2>2, <3>1, NoRowsBetween
  <2>4. gen' = "metadata" /\ resultIndex' = resultIndex /\ schema' = pos'
    BY <1>3 DEF EnterSet
  <2>5. i \in Items /\ i \in Positions({"set"})
    BY <1>2, <2>2 DEF Items, Positions
  <2>6. Released' = Released /\ NativeTypeOK' /\ pos' = i /\ response' = response
    <3>1. AtYield'
      BY <2>4 DEF AtYield
    <3>2. QED BY <1>1, <2>1, <2>2, <2>3, <2>5, <3>1, ReadSkips
  <2>7. Place'
    BY <2>2, <2>4, <2>5, <2>6 DEF Place, Positions
  <2>8. QED BY <1>2, <2>2, <2>4, <2>6, <2>7 DEF GenStep, Writing
<1>4. CASE AdvanceFails /\ Continue("error")
  <2>1. PICK i \in Upcoming({"error"}) : Upcoming({"set"}) = {} /\ ReadTo(i)
    BY <1>4 DEF AdvanceFails
  <2>2. i \in (pos + 1)..Len(response) /\ response[i] = "error"
    BY <2>1 DEF Upcoming
  <2>3. \A j \in (pos + 1)..(i - 1) : j \notin Items
    <3>1. i - 1 \in 0..Len(response)
      BY <1>2, <2>2
    <3>2. QED BY <1>1, <1>2, <2>1, <3>1, NoRowsBetween
  <2>4. gen' = "error" /\ resultIndex' = resultIndex /\ schema' = schema
    BY <1>4 DEF Continue
  <2>5. i \notin Items /\ i \in Positions({"error"})
    BY <1>2, <2>2 DEF Items, Positions
  <2>6. Released' = Released /\ NativeTypeOK' /\ pos' = i /\ response' = response
    <3>1. ~AtYield'
      BY <2>4 DEF AtYield
    <3>2. QED BY <1>1, <2>1, <2>2, <2>3, <2>5, <3>1, ReadSkips
  <2>7. Place'
    BY <2>2, <2>4, <2>5, <2>6 DEF Place, Positions
  <2>8. QED BY <1>2, <2>4, <2>6, <2>7 DEF GenStep, Writing
<1>5. CASE NoMoreSets /\ Continue("done")
  <2>1. /\ Upcoming({"set", "error"}) = {} /\ pos' = Len(response) /\ response' = response
        /\ gen' = "done" /\ resultIndex' = resultIndex /\ schema' = schema /\ onRows' \in BOOLEAN
    BY <1>5 DEF NoMoreSets, ReadTo, Continue
  <2>2. \A j \in (pos + 1)..Len(response) : j \notin Items
    <3>1. Upcoming({"set"}) = {}
      BY <2>1 DEF Upcoming
    <3>2. QED BY <1>1, <1>2, <3>1, NoRowsBetween
  <2>3. Items' = Items /\ \A j \in Items : j \in 1..Len(response)
    BY <2>1 DEF Items, Positions
  <2>4. Released' = Released
    <3>1. \A j : j \in Released <=> j \in Items /\ j <= pos
      BY <1>1 DEF Released
    <3>2. \A j : j \in Released' <=> j \in Items /\ j <= Len(response)
      BY <2>1, <2>3 DEF Released, AtYield
    <3>3. \A j : j \in Items /\ j <= pos <=> j \in Items /\ j <= Len(response)
      BY <1>2, <2>2, <2>3
    <3>4. \A j : j \in Released' <=> j \in Released
      BY <3>1, <3>2, <3>3
    <3>5. QED BY <3>4 DEF Released
  <2>5. ~Failing
    <3>1. ASSUME NEW i \in Positions({"error"}) PROVE FALSE
      <4>1. i \in 1..Len(response) /\ response[i] = "error" /\ i # pos
        BY <1>1, <3>1 DEF Positions
      <4>2. i = Len(response)
        BY <1>2, <4>1, ResponseFacts DEF NativeTypeOK
      <4>3. i \in Upcoming({"set", "error"})
        BY <1>2, <4>1, <4>2 DEF Upcoming
      <4>4. QED BY <2>1, <4>3
    <3>2. QED BY <3>1 DEF Failing
  <2>6. NativeTypeOK'
    BY <1>2, <2>1 DEF NativeTypeOK
  <2>7. Place'
    BY <2>1 DEF Place
  <2>8. QED BY <1>2, <2>1, <2>4, <2>5, <2>6, <2>7 DEF GenStep, Writing
<1>6. QED BY <1>3, <1>4, <1>5 DEF Advance

\* next_row_into.
LEMMA FetchStep == ASSUME TypeOK, Place, Writing, Fetch PROVE GenStep
<1>1. gen = "fetching" /\ ~AtYield /\ pos \in Items /\ pos \notin Positions({"error"})
  BY DEF Fetch, Place, AtYield
<1>2. /\ Len(response) \in Nat /\ resultIndex \in Nat /\ schema \in Nat \cup {None}
      /\ NativeTypeOK /\ pos \in 0..Len(response)
  BY ResponseFacts DEF TypeOK, NativeTypeOK
<1>3. ASSUME NEW k \in {"row", "error"}, NextIs({k}), ReadTo(pos + 1), Continue(k) PROVE GenStep
  <2>1. pos + 1 \in (pos + 1)..Len(response) /\ response[pos + 1] = k
    BY <1>2, <1>3 DEF NextIs
  <2>2. gen' = k /\ resultIndex' = resultIndex /\ schema' = schema
    BY <1>3 DEF Continue
  <2>3. pos + 1 \in Items <=> k = "row"
    BY <1>2, <1>3, <2>1 DEF Items, Positions
  <2>4. Released' = Released /\ NativeTypeOK' /\ pos' = pos + 1 /\ response' = response
    <3>1. AtYield' <=> pos + 1 \in Items
      BY <1>3, <2>2, <2>3 DEF AtYield
    <3>2. \A j \in (pos + 1)..((pos + 1) - 1) : j \notin Items
      BY <1>2
    <3>3. QED BY <1>1, <1>3, <2>1, <3>1, <3>2, ReadSkips
  <2>5. Place'
    <3>1. (pos + 1) \in 1..Len(response)
      BY <1>2, <2>1
    <3>2. QED BY <1>3, <2>1, <2>2, <2>4, <3>1 DEF Place, Positions
  <2>6. QED BY <1>1, <1>2, <1>3, <2>2, <2>4, <2>5 DEF GenStep, Writing
<1>4. CASE NoMoreRows /\ gen' = "advancing" /\ resultIndex' = resultIndex + 1 /\ UNCHANGED schema
  <2>1. ~NextIs({"row", "error"}) /\ onRows' = FALSE /\ UNCHANGED <<response, pos>>
    BY <1>4 DEF NoMoreRows
  <2>2. Released' = Released
    BY <1>1, <1>4, <2>1 DEF Released, AtYield, Items, Positions
  <2>3. NativeTypeOK'
    BY <1>2, <2>1 DEF NativeTypeOK
  <2>4. Place'
    BY <1>1, <1>4, <2>1 DEF Place, NextIs, Positions
  <2>5. QED BY <1>2, <1>4, <2>1, <2>2, <2>3, <2>4 DEF GenStep, Writing
<1>5. QED BY <1>3, <1>4 DEF Fetch, ReadRow, RowError

-----------------------------------------------------------------------------
(* Who receives the items *)

\* The positions of the rows that groups of rows hold.
AllAt(sets) == UNION {At(sets[k]) : k \in DOMAIN sets}

\* Being in one of the groups.
LEMMA AllAtIs ==
  ASSUME NEW sets, NEW i
  PROVE  i \in AllAt(sets) <=> \E k \in DOMAIN sets : i \in At(sets[k])
  BY DEF AllAt

\* A sequence of items that grows by one.
LEMMA AtAppend ==
  ASSUME NEW s \in Seq(Item), NEW item \in Item
  PROVE  At(Append(s, item)) = At(s) \cup {item.at}
<1>1. /\ Len(Append(s, item)) = Len(s) + 1 /\ Len(s) \in Nat
      /\ \A i \in 1..Len(s) : Append(s, item)[i] = s[i]
      /\ Append(s, item)[Len(s) + 1] = item
      /\ DOMAIN Append(s, item) = 1..(Len(s) + 1) /\ DOMAIN s = 1..Len(s)
  BY AppendProperties
<1>2. QED BY <1>1 DEF At

\* into_results keeps every row it is given, and metadata as an empty group.
LEMMA GroupedKeeps ==
  ASSUME NEW sets \in Seq(Seq(Item)), NEW item \in Item
  PROVE  /\ Grouped(sets, item) \in Seq(Seq(Item)) /\ Grouped(sets, item) # <<>>
         /\ AllAt(Grouped(sets, item)) =
              AllAt(sets) \cup (IF IsMetadata(item) THEN {} ELSE {item.at})
<1> DEFINE g == Grouped(sets, item)  n == Len(sets)
<1>1. n \in Nat /\ DOMAIN sets = 1..n /\ \A k \in 1..n : sets[k] \in Seq(Item)
  OBVIOUS
<1>2. CASE IsMetadata(item)
  <2>1. g = Append(sets, <<>>)
    BY <1>2 DEF Grouped
  <2>2. /\ g \in Seq(Seq(Item)) /\ DOMAIN g = 1..(n + 1) /\ g # <<>>
        /\ \A k \in 1..n : g[k] = sets[k]
        /\ g[n + 1] = <<>>
    BY <1>1, <2>1, AppendProperties
  <2>3. At(<<>>) = {}
    BY DEF At
  <2>4. ASSUME NEW i PROVE i \in AllAt(g) <=> i \in AllAt(sets)
    <3>1. i \in AllAt(g) <=> \E k \in 1..(n + 1) : i \in At(g[k])
      BY <2>2, AllAtIs
    <3>2. i \in AllAt(sets) <=> \E k \in 1..n : i \in At(sets[k])
      BY <1>1, AllAtIs
    <3>3. \A k : k \in 1..(n + 1) <=> k \in 1..n \/ k = n + 1
      BY ONLY <1>1
    <3>4. \A k \in 1..n : At(g[k]) = At(sets[k])
      BY <2>2
    <3>5. i \notin At(g[n + 1])
      BY <2>2, <2>3
    <3>6. QED BY ONLY <3>1, <3>2, <3>3, <3>4, <3>5
  <2>5. AllAt(g) = AllAt(sets)
    BY ONLY <2>4 DEF AllAt
  <2>6. QED BY ONLY <1>2, <2>2, <2>5
<1>3. CASE ~IsMetadata(item) /\ sets = <<>>
  <2>1. g = << <<item>> >>
    BY <1>3 DEF Grouped
  <2>2. AllAt(g) = {item.at} /\ AllAt(sets) = {}
    BY <1>3, <2>1 DEF AllAt, At
  <2>3. g \in Seq(Seq(Item)) /\ g # <<>>
    BY <2>1
  <2>4. QED BY <1>3, <2>2, <2>3
<1>4. CASE ~IsMetadata(item) /\ sets # <<>>
  <2>1. g = [sets EXCEPT ![n] = Append(@, item)] /\ n \in 1..n
    BY <1>1, <1>4 DEF Grouped
  <2>2. sets[n] \in Seq(Item) /\ Append(sets[n], item) \in Seq(Item)
    BY <1>1, <2>1
  <2>3. /\ g \in Seq(Seq(Item)) /\ DOMAIN g = 1..n /\ g # <<>>
        /\ \A k \in 1..n : k # n => g[k] = sets[k]
        /\ g[n] = Append(sets[n], item)
    <3>1. g = [sets EXCEPT ![n] = Append(sets[n], item)]
      BY <2>1
    <3>2. /\ g \in Seq(Seq(Item)) /\ Len(g) = n
          /\ \A k \in 1..n : g[k] = IF k = n THEN Append(sets[n], item) ELSE sets[k]
      BY ONLY sets \in Seq(Seq(Item)), <2>1, <2>2, <3>1, ExceptSeq
    <3> HIDE DEF g
    <3>3. DOMAIN g = 1..n
      BY <3>2
    <3>4. g # <<>>
      BY <1>1, <2>1, <3>2
    <3>5. QED BY <2>1, <3>2, <3>3, <3>4
  <2>4. At(g[n]) = At(sets[n]) \cup {item.at}
    BY <2>2, <2>3, AtAppend
  <2>5. ASSUME NEW i PROVE i \in AllAt(g) <=> i \in AllAt(sets) \cup {item.at}
    <3>1. i \in AllAt(g) <=> \E k \in 1..n : i \in At(g[k])
      BY <2>3, AllAtIs
    <3>2. i \in AllAt(sets) <=> \E k \in 1..n : i \in At(sets[k])
      BY <1>1, AllAtIs
    <3>3. i \in At(g[n]) <=> i \in At(sets[n]) \/ i = item.at
      BY <2>4
    <3>4. \A k \in 1..n : k # n => At(g[k]) = At(sets[k])
      BY <2>3
    <3>5. QED BY ONLY <2>1, <3>1, <3>2, <3>3, <3>4
  <2>6. AllAt(g) = AllAt(sets) \cup {item.at}
    BY ONLY <2>5 DEF AllAt
  <2>7. QED BY ONLY <1>4, <2>3, <2>6
<1>5. QED BY <1>2, <1>3, <1>4

\* The generator's yield point, when its item leaves it.
LEMMA Leaves ==
  ASSUME SInv, AtYield, ~AtYield', UNCHANGED <<response, pos>>
  PROVE  /\ Yielded \in Item /\ Yielded.at = pos /\ pos \in Items /\ pos \in Nat
         /\ Released' = Released \cup {pos} /\ pos \notin Released
         /\ \A i \in Released : i \in Nat /\ i < pos
<1>1. /\ schema \in Nat /\ resultIndex \in Nat /\ pos \in Nat /\ Len(response) \in Nat
  BY ResponseFacts DEF SInv, Writing, AtYield, TypeOK, NativeTypeOK
<1>2. pos \in Items
  BY DEF SInv, Place, AtYield, Items, Positions
<1>3. Items' = Items /\ \A i \in Items : i \in 1..Len(response)
  BY DEF Items, Positions
<1>4. \A i : i \in Released <=> i \in Items /\ i <= pos /\ i # pos
  BY DEF Released
<1>5. \A i : i \in Released' <=> i \in Items /\ i <= pos
  BY <1>3 DEF Released
<1>6. Released' = Released \cup {pos}
  <2>1. \A i : i \in Released' <=> i \in Released \cup {pos}
    BY <1>1, <1>2, <1>4, <1>5
  <2>2. QED BY <2>1
<1>7. \A i \in Released : i \in Nat /\ i < pos
  BY <1>1, <1>3, <1>4
<1>8. QED BY <1>1, <1>2, <1>4, <1>6, <1>7 DEF Yielded, Item

\* The generator's own steps leave the caller's view alone.
LEMMA GenerateKeeps == ASSUME SInv, Generate PROVE SInv'
<1>1. GenStep /\ gen # "done"
  <2>1. TypeOK /\ Place /\ Writing
    BY DEF SInv
  <2>2. QED BY <2>1, ExecuteStep, AdvanceStep, FetchStep DEF Generate, Execute, Advance, Fetch
<1>2. /\ UNCHANGED <<peeked, columns, poll, taken, results, reported>>
      /\ peeked = None /\ poll \in {"next", "columns", "collect"}
  BY DEF Generate, Running, callerVars
<1>3. TypeOK'
  BY <1>1, <1>2 DEF SInv, TypeOK, GenStep
<1>4. Place' /\ Writing' /\ PeekedLast'
  BY <1>1, <1>2 DEF GenStep, PeekedLast
<1>5. Failing' = Failing /\ Sets' = Sets /\ Released' = Released
  BY <1>1 DEF GenStep, Failing, Sets, Positions
<1>6. Reporting' /\ CollectLast'
  BY <1>1, <1>2, <1>5 DEF SInv, Reporting, CollectLast, GenStep
<1>7. NothingLost'
  <2>1. At(taken)' = At(taken) /\ Collected' = Collected /\ Peeked' = Peeked
    BY <1>2 DEF At, Collected, Peeked
  <2>2. QED BY ONLY SInv, <1>2, <1>5, <2>1 DEF SInv, NothingLost, At
<1>8. QED BY <1>3, <1>4, <1>6, <1>7 DEF SInv

\* What a poll gets, from peeked or from the yield point, is the last item.
LEMMA ObtainGets ==
  ASSUME SInv, Obtain
  PROVE  /\ Found \in Item /\ Found.at = pos /\ pos \in Items /\ pos \in Nat
         /\ Released' = Released \cup {pos} /\ Peeked \subseteq {pos} /\ Peeked' = {}
         /\ \A i \in At(taken) : i \in Nat /\ i < pos
         /\ gen \in {"metadata", "row", "fetching"} /\ gen' = "fetching" /\ peeked' = None
         /\ UNCHANGED <<response, pos, onRows, resultIndex, schema>>
         /\ NativeTypeOK' /\ Place' /\ Writing' /\ Items' = Items /\ Sets' = Sets /\ Failing' = Failing
<1>1. /\ UNCHANGED <<response, pos, onRows, resultIndex, schema>> /\ peeked' = None /\ Peeked' = {}
      /\ gen \in {"metadata", "row", "fetching"} /\ gen' = "fetching"
  BY DEF Obtain, nativeVars, AtYield, Peeked, SInv, PeekedLast
<1>2. Items' = Items /\ Sets' = Sets /\ Failing' = Failing
  BY <1>1 DEF Items, Sets, Failing, Positions
<1>3. /\ Found \in Item /\ Found.at = pos /\ pos \in Items /\ pos \in Nat
      /\ Released' = Released \cup {pos} /\ Peeked \subseteq {pos}
      /\ \A i \in At(taken) : i \in Nat /\ i < pos
  <2>1. CASE peeked # None
    <3>1. gen = "fetching" /\ peeked.at = pos /\ Found = peeked /\ Peeked = {pos} /\ peeked \in Item
      BY <2>1 DEF SInv, PeekedLast, Found, Peeked, TypeOK
    <3>2. Released' = Released
      BY <1>1, <1>2, <3>1 DEF Released, AtYield
    <3>3. pos \in Released /\ \A i \in At(taken) : i \in Released /\ i < pos
      BY ONLY SInv, <3>1 DEF SInv, NothingLost
    <3>4. \A i \in Released : i \in Items /\ i \in Nat
      BY DEF Released, Items, Positions
    <3>5. QED BY <3>1, <3>2, <3>3, <3>4
  <2>2. CASE peeked = None
    <3>1. AtYield /\ Found = Yielded /\ Peeked = {} /\ ~AtYield'
      BY <1>1, <2>2 DEF Obtain, Found, Peeked, AtYield
    <3>2. /\ Yielded \in Item /\ Yielded.at = pos /\ pos \in Items /\ pos \in Nat
          /\ Released' = Released \cup {pos} /\ \A i \in Released : i \in Nat /\ i < pos
      BY <1>1, <3>1, Leaves
    <3>3. \A i \in At(taken) : i \in Released
      BY ONLY SInv DEF SInv, NothingLost
    <3>4. QED BY <3>1, <3>2, <3>3
  <2>3. QED BY <2>1, <2>2
<1>4. NativeTypeOK' /\ Writing'
  BY <1>1 DEF SInv, TypeOK, NativeTypeOK, Writing
<1>5. Place'
  <2>1. pos \notin Positions({"error"})
    BY <1>1 DEF SInv, Place
  <2>2. QED BY <1>1, <1>2, <1>3, <2>1 DEF Place, Positions
<1>6. QED BY <1>1, <1>2, <1>3, <1>4, <1>5

\* poll_next.
LEMMA TakeKeeps == ASSUME SInv, Take PROVE SInv'
<1>1. /\ poll = "next" /\ Obtain /\ taken' = Append(taken, Found) /\ poll' = "none"
      /\ results' = results /\ reported' = reported
      /\ columns' = IF IsMetadata(Found) THEN Found.schema ELSE columns
  BY DEF Take, Describe
<1>2. /\ Found \in Item /\ Found.at = pos /\ pos \in Items /\ pos \in Nat
      /\ Released' = Released \cup {pos} /\ Peeked \subseteq {pos} /\ Peeked' = {}
      /\ \A i \in At(taken) : i \in Nat /\ i < pos
      /\ gen \in {"metadata", "row", "fetching"} /\ gen' = "fetching" /\ peeked' = None
      /\ UNCHANGED <<response, pos, onRows, resultIndex, schema>>
      /\ NativeTypeOK' /\ Place' /\ Writing' /\ Sets' = Sets
  BY <1>1, ObtainGets
<1>3. results = <<>> /\ results' = <<>> /\ taken \in Seq(Item)
  BY <1>1 DEF SInv, CollectLast, TypeOK
<1>4. TypeOK'
  <2>1. taken' \in Seq(Item)
    BY <1>1, <1>2, <1>3
  <2>2. columns' \in Nat \cup {None}
    BY <1>1, <1>2 DEF SInv, TypeOK, Item
  <2>3. QED BY <1>1, <1>2, <2>1, <2>2 DEF SInv, TypeOK
<1>5. Reporting' /\ PeekedLast' /\ CollectLast'
  BY <1>1, <1>2, <1>3 DEF SInv, Reporting, PeekedLast, CollectLast
<1>6. NothingLost'
  <2>1. At(taken)' = At(taken) \cup {pos}
    BY <1>1, <1>2, <1>3, AtAppend DEF At
  <2>2. Collected = {} /\ Collected' = {}
    BY <1>3 DEF Collected
  <2>3. \A i, j \in DOMAIN taken' : i < j => taken'[i].at < taken'[j].at
    <3>1. /\ DOMAIN taken = 1..Len(taken) /\ DOMAIN taken' = 1..(Len(taken) + 1) /\ Len(taken) \in Nat
          /\ \A i \in 1..Len(taken) : taken'[i] = taken[i]
          /\ taken'[Len(taken) + 1] = Found
      BY <1>1, <1>2, <1>3, AppendProperties
    <3>2. \A i \in 1..Len(taken) : taken[i].at < pos
      BY <1>2, <3>1 DEF At
    <3>3. \A i, j \in DOMAIN taken : i < j => taken[i].at < taken[j].at
      BY DEF SInv, NothingLost
    <3>4. QED BY <1>2, <3>1, <3>2, <3>3
  <2>4. At(taken) \cup Collected \cup Peeked \subseteq Released
    BY DEF SInv, NothingLost
  <2>5. \A i \in Released \ (At(taken) \cup Collected \cup Peeked) : i \in Sets /\ results # <<>>
    BY DEF SInv, NothingLost
  <2>6. QED BY ONLY <1>2, <1>3, <2>1, <2>2, <2>3, <2>4, <2>5 DEF NothingLost
<1>7. QED BY <1>2, <1>4, <1>5, <1>6 DEF SInv

\* into_results.
LEMMA CollectKeeps == ASSUME SInv, Collect PROVE SInv'
<1>1. /\ poll = "collect" /\ Obtain /\ results' = Grouped(results, Found)
      /\ taken' = taken /\ poll' = poll /\ reported' = reported
      /\ columns' = IF IsMetadata(Found) THEN Found.schema ELSE columns
  BY DEF Collect, Describe
<1>2. /\ Found \in Item /\ Found.at = pos /\ pos \in Items /\ pos \in Nat
      /\ Released' = Released \cup {pos} /\ Peeked \subseteq {pos} /\ Peeked' = {}
      /\ \A i \in At(taken) : i \in Nat /\ i < pos
      /\ gen \in {"metadata", "row", "fetching"} /\ gen' = "fetching" /\ peeked' = None
      /\ UNCHANGED <<response, pos, onRows, resultIndex, schema>>
      /\ NativeTypeOK' /\ Place' /\ Writing' /\ Sets' = Sets
  BY <1>1, ObtainGets
<1>3. /\ results' \in Seq(Seq(Item)) /\ results' # <<>>
      /\ AllAt(results') = AllAt(results) \cup (IF IsMetadata(Found) THEN {} ELSE {pos})
  <2>1. results \in Seq(Seq(Item))
    BY DEF SInv, TypeOK
  <2>2. QED BY <1>1, <1>2, <2>1, GroupedKeeps
<1>4. TypeOK'
  <2>1. columns' \in Nat \cup {None}
    BY <1>1, <1>2 DEF SInv, TypeOK, Item
  <2>2. QED BY <1>1, <1>2, <1>3, <2>1 DEF SInv, TypeOK
<1>5. Reporting' /\ PeekedLast' /\ CollectLast'
  BY <1>1, <1>2 DEF SInv, Reporting, PeekedLast, CollectLast
<1>6. NothingLost'
  <2>1. At(taken)' = At(taken)
    BY <1>1 DEF At
  <2>2. Collected' = Collected \cup (IF IsMetadata(Found) THEN {} ELSE {pos})
    BY <1>3 DEF Collected, AllAt, At
  <2>3. IsMetadata(Found) => pos \in Sets
    BY <1>2 DEF IsMetadata, Sets, Items, Positions
  <2>4. At(taken) \cup Collected \cup Peeked \subseteq Released
    BY DEF SInv, NothingLost
  <2>5. \A i \in Released \ (At(taken) \cup Collected \cup Peeked) : i \in Sets
    BY DEF SInv, NothingLost
  <2>6. \A i, j \in DOMAIN taken' : i < j => taken'[i].at < taken'[j].at
    BY <1>1 DEF SInv, NothingLost
  <2>7. \A i \in At(taken), j \in Collected : i < j
    BY DEF SInv, NothingLost
  <2>8. QED BY ONLY <1>2, <1>3, <2>1, <2>2, <2>3, <2>4, <2>5, <2>6, <2>7 DEF NothingLost
<1>7. QED BY <1>2, <1>4, <1>5, <1>6 DEF SInv

\* columns() keeps what it looks at.
LEMMA PeekKeeps == ASSUME SInv, Peek, None \notin Item PROVE SInv'
<1>1. /\ poll = "columns" /\ peeked = None /\ AtYield /\ peeked' = Yielded
      /\ gen' = "fetching" /\ poll' = "none"
      /\ UNCHANGED <<response, pos, onRows, resultIndex, schema, taken, results, reported>>
      /\ columns' = IF IsMetadata(Yielded) THEN Yielded.schema ELSE columns
  BY DEF Peek, Describe, nativeVars
<1>2. /\ Yielded \in Item /\ Yielded.at = pos /\ pos \in Items /\ pos \in Nat
      /\ Released' = Released \cup {pos} /\ pos \notin Released
      /\ \A i \in Released : i \in Nat /\ i < pos
  <2>1. ~AtYield'
    BY <1>1 DEF AtYield
  <2>2. QED BY <1>1, <2>1, Leaves
<1>3. Items' = Items /\ Sets' = Sets
  BY <1>1 DEF Items, Sets, Positions
<1>4. results = <<>> /\ results' = <<>>
  BY <1>1 DEF SInv, CollectLast
<1>5. TypeOK'
  <2>1. columns' \in Nat \cup {None}
    BY <1>1, <1>2 DEF SInv, TypeOK, Item
  <2>2. QED BY <1>1, <1>2, <2>1 DEF SInv, TypeOK, NativeTypeOK
<1>6. Place' /\ Writing'
  <2>1. pos \notin Positions({"error"})
    BY <1>1 DEF SInv, Place, AtYield
  <2>2. schema \in Nat
    BY <1>1 DEF SInv, Writing, AtYield
  <2>3. QED BY <1>1, <1>2, <1>3, <2>1, <2>2 DEF Place, Positions, Writing
<1>7. Reporting' /\ PeekedLast' /\ CollectLast'
  BY <1>1, <1>2, <1>4 DEF SInv, Reporting, PeekedLast, CollectLast, AtYield
<1>8. NothingLost'
  <2>1. At(taken)' = At(taken) /\ Collected = {} /\ Collected' = {}
    BY <1>1, <1>4 DEF At, Collected
  <2>2. Peeked = {} /\ Peeked' = {pos}
    BY <1>1, <1>2 DEF Peeked
  <2>3. At(taken) \subseteq Released
    BY DEF SInv, NothingLost
  <2>4. \A i \in Released \ (At(taken) \cup Collected \cup Peeked) : i \in Sets /\ results # <<>>
    BY DEF SInv, NothingLost
  <2>5. \A i, j \in DOMAIN taken' : i < j => taken'[i].at < taken'[j].at
    BY <1>1 DEF SInv, NothingLost
  <2>6. QED BY ONLY <1>2, <1>3, <1>4, <2>1, <2>2, <2>3, <2>4, <2>5 DEF NothingLost
<1>9. QED BY <1>5, <1>6, <1>7, <1>8 DEF SInv

\* What stays when neither the generator's place nor an item moves.
LEMMA ItemsStay ==
  ASSUME SInv, UNCHANGED <<response, pos, onRows, peeked, taken, results>>, AtYield' = AtYield
  PROVE  NothingLost' /\ NativeTypeOK' /\ Failing' = Failing
<1>1. Items' = Items /\ Sets' = Sets /\ Failing' = Failing
  BY DEF Items, Sets, Failing, Positions
<1>2. Released' = Released
  BY <1>1 DEF Released
<1>3. At(taken)' = At(taken) /\ Collected' = Collected /\ Peeked' = Peeked
  BY DEF At, Collected, Peeked
<1>4. NothingLost'
  BY <1>1, <1>2, <1>3 DEF SInv, NothingLost
<1>5. QED BY <1>1, <1>4 DEF SInv, TypeOK, NativeTypeOK

\* The end of the stream, or its error, reaches the future that is polled.
LEMMA ReportKeeps == ASSUME SInv, ReportError \/ ReportEnd PROVE SInv'
<1>1. /\ UNCHANGED <<response, pos, onRows, resultIndex, schema, peeked, taken, results>>
      /\ peeked = None /\ poll \in {"next", "columns", "collect"} /\ gen' = "done"
      /\ poll' = IF poll = "collect" THEN "consumed" ELSE "none"
  BY DEF ReportError, ReportEnd, Running, Finished, genVars, nativeVars
<1>2. NothingLost' /\ NativeTypeOK' /\ Failing' = Failing
  <2>1. AtYield' = AtYield
    BY DEF ReportError, ReportEnd, AtYield, genVars
  <2>2. QED BY <1>1, <2>1, ItemsStay
<1>3. pos = Len(response)
  <2>1. CASE ReportError
    BY <2>1, ResponseFacts DEF SInv, Place, TypeOK, NativeTypeOK, ReportError, Positions
  <2>2. CASE ReportEnd
    BY <2>2 DEF SInv, Place, ReportEnd
  <2>3. QED BY <2>1, <2>2
<1>4. reported' \in Nat /\ reported' = IF Failing THEN 1 ELSE 0
  <2>1. CASE ReportError
    <3>1. Failing
      BY <2>1 DEF SInv, Place, ReportError, Failing
    <3>2. QED BY <2>1, <3>1 DEF SInv, Reporting, ReportError
  <2>2. CASE ReportEnd
    BY <2>2 DEF SInv, Reporting, ReportEnd
  <2>3. QED BY <2>1, <2>2
<1>5. columns' \in Nat \cup {None}
  BY DEF ReportError, ReportEnd, SInv, TypeOK
<1>6. TypeOK'
  BY <1>1, <1>2, <1>4, <1>5 DEF SInv, TypeOK
<1>7. Place' /\ Writing'
  BY <1>1, <1>3 DEF Place, Writing
<1>8. Reporting' /\ PeekedLast' /\ CollectLast'
  BY <1>1, <1>2, <1>4 DEF SInv, Reporting, PeekedLast, CollectLast
<1>9. QED BY <1>2, <1>6, <1>7, <1>8 DEF SInv

\* A poll that starts, or is dropped, moves nothing.
LEMMA CallerKeeps ==
  ASSUME SInv, DropPoll \/ \E future \in {"next", "columns", "collect"} : StartPoll(future)
  PROVE  SInv'
<1>1. /\ UNCHANGED <<response, pos, onRows, gen, resultIndex, schema, peeked, columns,
                     taken, results, reported>>
      /\ poll \in {"none", "next", "columns"} /\ poll' \in {"none", "next", "columns", "collect"}
  BY DEF DropPoll, StartPoll, nativeVars, genVars
<1>2. NothingLost' /\ NativeTypeOK' /\ Failing' = Failing
  BY <1>1, ItemsStay DEF AtYield
<1>3. TypeOK'
  BY <1>1, <1>2 DEF SInv, TypeOK
<1>4. Place' /\ Writing'
  BY <1>1 DEF SInv, Place, Writing, Positions, Items, NextIs
<1>5. Reporting' /\ PeekedLast' /\ CollectLast'
  BY <1>1, <1>2 DEF SInv, Reporting, PeekedLast, CollectLast
<1>6. QED BY <1>2, <1>3, <1>4, <1>5 DEF SInv

-----------------------------------------------------------------------------
(* Together *)

LEMMA InitHolds == ASSUME Init, None \notin Item PROVE SInv
<1>1. /\ response \in Responses /\ pos = 0 /\ onRows = FALSE /\ gen = "start" /\ resultIndex = 0
      /\ schema = None /\ peeked = None /\ columns = None /\ poll = "none"
      /\ taken = <<>> /\ results = <<>> /\ reported = 0
  BY DEF Init, NativeInit
<1>2. Len(response) \in Nat
  BY <1>1, ResponseFacts
<1>3. TypeOK
  <2>1. taken \in Seq(Item) /\ results \in Seq(Seq(Item))
    BY <1>1
  <2>2. NativeTypeOK
    <3>1. pos \in 0..Len(response)
      BY ONLY <1>1, <1>2
    <3>2. onRows \in BOOLEAN
      BY ONLY <1>1
    <3>3. QED BY <1>1, <3>1, <3>2 DEF NativeTypeOK
  <2>3. /\ gen \in {"start", "advancing", "fetching", "metadata", "row", "error", "done"}
        /\ resultIndex \in Nat /\ schema \in Nat \cup {None} /\ peeked \in Item \cup {None}
        /\ columns \in Nat \cup {None} /\ reported \in Nat
        /\ poll \in {"none", "next", "columns", "collect", "consumed"}
    BY ONLY <1>1
  <2>4. QED BY ONLY <2>1, <2>2, <2>3 DEF TypeOK
<1>4. Place /\ Writing /\ Reporting /\ PeekedLast /\ CollectLast
  BY <1>1 DEF Place, Writing, Reporting, PeekedLast, CollectLast, Positions
<1>5. NothingLost
  <2>1. Released = {}
    BY <1>1 DEF Released, Items, Positions
  <2>2. At(taken) = {} /\ Collected = {} /\ Peeked = {}
    BY <1>1 DEF At, Collected, Peeked
  <2>3. QED BY <1>1, <2>1, <2>2 DEF NothingLost
<1>6. QED BY <1>3, <1>4, <1>5 DEF SInv

LEMMA StepKeeps ==
  ASSUME SInv, Next, None \notin Item
  PROVE  SInv'
  BY GenerateKeeps, TakeKeeps, CollectKeeps, PeekKeeps, ReportKeeps, CallerKeeps DEF Next, Ready

\* What the invariant says about errors.
LEMMA ErrorsReported == ASSUME SInv PROVE ErrorOnce
<1>1. reported = 1 => gen = "done" /\ Failing
  BY DEF SInv, Reporting
<1>2. gen = "done" => Released = Items
  BY ResponseFacts DEF SInv, Place, TypeOK, NativeTypeOK, Released, AtYield, Items, Positions
<1>3. QED BY <1>1, <1>2 DEF SInv, Reporting, ErrorOnce

-----------------------------------------------------------------------------
(* What describes the items *)

LEMMA SetsAreFinite ==
  ASSUME NativeTypeOK
  PROVE  /\ \A s \in Sets : s \in Nat /\ s >= 1 /\ s <= Len(response)
         /\ \A i : IsFiniteSet(Before(i)) /\ IsFiniteSet(UpTo(i))
<1>1. Len(response) \in Nat
  BY ResponseFacts DEF NativeTypeOK
<1>2. Sets \subseteq 1..Len(response)
  BY DEF Sets, Positions
<1>3. IsFiniteSet(1..Len(response))
  BY <1>1, FS_Interval
<1>4. \A i : Before(i) \subseteq 1..Len(response) /\ UpTo(i) \subseteq 1..Len(response)
  BY <1>2 DEF Before, UpTo
<1>5. QED BY <1>1, <1>2, <1>3, <1>4, FS_Subset

\* The set of an item is the last one up to it.
LEMMA SetOfIs ==
  ASSUME NativeTypeOK, NEW i, NEW s \in UpTo(i), \A t \in UpTo(i) : t <= s
  PROVE  SetOf(i) = s
<1>1. \A t \in Sets : t \in Nat
  BY SetsAreFinite
<1>2. s \in Sets /\ s <= i /\ \A t \in Sets : t <= i => t <= s
  BY DEF UpTo
<1>3. \A t \in Sets : t <= i /\ (\A u \in Sets : u <= i => u <= t) => t = s
  BY <1>1, <1>2
<1>4. QED BY <1>2, <1>3 DEF SetOf, Sets

\* Entering the next result set.
LEMMA EnterFits ==
  ASSUME NativeTypeOK, response' = response, resultIndex = Cardinality(UpTo(pos)), EnterSet,
         NEW i \in Sets, pos < i, pos' = i, \A t \in Sets : t < i => t <= pos
  PROVE  WriterFits'
<1>1. gen' = "metadata" /\ schema' = i /\ resultIndex' = resultIndex /\ Sets' = Sets
  BY DEF EnterSet, Sets, Positions
<1>2. i \in Nat /\ pos \in Nat /\ \A t \in Sets : t \in Nat
  BY SetsAreFinite, ResponseFacts DEF NativeTypeOK
<1>3. Before(i) = UpTo(pos)
  <2>1. \A t \in Sets : t < i <=> t <= pos
    BY <1>2
  <2>2. QED BY <2>1 DEF Before, UpTo
<1>4. Before(i)' = Before(i) /\ UpTo(i)' = UpTo(i)
  BY <1>1 DEF Before, UpTo
<1>5. i \in UpTo(i) /\ \A t \in UpTo(i) : t <= i
  BY <1>2 DEF UpTo
<1>6. UpTo(pos)' = UpTo(i) /\ Before(schema)' = Before(i)
  BY <1>1 DEF Before, UpTo
<1>7. QED BY <1>1, <1>3, <1>5, <1>6 DEF WriterFits

LEMMA ExecuteFits == ASSUME SInv, WriterFits, Execute PROVE WriterFits'
<1>1. /\ pos = 0 /\ gen = "start" /\ NativeTypeOK /\ Len(response) \in Nat
      /\ resultIndex = Cardinality(UpTo(pos))
  BY ResponseFacts DEF SInv, Place, TypeOK, NativeTypeOK, Execute, WriterFits
<1>2. \A t \in Sets : t \in Nat /\ t >= 1
  BY <1>1, SetsAreFinite
<1>3. CASE ReadStatement("set") /\ EnterSet
  <2>1. 1 \in Sets /\ pos' = 1 /\ response' = response
    BY <1>1, <1>3 DEF ReadStatement, NextIs, ReadTo, Sets, Positions
  <2>2. QED BY <1>1, <1>2, <1>3, <2>1, EnterFits
<1>4. ASSUME NEW k \in {"count", "silent"}, ReadStatement(k), Continue("advancing")
      PROVE  WriterFits'
  <2>1. /\ 1 \notin Sets /\ pos' = 1 /\ response' = response /\ gen' = "advancing"
        /\ resultIndex' = resultIndex
    BY <1>1, <1>4 DEF ReadStatement, NextIs, ReadTo, Sets, Positions, Continue
  <2>2. UpTo(pos)' = UpTo(pos)
    BY <1>1, <1>2, <2>1 DEF UpTo, Sets, Positions
  <2>3. QED BY <1>1, <2>1, <2>2 DEF WriterFits
<1>5. CASE ReadStatement("error") /\ Continue("error")
  BY <1>5 DEF Continue, WriterFits
<1>6. CASE AtEnd /\ UNCHANGED nativeVars /\ Continue("advancing")
  <2>1. gen' = "advancing" /\ UNCHANGED <<response, pos, resultIndex>>
    BY <1>6 DEF Continue, nativeVars
  <2>2. UpTo(pos)' = UpTo(pos)
    BY <2>1 DEF UpTo, Sets, Positions
  <2>3. QED BY <1>1, <2>1, <2>2 DEF WriterFits
<1>7. QED BY <1>3, <1>4, <1>5, <1>6 DEF Execute

LEMMA AdvanceFits == ASSUME SInv, WriterFits, Advance PROVE WriterFits'
<1>1. /\ NativeTypeOK /\ Len(response) \in Nat /\ pos \in 0..Len(response)
      /\ resultIndex = Cardinality(UpTo(pos)) /\ pos \notin Positions({"error"})
  BY ResponseFacts DEF SInv, Place, TypeOK, NativeTypeOK, Advance, WriterFits
<1>2. CASE Advanced /\ EnterSet
  <2>1. PICK i \in Upcoming({"set"}) : (\A j \in Upcoming({"set", "error"}) : i <= j) /\ ReadTo(i)
    BY <1>2 DEF Advanced
  <2>2. i \in Sets /\ pos < i /\ i \in Nat /\ pos' = i /\ response' = response
    BY <1>1, <2>1 DEF Upcoming, ReadTo, Sets, Positions
  <2>3. \A t \in Sets : t < i => t <= pos
    BY <1>1, <2>1, <2>2 DEF Upcoming, Sets, Positions
  <2>4. QED BY <1>1, <1>2, <2>2, <2>3, EnterFits
<1>3. CASE gen' \in {"error", "done"}
  BY <1>3 DEF WriterFits
<1>4. QED BY <1>2, <1>3 DEF Advance, Continue

LEMMA FetchFits == ASSUME SInv, WriterFits, Fetch PROVE WriterFits'
<1>1. /\ NativeTypeOK /\ Len(response) \in Nat /\ pos \in 0..Len(response)
      /\ schema \in UpTo(pos) /\ (\A t \in UpTo(pos) : t <= schema)
      /\ resultIndex = Cardinality(Before(schema))
  BY ResponseFacts DEF SInv, Place, TypeOK, NativeTypeOK, Fetch, WriterFits
<1>2. (\A t \in Sets : t \in Nat) /\ schema \in Sets /\ schema <= pos
  BY <1>1, SetsAreFinite DEF UpTo
<1>3. CASE ReadRow /\ Continue("row")
  <2>1. /\ pos + 1 \notin Sets /\ pos' = pos + 1 /\ UNCHANGED <<response, schema, resultIndex>>
        /\ gen' = "row"
    BY <1>1, <1>3 DEF ReadRow, NextIs, ReadTo, Continue, Sets, Positions
  <2>2. UpTo(pos)' = UpTo(pos) /\ Before(schema)' = Before(schema)
    BY <1>1, <1>2, <2>1 DEF UpTo, Before, Sets, Positions
  <2>3. QED BY <1>1, <2>1, <2>2 DEF WriterFits
<1>4. CASE RowError /\ Continue("error")
  BY <1>4 DEF Continue, WriterFits
<1>5. CASE NoMoreRows /\ gen' = "advancing" /\ resultIndex' = resultIndex + 1 /\ UNCHANGED schema
  <2>1. UNCHANGED <<response, pos>>
    BY <1>5 DEF NoMoreRows
  <2>2. UpTo(pos) = Before(schema) \cup {schema} /\ schema \notin Before(schema)
    BY <1>1, <1>2 DEF UpTo, Before
  <2>3. Cardinality(UpTo(pos)) = resultIndex + 1
    BY <1>1, <2>2, SetsAreFinite, FS_AddElement
  <2>4. UpTo(pos)' = UpTo(pos)
    BY <2>1 DEF UpTo, Sets, Positions
  <2>5. QED BY <1>5, <2>3, <2>4 DEF WriterFits
<1>6. QED BY <1>3, <1>4, <1>5 DEF Fetch

\* The item at the yield point is described by the set it belongs to.
LEMMA YieldedFits ==
  ASSUME SInv, WriterFits, AtYield
  PROVE  Fits(Yielded) /\ Yielded.at = pos /\ Yielded.schema = SetOf(pos)
<1>1. NativeTypeOK /\ schema \in UpTo(pos) /\ (\A t \in UpTo(pos) : t <= schema)
  BY DEF SInv, TypeOK, WriterFits, AtYield
<1>2. SetOf(pos) = schema
  BY <1>1, SetOfIs
<1>3. QED BY <1>2 DEF WriterFits, AtYield, Fits, Yielded

\* into_results adds no item but the one it is given.
LEMMA GroupedItems ==
  ASSUME NEW sets \in Seq(Seq(Item)), NEW item \in Item, NEW k \in DOMAIN Grouped(sets, item),
         NEW i \in DOMAIN Grouped(sets, item)[k]
  PROVE  \/ Grouped(sets, item)[k][i] = item
         \/ \E l \in DOMAIN sets : \E j \in DOMAIN sets[l] :
              Grouped(sets, item)[k][i] = sets[l][j]
<1> DEFINE g == Grouped(sets, item)  n == Len(sets)
<1>1. n \in Nat /\ DOMAIN sets = 1..n /\ \A l \in 1..n : sets[l] \in Seq(Item)
  OBVIOUS
<1>2. CASE IsMetadata(item)
  <2>1. g = Append(sets, <<>>)
    BY <1>2 DEF Grouped
  <2>2. /\ DOMAIN g = 1..(n + 1) /\ g[n + 1] = <<>>
        /\ \A l \in 1..n : g[l] = sets[l]
    BY <1>1, <2>1, AppendProperties
  <2>3. CASE k = n + 1
    BY <2>2, <2>3
  <2>4. CASE k # n + 1
    <3>1. k \in 1..n /\ g[k] = sets[k]
      BY <1>1, <2>2, <2>4
    <3>2. QED BY <1>1, <3>1
  <2>5. QED BY <2>3, <2>4
<1>3. CASE ~IsMetadata(item) /\ sets = <<>>
  <2>1. g = << <<item>> >>
    BY <1>3 DEF Grouped
  <2>2. k = 1 /\ i = 1
    BY <2>1
  <2>3. QED BY <2>1, <2>2
<1>4. CASE ~IsMetadata(item) /\ sets # <<>>
  <2>1. g = [sets EXCEPT ![n] = Append(@, item)] /\ n \in 1..n
    BY <1>1, <1>4 DEF Grouped
  <2>2. k \in 1..n /\ (k # n => g[k] = sets[k]) /\ (k = n => g[k] = Append(sets[n], item))
    BY <1>1, <2>1
  <2>3. CASE k # n
    BY <1>1, <2>2, <2>3
  <2>4. CASE k = n
    <3>1. /\ sets[n] \in Seq(Item) /\ Len(sets[n]) \in Nat /\ DOMAIN sets[n] = 1..Len(sets[n])
          /\ i \in 1..(Len(sets[n]) + 1)
          /\ \A j \in 1..Len(sets[n]) : g[k][j] = sets[n][j]
          /\ g[k][Len(sets[n]) + 1] = item
      BY <1>1, <2>1, <2>2, <2>4, AppendProperties
    <3>2. QED BY <1>1, <2>1, <2>4, <3>1
  <2>5. QED BY <2>3, <2>4
<1>5. QED BY <1>2, <1>3, <1>4

\* What an item is described by is a matter of the response alone.
LEMMA FitsStays ==
  ASSUME response' = response
  PROVE  /\ Items' = Items /\ Sets' = Sets
         /\ \A i : SetOf(i)' = SetOf(i) /\ Before(i)' = Before(i)
<1>1. Items' = Items /\ Sets' = Sets /\ Positions({"set"})' = Positions({"set"})
  BY DEF Items, Sets, Positions
<1>2. QED BY <1>1 DEF SetOf, Before

\* A described item joins those the caller has.
LEMMA RowsStayDescribed ==
  ASSUME RowsMatchSchema, response' = response, NEW item, Fits(item),
         \A i \in DOMAIN taken' :
           taken'[i] = item \/ \E j \in DOMAIN taken : taken'[i] = taken[j],
         \A k \in DOMAIN results' : \A i \in DOMAIN results'[k] :
           \/ results'[k][i] = item
           \/ \E l \in DOMAIN results : \E j \in DOMAIN results[l] : results'[k][i] = results[l][j]
  PROVE  RowsMatchSchema'
<1>1. /\ \A j \in DOMAIN taken : Fits(taken[j])
      /\ \A l \in DOMAIN results : \A j \in DOMAIN results[l] : Fits(results[l][j])
  BY DEF RowsMatchSchema, Fits, Before
<1>2. /\ \A i \in DOMAIN taken' : Fits(taken'[i])
      /\ \A k \in DOMAIN results' : \A i \in DOMAIN results'[k] : Fits(results'[k][i])
  BY <1>1
<1>3. \A x : Fits(x) => x.schema = SetOf(x.at)' /\ x.index = Cardinality(Before(x.schema)')
  BY FitsStays DEF Fits
<1>4. QED BY <1>2, <1>3 DEF RowsMatchSchema, Before

\* What the caller has stays described while the response and it stay.
LEMMA RowsKept ==
  ASSUME RowsMatchSchema, response' = response, taken' = taken, results' = results
  PROVE  RowsMatchSchema'
<1>1. /\ \A j \in DOMAIN taken : Fits(taken[j])
      /\ \A l \in DOMAIN results : \A j \in DOMAIN results[l] : Fits(results[l][j])
  BY DEF RowsMatchSchema, Fits, Before
<1>2. /\ \A i \in DOMAIN taken' : Fits(taken'[i])
      /\ \A k \in DOMAIN results' : \A i \in DOMAIN results'[k] : Fits(results'[k][i])
  BY <1>1
<1>3. \A x : Fits(x) => x.schema = SetOf(x.at)' /\ x.index = Cardinality(Before(x.schema)')
  BY FitsStays DEF Fits
<1>4. QED BY <1>2, <1>3 DEF RowsMatchSchema, Before

\* What a poll gets is described.
LEMMA FoundFits ==
  ASSUME SInv, WriterFits, PeekedFits, Obtain
  PROVE  Fits(Found) /\ WriterFits'
<1>1. Fits(Found)
  BY YieldedFits DEF Obtain, Found, PeekedFits
<1>2. /\ UNCHANGED <<response, pos, resultIndex, schema>>
      /\ gen \in {"metadata", "row", "fetching"} /\ gen' = "fetching"
  BY ObtainGets
<1>3. Before(schema)' = Before(schema) /\ UpTo(pos)' = UpTo(pos)
  BY <1>2 DEF Before, UpTo, Sets, Positions
<1>4. QED BY <1>1, <1>2, <1>3 DEF WriterFits

\* columns() after the last item has been let go: metadata sets them, and a row
\* follows an item of its own set.
LEMMA ColumnsFollow ==
  ASSUME SInv, WriterFits, ColumnsKnown, AtYield, response' = response, pos' = pos, gen' = "fetching",
         reported' = reported,
         columns' = IF IsMetadata(Yielded) THEN Yielded.schema ELSE columns
  PROVE  ColumnsKnown'
<1>1. /\ pos \in Items /\ pos \in Nat /\ Released' = Released \cup {pos} /\ pos \notin Released
      /\ \A i \in Released : i \in Nat /\ i < pos
  <2>1. ~AtYield'
    BY DEF AtYield
  <2>2. QED BY <2>1, Leaves
<1>2. reported = 0 /\ NativeTypeOK
  BY DEF SInv, Reporting, AtYield, TypeOK
<1>3. columns' = SetOf(pos)
  <2>1. CASE IsMetadata(Yielded)
    BY <2>1, YieldedFits
  <2>2. CASE ~IsMetadata(Yielded)
    <3>1. response[pos] = "row" /\ pos \in 1..Len(response)
      BY <1>1, <2>2 DEF IsMetadata, Yielded, Items, Positions
    <3>2. PICK s \in 1..(pos - 1) :
            response[s] = "set" /\ \A j \in s + 1..pos : response[j] = "row"
      BY <1>2, <3>1, ResponseFacts DEF NativeTypeOK
    <3>3. pos - 1 \in Released
      <4>1. pos - 1 \in 1..Len(response) /\ response[pos - 1] \in {"set", "row"}
        BY <1>1, <3>1, <3>2
      <4>2. QED BY <1>1, <4>1 DEF Released, Items, Positions
    <3>4. Last(pos - 1)
      BY <1>1, <3>3 DEF Last
    <3>5. columns' = SetOf(pos - 1)
      BY <1>2, <2>2, <3>3, <3>4 DEF ColumnsKnown
    <3>6. schema \in UpTo(pos) /\ \A t \in UpTo(pos) : t <= schema
      BY DEF WriterFits, AtYield
    <3>7. pos \notin Sets
      BY <3>1 DEF Sets, Positions
    <3>8. UpTo(pos - 1) = UpTo(pos)
      <4>1. \A t \in Sets : t <= pos - 1 <=> t <= pos
        BY <1>1, <1>2, <3>7, SetsAreFinite
      <4>2. QED BY <4>1 DEF UpTo
    <3>9. SetOf(pos - 1) = schema /\ SetOf(pos) = schema
      BY <1>2, <3>6, <3>8, SetOfIs
    <3>10. QED BY <3>5, <3>9
  <2>3. QED BY <2>1, <2>2
<1>4. \A i : Last(i)' => i = pos
  BY <1>1 DEF Last
<1>5. Last(pos)'
  BY <1>1 DEF Last
<1>6. SetOf(pos)' = SetOf(pos)
  BY FitsStays
<1>7. QED BY <1>1, <1>2, <1>3, <1>4, <1>5, <1>6 DEF ColumnsKnown

\* Where no item is let go, what is known of the columns stays.
LEMMA ColumnsStay ==
  ASSUME ColumnsKnown, response' = response, Released' = Released, reported' = reported,
         columns' = columns
  PROVE  ColumnsKnown'
  BY FitsStays DEF ColumnsKnown, Last

\* A poll that is ready describes what it returns.
LEMMA PollDescribes ==
  ASSUME SInv, WriterFits, PeekedFits, ColumnsKnown, Obtain, Describe(Found), reported' = reported
  PROVE  ColumnsKnown'
<1>1. /\ UNCHANGED <<response, pos>> /\ gen' = "fetching"
      /\ columns' = IF IsMetadata(Found) THEN Found.schema ELSE columns
      /\ Released' = Released \cup {pos} /\ pos \in Items /\ Found.at = pos
  BY ObtainGets DEF Describe
<1>2. CASE peeked = None
  <2>1. Found = Yielded /\ AtYield
    BY <1>2 DEF Found, Obtain
  <2>2. QED BY <1>1, <2>1, ColumnsFollow
<1>3. CASE peeked # None
  <2>1. /\ pos \in Nat /\ gen = "fetching" /\ reported = 0 /\ Peeked = {pos}
        /\ \A i \in Items : i \in Nat
    BY <1>1, <1>3, ResponseFacts
       DEF SInv, PeekedLast, Reporting, TypeOK, NativeTypeOK, Peeked, Items, Positions
  <2>2. pos \in Released /\ \A i \in Released : i <= pos
    BY <2>1 DEF SInv, NothingLost, Released
  <2>3. Last(pos) /\ Released' = Released
    BY <1>1, <2>2 DEF Last
  <2>4. columns = SetOf(pos)
    BY <2>1, <2>2, <2>3 DEF ColumnsKnown
  <2>5. IsMetadata(Found) => columns' = SetOf(pos)
    BY <1>1, <1>3 DEF Found, PeekedFits, Fits
  <2>6. columns' = columns
    BY <1>1, <2>4, <2>5
  <2>7. QED BY <1>1, <2>3, <2>6, ColumnsStay
<1>4. QED BY <1>2, <1>3

\* Every step keeps the items and the columns described.
LEMMA StepDescribes ==
  ASSUME SInv, DInv, Next, None \notin Item
  PROVE  DInv'
<1>1. WriterFits /\ PeekedFits /\ RowsMatchSchema /\ ColumnsKnown
  BY DEF DInv
<1>2. taken \in Seq(Item) /\ results \in Seq(Seq(Item))
  BY DEF SInv, TypeOK
<1>3. CASE Generate
  <2>1. WriterFits'
    BY <1>1, <1>3, ExecuteFits, AdvanceFits, FetchFits DEF Generate
  <2>2. response' = response /\ Released' = Released
    BY <1>3, ExecuteStep, AdvanceStep, FetchStep DEF Generate, SInv, GenStep
  <2>3. UNCHANGED <<peeked, columns, taken, results, reported>> /\ peeked = None
    BY <1>3 DEF Generate, callerVars, Running
  <2>4. PeekedFits'
    BY <2>3 DEF PeekedFits
  <2>5. RowsMatchSchema'
    BY <1>1, <2>2, <2>3, FitsStays DEF RowsMatchSchema, Before
  <2>6. ColumnsKnown'
    BY <1>1, <2>2, <2>3, ColumnsStay
  <2>7. QED BY <2>1, <2>4, <2>5, <2>6 DEF DInv
<1>4. CASE Take
  <2>1. /\ Obtain /\ Describe(Found) /\ taken' = Append(taken, Found)
        /\ results' = results /\ reported' = reported
    BY <1>4 DEF Take
  <2>2. Fits(Found) /\ WriterFits' /\ ColumnsKnown'
    BY <1>1, <2>1, FoundFits, PollDescribes
  <2>3. peeked' = None /\ response' = response /\ Found \in Item
    BY <2>1, ObtainGets
  <2>4. \A i \in DOMAIN taken' : taken'[i] = Found \/ \E j \in DOMAIN taken : taken'[i] = taken[j]
    <3>1. /\ DOMAIN taken = 1..Len(taken) /\ DOMAIN taken' = 1..(Len(taken) + 1) /\ Len(taken) \in Nat
          /\ \A i \in 1..Len(taken) : taken'[i] = taken[i]
          /\ taken'[Len(taken) + 1] = Found
      BY <1>2, <2>1, <2>3, AppendProperties
    <3>2. QED BY <3>1
  <2>5. RowsMatchSchema'
    BY <1>1, <2>1, <2>2, <2>3, <2>4, RowsStayDescribed
  <2>6. QED BY <2>2, <2>3, <2>5 DEF DInv, PeekedFits
<1>5. CASE Collect
  <2>1. /\ Obtain /\ Describe(Found) /\ results' = Grouped(results, Found)
        /\ taken' = taken /\ reported' = reported
    BY <1>5 DEF Collect
  <2>2. Fits(Found) /\ WriterFits' /\ ColumnsKnown'
    BY <1>1, <2>1, FoundFits, PollDescribes
  <2>3. peeked' = None /\ response' = response /\ Found \in Item
    BY <2>1, ObtainGets
  <2>4. \A k \in DOMAIN results' : \A i \in DOMAIN results'[k] :
          \/ results'[k][i] = Found
          \/ \E l \in DOMAIN results : \E j \in DOMAIN results[l] : results'[k][i] = results[l][j]
    BY <1>2, <2>1, <2>3, GroupedItems
  <2>5. RowsMatchSchema'
    BY <1>1, <2>1, <2>2, <2>3, <2>4, RowsStayDescribed
  <2>6. QED BY <2>2, <2>3, <2>5 DEF DInv, PeekedFits
<1>6. CASE Peek
  <2>1. /\ AtYield /\ peeked' = Yielded /\ gen' = "fetching"
        /\ UNCHANGED <<response, pos, resultIndex, schema, taken, results, reported>>
        /\ columns' = IF IsMetadata(Yielded) THEN Yielded.schema ELSE columns
    BY <1>6 DEF Peek, Describe, nativeVars
  <2>2. ColumnsKnown'
    BY <1>1, <2>1, ColumnsFollow
  <2>3. Fits(Yielded)
    BY <1>1, <2>1, YieldedFits
  <2>4. PeekedFits'
    BY <2>1, <2>3, FitsStays DEF PeekedFits, Fits, Yielded
  <2>5. RowsMatchSchema'
    BY <1>1, <2>1, RowsKept
  <2>6. WriterFits'
    <3>1. Before(schema)' = Before(schema) /\ UpTo(pos)' = UpTo(pos)
      BY <2>1 DEF Before, UpTo, Sets, Positions
    <3>2. QED BY <1>1, <2>1, <3>1 DEF WriterFits, AtYield
  <2>7. QED BY <2>2, <2>4, <2>5, <2>6 DEF DInv
<1>7. CASE ReportError \/ ReportEnd \/ DropPoll
             \/ \E future \in {"next", "columns", "collect"} : StartPoll(future)
  <2>1. /\ UNCHANGED <<response, pos, resultIndex, schema, peeked, taken, results>>
        /\ AtYield' = AtYield /\ (gen' = gen \/ gen' = "done")
        /\ \/ UNCHANGED <<columns, reported>>
           \/ columns' = None /\ reported' = reported + 1
    BY <1>7 DEF ReportError, ReportEnd, DropPoll, StartPoll, genVars, nativeVars, AtYield
  <2>2. Released' = Released
    BY <2>1, FitsStays DEF Released
  <2>3. PeekedFits' /\ RowsMatchSchema'
    <3>1. RowsMatchSchema'
      BY <1>1, <2>1, RowsKept
    <3>2. peeked' = peeked /\ \A i : SetOf(i)' = SetOf(i) /\ Before(i)' = Before(i)
      BY <2>1, FitsStays
    <3>3. PeekedFits'
      BY <1>1, <3>2 DEF PeekedFits, Fits
    <3>4. QED BY <3>1, <3>3
  <2>4. WriterFits'
    <3>1. Before(schema)' = Before(schema) /\ UpTo(pos)' = UpTo(pos)
      BY <2>1 DEF Before, UpTo, Sets, Positions
    <3>2. QED BY <1>1, <2>1, <3>1 DEF WriterFits
  <2>5. ColumnsKnown'
    <3>1. CASE UNCHANGED <<columns, reported>>
      BY <1>1, <2>1, <2>2, <3>1, ColumnsStay
    <3>2. CASE columns' = None /\ reported' = reported + 1
      <4>1. reported' # 0
        BY <3>2 DEF SInv, TypeOK
      <4>2. Released # {} => \E i \in Released' : Last(i)'
        BY <1>1, <2>2 DEF ColumnsKnown, Last
      <4>3. QED BY <2>2, <3>2, <4>1, <4>2 DEF ColumnsKnown
    <3>3. QED BY <2>1, <3>1, <3>2
  <2>6. QED BY <2>3, <2>4, <2>5 DEF DInv
<1>8. QED BY <1>3, <1>4, <1>5, <1>6, <1>7 DEF Next, Ready

LEMMA InitDescribes == ASSUME Init, None \notin Item PROVE DInv
<1>1. /\ pos = 0 /\ gen = "start" /\ resultIndex = 0 /\ peeked = None /\ columns = None
      /\ taken = <<>> /\ results = <<>> /\ reported = 0 /\ NativeTypeOK
  BY InitHolds DEF Init, NativeInit, SInv, TypeOK
<1>2. Released = {} /\ UpTo(pos) = {}
  BY <1>1, SetsAreFinite DEF Released, Items, Positions, UpTo
<1>3. WriterFits
  BY <1>1, <1>2, FS_EmptySet DEF WriterFits
<1>4. PeekedFits /\ RowsMatchSchema /\ ColumnsKnown
  BY <1>1, <1>2 DEF PeekedFits, RowsMatchSchema, ColumnsKnown
<1>5. QED BY <1>3, <1>4 DEF DInv

\* What the invariant says about columns().
LEMMA ColumnsDescribe == ASSUME TypeOK, ColumnsKnown PROVE ColumnsFit
<1>1. CASE Released = {} \/ reported > 0
  BY <1>1 DEF ColumnsKnown, ColumnsFit
<1>2. CASE ~(Released = {} \/ reported > 0)
  <2>1. PICK i \in Released : Last(i)
    BY <1>2 DEF ColumnsKnown
  <2>2. DEFINE last == CHOOSE k \in Released : \A j \in Released : j <= k
  <2>3. last \in Released /\ \A j \in Released : j <= last
    BY <2>1 DEF Last
  <2>4. columns = SetOf(last)
    <3>1. Last(last)
      BY <2>3 DEF Last
    <3>2. \A k \in Released : Last(k) => columns = SetOf(k)
      <4>1. Released # {} /\ reported = 0
        BY <1>2 DEF TypeOK
      <4>2. QED BY <4>1 DEF ColumnsKnown
    <3>3. QED BY <2>3, <3>1, <3>2
  <2>5. QED BY <1>2, <2>4 DEF ColumnsFit
<1>3. QED BY <1>1, <1>2

-----------------------------------------------------------------------------
(* What into_results makes of them *)

\* The set of an item is the last one up to it.
LEMMA SetOfItem ==
  ASSUME NativeTypeOK, NEW i \in Items
  PROVE  SetOf(i) \in Sets /\ SetOf(i) <= i /\ \A t \in Sets : t <= i => t <= SetOf(i)
<1>1. i \in 1..Len(response) /\ Len(response) \in Nat /\ \A t \in Sets : t \in Nat
  BY ResponseFacts, SetsAreFinite DEF NativeTypeOK, Items, Positions
<1>2. \E s \in UpTo(i) : \A t \in UpTo(i) : t <= s
  <2>1. CASE response[i] = "set"
    BY <1>1, <2>1 DEF UpTo, Sets, Positions
  <2>2. CASE response[i] = "row"
    <3>1. PICK s \in 1..(i - 1) : response[s] = "set" /\ \A j \in s + 1..i : response[j] = "row"
      BY <1>1, <2>2, ResponseFacts DEF NativeTypeOK
    <3>2. s \in UpTo(i)
      BY <1>1, <3>1 DEF UpTo, Sets, Positions
    <3>3. ASSUME NEW t \in UpTo(i) PROVE t <= s
      <4>1. t \in Nat /\ t <= i /\ response[t] = "set"
        BY <1>1 DEF UpTo, Sets, Positions
      <4>2. t \notin s + 1..i
        BY <3>1, <4>1
      <4>3. QED BY <1>1, <4>1, <4>2
    <3>4. QED BY <3>2, <3>3
  <2>3. QED BY <2>1, <2>2 DEF Items, Positions
<1>3. PICK s \in UpTo(i) : \A t \in UpTo(i) : t <= s
  BY <1>2
<1>4. SetOf(i) = s
  BY <1>3, SetOfIs
<1>5. QED BY <1>3, <1>4 DEF UpTo

\* Two rows are of one set when no set starts between them.
LEMMA SameSetIs ==
  ASSUME NativeTypeOK, NEW i \in Items \ Sets, NEW j \in Items \ Sets, i < j
  PROVE  SameSet(i, j) <=> SetOf(i) = SetOf(j)
<1>1. /\ SetOf(i) \in Sets /\ SetOf(i) <= i /\ \A t \in Sets : t <= i => t <= SetOf(i)
      /\ SetOf(j) \in Sets /\ SetOf(j) <= j /\ \A t \in Sets : t <= j => t <= SetOf(j)
  BY SetOfItem
<1>2. i \in Nat /\ j \in Nat /\ i \notin Sets /\ j \notin Sets /\ \A t \in Sets : t \in Nat
  BY SetsAreFinite, ResponseFacts DEF NativeTypeOK, Items, Positions
<1>3. ASSUME SameSet(i, j) PROVE SetOf(i) = SetOf(j)
  <2>1. SetOf(j) <= i
    BY <1>1, <1>2, <1>3 DEF SameSet
  <2>2. QED BY <1>1, <1>2, <2>1
<1>4. ASSUME SetOf(i) = SetOf(j), NEW s \in Sets, i < s, s < j PROVE FALSE
  <2>1. s <= SetOf(j)
    BY <1>1, <1>2, <1>4
  <2>2. QED BY <1>1, <1>2, <1>4, <2>1
<1>5. QED BY <1>3, <1>4 DEF SameSet

\* Where a group ends up in what into_results has collected.
LEMMA GroupedIs ==
  ASSUME NEW sets \in Seq(Seq(Item)), NEW item \in Item
  PROVE  /\ IsMetadata(item) =>
              /\ Len(Grouped(sets, item)) = Len(sets) + 1
              /\ Grouped(sets, item)[Len(sets) + 1] = <<>>
              /\ \A k \in 1..Len(sets) : Grouped(sets, item)[k] = sets[k]
         /\ ~IsMetadata(item) /\ sets = <<>> => Grouped(sets, item) = << <<item>> >>
         /\ ~IsMetadata(item) /\ sets # <<>> =>
              /\ Len(sets) \in 1..Len(sets) /\ Len(Grouped(sets, item)) = Len(sets)
              /\ Grouped(sets, item)[Len(sets)] = Append(sets[Len(sets)], item)
              /\ \A k \in 1..Len(sets) : k # Len(sets) => Grouped(sets, item)[k] = sets[k]
<1>1. CASE IsMetadata(item)
  <2>1. Grouped(sets, item) = Append(sets, <<>>)
    BY <1>1 DEF Grouped
  <2>2. QED BY <1>1, <2>1, AppendProperties
<1>2. CASE ~IsMetadata(item) /\ sets = <<>>
  BY <1>2 DEF Grouped
<1>3. CASE ~IsMetadata(item) /\ sets # <<>>
  <2>1. /\ Grouped(sets, item) = [sets EXCEPT ![Len(sets)] = Append(sets[Len(sets)], item)]
        /\ Len(sets) \in 1..Len(sets)
    BY <1>3 DEF Grouped
  <2>2. sets[Len(sets)] \in Seq(Item) /\ Append(sets[Len(sets)], item) \in Seq(Item)
    BY <2>1
  <2>3. QED BY ONLY sets \in Seq(Seq(Item)), <1>3, <2>1, <2>2, ExceptSeq
<1>4. QED BY <1>1, <1>2, <1>3

\* What the caller has received grows by what a poll gets, which comes after it
\* and after everything the response has before it.
LEMMA Hands ==
  ASSUME SInv, Obtain
  PROVE  /\ Handed' = Handed \cup {pos} /\ Handed' = Released' /\ pos \notin Handed
         /\ \A i \in Items : i \in Handed <=> i < pos
         /\ \A i \in Handed : i \in Items /\ i \in Nat
<1>1. /\ Released' = Released \cup {pos} /\ Peeked \subseteq {pos} /\ Peeked' = {} /\ pos \in Nat
      /\ pos \in Items
  BY ObtainGets
<1>2. \A i \in Items : i \in Nat
  BY DEF Items, Positions
<1>3. pos \in Released => pos \in Peeked
  BY DEF Obtain, SInv, PeekedLast, Peeked, Released
<1>4. \A i \in Items : i # pos => (i \in Released <=> i < pos)
  BY <1>1, <1>2 DEF Released
<1>5. Released \subseteq Items
  BY DEF Released
<1>6. Handed' = Released' /\ pos \notin Handed /\ Handed' = Handed \cup {pos}
  BY <1>1, <1>3 DEF Handed
<1>7. \A i \in Items : i \in Handed <=> i < pos
  <2>1. ASSUME NEW i \in Items, i # pos PROVE i \in Handed <=> i < pos
    <3>1. i \in Handed <=> i \in Released
      BY <1>1, <2>1 DEF Handed
    <3>2. QED BY <1>4, <2>1, <3>1
  <2>2. ~(pos < pos)
    BY <1>1
  <2>3. QED BY <1>6, <2>1, <2>2
<1>8. \A i \in Handed : i \in Items /\ i \in Nat
  BY <1>2, <1>5 DEF Handed
<1>9. QED BY <1>6, <1>7, <1>8

\* As long as nothing is handed over, the groups stay.
LEMMA GroupsStay ==
  ASSUME GInv, UNCHANGED <<response, taken, results>>, Handed' = Handed, Released' = Released
  PROVE  GInv'
<1>1. /\ Sets' = Sets /\ At(taken)' = At(taken) /\ Collected' = Collected
      /\ \A i : SetOf(i)' = SetOf(i)
  <2>1. Sets' = Sets /\ \A i : SetOf(i)' = SetOf(i)
    BY FitsStays
  <2>2. At(taken)' = At(taken) /\ Collected' = Collected
    BY DEF At, Collected
  <2>3. QED BY <2>1, <2>2
<1>2. \A k : At(results'[k]) = At(results[k])
  OBVIOUS
<1>3. Opened' = Opened
  BY <1>1 DEF Opened
<1>4. Partial' = Partial
  BY <1>1 DEF Partial
<1>5. TakenFirst' /\ GroupsCounted'
  BY <1>1, <1>3, <1>4 DEF GInv, TakenFirst, GroupsCounted
<1>6. GroupsInOrder'
  BY <1>1, <1>2 DEF GInv, GroupsInOrder
<1>7. GroupsAreSets'
  BY <1>1, <1>2 DEF GInv, GroupsAreSets, SameSet
<1>8. QED BY <1>5, <1>6, <1>7 DEF GInv

\* Before into_results there are no groups, and everything received was taken.
LEMMA NoGroups ==
  ASSUME SInv', TakenFirst', results' = <<>>
  PROVE  GInv'
<1>1. Collected' = {} /\ Partial' = {}
  BY DEF Collected, Partial
<1>2. Opened' = {}
  <2>1. \A i \in Released' : i \in At(taken)' \/ i \in Collected' \/ i \in Peeked'
    BY DEF SInv, NothingLost
  <2>2. QED BY <1>1, <2>1 DEF Opened, Handed
<1>3. GroupsInOrder' /\ GroupsAreSets'
  BY <1>1 DEF GroupsInOrder, GroupsAreSets
<1>4. GroupsCounted'
  BY <1>1, <1>2, FS_EmptySet DEF GroupsCounted
<1>5. QED BY <1>3, <1>4 DEF GInv

\* into_results puts what it gets in its place.
LEMMA CollectGroups ==
  ASSUME SInv, GInv, Collect
  PROVE  GInv'
<1> DEFINE n == Len(results)
<1>1. /\ Obtain /\ results' = Grouped(results, Found) /\ taken' = taken
      /\ results \in Seq(Seq(Item)) /\ NativeTypeOK
      /\ TakenFirst /\ GroupsInOrder /\ GroupsAreSets /\ GroupsCounted
  BY DEF Collect, SInv, TypeOK, GInv
<1>2. /\ Found \in Item /\ Found.at = pos /\ pos \in Items /\ pos \in Nat /\ response' = response
      /\ \A i \in At(taken) : i \in Nat /\ i < pos
  BY <1>1, ObtainGets
<1>3. /\ Handed' = Handed \cup {pos} /\ Handed' = Released' /\ pos \notin Handed
      /\ \A i \in Items : i \in Handed <=> i < pos
      /\ \A i \in Handed : i \in Items /\ i \in Nat
  BY <1>1, Hands
<1>4. /\ Sets' = Sets /\ At(taken)' = At(taken) /\ Sets \subseteq Items
      /\ \A i : SetOf(i)' = SetOf(i)
  BY <1>1, <1>2, FitsStays DEF At, Sets, Items, Positions
<1>5. IsMetadata(Found) <=> pos \in Sets
  BY <1>2 DEF IsMetadata, Sets, Items, Positions
<1>6. n \in Nat /\ DOMAIN results = 1..n /\ \A k \in 1..n : results[k] \in Seq(Item)
  BY <1>1
<1>7. /\ \A k \in 1..n : At(results[k]) \subseteq Handed \ Sets
      /\ \A i \in Handed : i < pos
  BY <1>1, <1>3, <1>6 DEF GroupsInOrder, Collected
<1>8. TakenFirst'
  <2>1. \A j \in Released' \ At(taken)' : j = pos \/ j \in Released \ At(taken)
    BY <1>3, <1>4 DEF Handed
  <2>2. QED BY <1>1, <1>2, <1>4, <2>1 DEF TakenFirst
<1>9. Opened' = IF pos \in Sets THEN Opened \cup {pos} ELSE Opened
  BY <1>2, <1>3, <1>4 DEF Opened
<1>10. IsFiniteSet(Opened) /\ pos \notin Opened
  <2>1. Opened \subseteq 1..Len(response) /\ Len(response) \in Nat
    BY <1>1, ResponseFacts DEF Opened, Sets, Positions, NativeTypeOK
  <2>2. IsFiniteSet(1..Len(response))
    BY <2>1, FS_Interval
  <2>3. IsFiniteSet(Opened)
    BY <2>1, <2>2, FS_Subset
  <2>4. QED BY <1>3, <2>3 DEF Opened
<1>11. results' \in Seq(Seq(Item)) /\ DOMAIN results' = 1..Len(results')
  <2>1. results' \in Seq(Seq(Item))
    BY <1>1, <1>2, GroupedKeeps
  <2>2. QED BY <2>1
<1>12. CASE IsMetadata(Found)
  <2>1. /\ DOMAIN results' = 1..(n + 1) /\ results'[n + 1] = <<>> /\ Len(results') = n + 1
        /\ \A k \in 1..n : results'[k] = results[k]
    BY <1>1, <1>2, <1>11, <1>12, GroupedIs
  <2>2. At(results'[n + 1]) = {} /\ \A k \in 1..n : At(results'[k]) = At(results[k])
    BY <2>1 DEF At
  <2>3. \A k \in DOMAIN results' : k \in 1..n \/ k = n + 1
    BY <1>6, <2>1
  <2>4. Collected' = Collected
    <3>1. Collected' = AllAt(results') /\ Collected = AllAt(results)
      BY DEF Collected, AllAt, At
    <3>2. QED BY <1>1, <1>2, <1>12, <3>1, GroupedKeeps
  <2>5. Partial' = Partial
    BY <1>4, <2>4 DEF Partial
  <2>6. GroupsInOrder'
    <3>1. Collected' \subseteq Handed' \ Sets'
      BY <1>1, <1>3, <1>4, <2>4 DEF GroupsInOrder
    <3>2. \A k \in DOMAIN results' : \A i, j \in DOMAIN results'[k] :
            i < j => results'[k][i].at < results'[k][j].at
      BY <1>1, <1>6, <2>1, <2>3 DEF GroupsInOrder
    <3>3. ASSUME NEW k \in DOMAIN results', NEW l \in DOMAIN results', k < l,
                 NEW i \in At(results'[k]), NEW j \in At(results'[l])
          PROVE  i < j
      BY <1>1, <1>6, <2>2, <2>3, <3>3 DEF GroupsInOrder
    <3>4. QED BY <3>1, <3>2, <3>3 DEF GroupsInOrder, At
  <2>7. GroupsAreSets'
    <3>1. ASSUME NEW k \in DOMAIN results', NEW l \in DOMAIN results',
                 NEW i \in At(results'[k]), NEW j \in At(results'[l]), i < j
          PROVE  k = l <=> SameSet(i, j)
      BY <1>1, <1>6, <2>2, <2>3, <3>1 DEF GroupsAreSets
    <3>2. ASSUME NEW k \in DOMAIN results', NEW i \in At(results'[k])
          PROVE  k # n + 1 /\ \E s \in Sets \cap Handed' : i < s
      BY <1>3, <1>5, <1>7, <1>12, <2>2, <2>3
    <3>3. \A k, l \in DOMAIN results' : \A i \in At(results'[k]), j \in At(results'[l]) :
            i < j => (k = l <=> SameSet(i, j))
      BY <3>1
    <3>4. \A k \in DOMAIN results' : \A i \in At(results'[k]) :
            k = Len(results') <=> ~\E s \in Sets \cap Handed' : i < s
      BY <2>1, <3>2
    <3>5. \A i, j : SameSet(i, j)' <=> SameSet(i, j)
      BY <1>4 DEF SameSet
    <3>6. QED BY <1>4, <3>3, <3>4, <3>5 DEF GroupsAreSets, At
  <2>8. GroupsCounted'
    <3>1. Cardinality(Opened') = Cardinality(Opened) + 1 /\ Cardinality(Opened) \in Nat
      BY <1>5, <1>9, <1>10, <1>12, FS_AddElement, FS_CardinalityType
    <3>2. QED BY <1>1, <2>1, <2>5, <3>1 DEF GroupsCounted
  <2>9. QED BY <1>8, <2>6, <2>7, <2>8 DEF GInv
<1>13. CASE ~IsMetadata(Found)
  <2>1. SetOf(pos) \in Sets /\ SetOf(pos) < pos /\ \A t \in Sets : t <= pos => t <= SetOf(pos)
    <3>1. SetOf(pos) \in Sets /\ SetOf(pos) <= pos /\ \A t \in Sets : t <= pos => t <= SetOf(pos)
      BY <1>1, <1>2, SetOfItem
    <3>2. SetOf(pos) # pos /\ SetOf(pos) \in Nat
      BY <1>1, <1>5, <1>13, <3>1, SetsAreFinite
    <3>3. QED BY <1>2, <3>1, <3>2
  <2>2. SetOf(pos) \in Handed
    BY <1>3, <1>4, <2>1
  <2>3. Opened' = Opened /\ Sets \cap Handed' = Sets \cap Handed
    BY <1>3, <1>5, <1>9, <1>13
  <2>4. Collected' = Collected \cup {pos}
    <3>1. Collected' = AllAt(results') /\ Collected = AllAt(results)
      BY DEF Collected, AllAt, At
    <3>2. QED BY <1>1, <1>2, <1>13, <3>1, GroupedKeeps
  <2>5. Partial' = IF SetOf(pos) \in At(taken) THEN Partial \cup {pos} ELSE Partial
    BY <1>4, <2>4 DEF Partial
  <2>6. Collected' \subseteq Handed' \ Sets'
    BY <1>1, <1>3, <1>4, <1>5, <1>13, <2>4 DEF GroupsInOrder
  <2>7. CASE results = <<>>
    <3>1. results' = << <<Found>> >>
      BY <1>1, <1>2, <1>13, <2>7, GroupedIs
    <3>2. /\ DOMAIN results' = {1} /\ Len(results') = 1 /\ DOMAIN results'[1] = {1}
          /\ At(results'[1]) = {pos}
      BY <1>2, <3>1 DEF At
    <3>3. GroupsInOrder' /\ GroupsAreSets'
      <4>1. \A k, l \in DOMAIN results' : ~(k < l)
        BY <3>2
      <4>2. \A i, j \in DOMAIN results'[1] : ~(i < j)
        BY <3>2
      <4>3. GroupsInOrder'
        BY <2>6, <3>2, <4>1, <4>2 DEF GroupsInOrder
      <4>4. ~(pos < pos) /\ ~\E s \in Sets \cap Handed' : pos < s
        BY <1>2, <1>3, <1>7, <2>3
      <4>5. QED BY <1>4, <3>2, <4>3, <4>4 DEF GroupsAreSets, At
    <3>4. \A s \in Sets \cap Handed : s \in At(taken)
      BY <2>7 DEF SInv, NothingLost, Handed, Collected
    <3>5. Opened' = {} /\ Partial' # {}
      BY <2>1, <2>2, <2>3, <2>5, <3>4 DEF Opened
    <3>6. GroupsCounted'
      BY <3>2, <3>5, FS_EmptySet DEF GroupsCounted
    <3>7. QED BY <1>8, <3>3, <3>6 DEF GInv
  <2>8. CASE results # <<>>
    <3>1. /\ n \in 1..n /\ Len(results') = n /\ DOMAIN results' = 1..n
          /\ results'[n] = Append(results[n], Found)
          /\ \A k \in 1..n : k # n => results'[k] = results[k]
      BY <1>1, <1>2, <1>11, <1>13, <2>8, GroupedIs
    <3>2. /\ At(results'[n]) = At(results[n]) \cup {pos}
          /\ \A k \in 1..n : k # n => At(results'[k]) = At(results[k])
      <4>1. results[n] \in Seq(Item)
        BY <1>6, <3>1
      <4>2. At(Append(results[n], Found)) = At(results[n]) \cup {pos}
        BY <1>2, <4>1, AtAppend
      <4>3. QED BY <3>1, <4>2
    <3>3. \A k \in 1..n : \A i \in At(results[k]) : i < pos /\ i \in Nat
      BY <1>3, <1>7
    <3>4. GroupsInOrder'
      <4>1. ASSUME NEW k \in 1..n, NEW i \in DOMAIN results'[k], NEW j \in DOMAIN results'[k], i < j
            PROVE  results'[k][i].at < results'[k][j].at
        <5>1. CASE k # n
          BY <1>1, <1>6, <3>1, <4>1, <5>1 DEF GroupsInOrder
        <5>2. CASE k = n
          <6>1. /\ Len(results[n]) \in Nat /\ DOMAIN results[n] = 1..Len(results[n])
                /\ DOMAIN results'[n] = 1..(Len(results[n]) + 1)
                /\ \A m \in 1..Len(results[n]) : results'[n][m] = results[n][m]
                /\ results'[n][Len(results[n]) + 1] = Found
            <7>1. results[n] \in Seq(Item)
              BY <1>6, <3>1
            <7>2. Found \in Item /\ results'[n] = Append(results[n], Found)
              BY <1>2, <3>1
            <7>3. QED BY ONLY <7>1, <7>2, AppendProperties
          <6>2. \A m \in 1..Len(results[n]) : results[n][m].at < pos
            BY <3>1, <3>3, <6>1 DEF At
          <6>3. i \in 1..Len(results[n])
            BY <4>1, <5>2, <6>1
          <6>4. CASE j = Len(results[n]) + 1
            BY <1>2, <5>2, <6>1, <6>2, <6>3, <6>4
          <6>5. CASE j # Len(results[n]) + 1
            <7>1. j \in 1..Len(results[n])
              BY <5>2, <6>1, <6>5
            <7>2. QED BY <1>1, <1>6, <3>1, <4>1, <5>2, <6>1, <6>3, <7>1 DEF GroupsInOrder
          <6>6. QED BY <6>4, <6>5
        <5>3. QED BY <5>1, <5>2
      <4>2. ASSUME NEW k \in 1..n, NEW l \in 1..n, k < l,
                   NEW i \in At(results'[k]), NEW j \in At(results'[l])
            PROVE  i < j
        <5>1. k # n /\ i \in At(results[k])
          <6>1. k # n
            <7>1. \A m \in 1..n : ~(n < m)
              BY ONLY <1>6
            <7>2. QED BY <4>2, <7>1
          <6>2. QED BY <3>2, <6>1
        <5>2. j = pos \/ j \in At(results[l])
          BY <3>2, <4>2
        <5>3. QED BY <1>1, <1>6, <3>3, <4>2, <5>1, <5>2 DEF GroupsInOrder
      <4>3. \A k \in DOMAIN results' : \A i, j \in DOMAIN results'[k] :
              i < j => results'[k][i].at < results'[k][j].at
        BY <3>1, <4>1
      <4>4. \A k, l \in DOMAIN results' : k < l =>
              \A i \in At(results'[k]), j \in At(results'[l]) : i < j
        BY <3>1, <4>2
      <4>5. QED BY <2>6, <4>3, <4>4 DEF GroupsInOrder, At
    <3>5. \A i \in Handed : (\E s \in Sets \cap Handed : i < s) <=> ~SameSet(i, pos)
      BY <1>3, <1>4, <1>7 DEF SameSet
    <3>6. GroupsAreSets'
      <4>1. ASSUME NEW k \in 1..n, NEW l \in 1..n,
                   NEW i \in At(results'[k]), NEW j \in At(results'[l]), i < j
            PROVE  k = l <=> SameSet(i, j)
        <5>1. i \in At(results[k])
          <6>1. j = pos \/ j \in At(results[l])
            BY <3>2, <4>1
          <6>2. i # pos
            <7>1. CASE j = pos
              BY <1>2, <4>1, <7>1
            <7>2. CASE j \in At(results[l])
              <8>1. j < pos /\ j \in Nat
                BY <3>3, <7>2
              <8>2. QED BY <1>2, <4>1, <8>1
            <7>3. QED BY <6>1, <7>1, <7>2
          <6>3. QED BY <3>2, <6>2
        <5>2. CASE j \in At(results[l])
          BY <1>1, <1>6, <4>1, <5>1, <5>2 DEF GroupsAreSets
        <5>3. CASE j \notin At(results[l])
          <6>1. l = n /\ j = pos /\ i \in Handed
            BY <1>7, <3>2, <5>1, <5>3
          <6>2. k = n <=> ~\E s \in Sets \cap Handed : i < s
            BY <1>1, <1>6, <5>1 DEF GroupsAreSets
          <6>3. QED BY <3>5, <6>1, <6>2
        <5>4. QED BY <5>2, <5>3
      <4>2. ASSUME NEW k \in 1..n, NEW i \in At(results'[k])
            PROVE  k = n <=> ~\E s \in Sets \cap Handed' : i < s
        <5>1. CASE i \in At(results[k])
          BY <1>1, <1>6, <2>3, <5>1 DEF GroupsAreSets
        <5>2. CASE i \notin At(results[k])
          <6>1. k = n /\ i = pos
            BY <3>2, <4>2, <5>2
          <6>2. \A s \in Sets \cap Handed : ~(pos < s)
            BY <1>2, <1>3, <1>7
          <6>3. QED BY <2>3, <6>1, <6>2
        <5>3. QED BY <5>1, <5>2
      <4>3. \A k, l \in DOMAIN results' : \A i \in At(results'[k]), j \in At(results'[l]) :
              i < j => (k = l <=> SameSet(i, j))
        BY <3>1, <4>1
      <4>4. \A k \in DOMAIN results' : \A i \in At(results'[k]) :
              k = Len(results') <=> ~\E s \in Sets \cap Handed' : i < s
        BY <3>1, <4>2
      <4>5. \A i, j : SameSet(i, j)' <=> SameSet(i, j)
        BY <1>4 DEF SameSet
      <4>6. QED BY <1>4, <4>3, <4>4, <4>5 DEF GroupsAreSets, At
    <3>7. GroupsCounted'
      <4>1. ASSUME SetOf(pos) \in At(taken) PROVE Partial # {}
        <5>1. ASSUME Partial = {} PROVE FALSE
          <6>1. Cardinality(Opened) # 0
            BY <1>1, <1>6, <3>1, <5>1 DEF GroupsCounted
          <6>2. Opened # {}
            BY <6>1, FS_EmptySet
          <6>3. PICK s \in Opened : TRUE
            BY <6>2
          <6>4. s \in Sets /\ s \in Handed /\ s \in Released \ At(taken)
            BY <6>3 DEF Opened, Handed
          <6>5. SetOf(pos) < s /\ s < pos
            BY <1>1, <1>7, <4>1, <6>4 DEF TakenFirst
          <6>6. s <= SetOf(pos) /\ s \in Nat /\ SetOf(pos) \in Nat
            BY <1>1, <1>2, <2>1, <6>4, <6>5, SetsAreFinite
          <6>7. QED BY <6>5, <6>6
        <5>2. QED BY <5>1
      <4>2. Partial' = {} <=> Partial = {}
        BY <2>5, <4>1
      <4>3. QED BY <1>1, <2>3, <3>1, <4>2 DEF GroupsCounted
    <3>8. QED BY <1>8, <3>4, <3>6, <3>7 DEF GInv
  <2>9. QED BY <2>7, <2>8
<1>14. QED BY <1>12, <1>13

\* Every step keeps the groups.
LEMMA StepGroups ==
  ASSUME SInv, GInv, Next, None \notin Item
  PROVE  GInv'
<1>1. SInv' /\ TakenFirst
  BY StepKeeps DEF GInv
<1>2. CASE Generate
  <2>1. response' = response /\ Released' = Released
    BY <1>2, ExecuteStep, AdvanceStep, FetchStep DEF Generate, SInv, GenStep
  <2>2. UNCHANGED <<peeked, taken, results>>
    BY <1>2 DEF Generate, callerVars
  <2>3. Handed' = Handed
    BY <2>1, <2>2 DEF Handed, Peeked
  <2>4. QED BY <2>1, <2>2, <2>3, GroupsStay
<1>3. CASE Take
  <2>1. poll = "next" /\ Obtain /\ results' = results
    BY <1>3 DEF Take
  <2>2. results' = <<>>
    BY <2>1 DEF SInv, CollectLast
  <2>3. Collected' = {} /\ Peeked' = {}
    BY <2>1, <2>2, ObtainGets DEF Collected
  <2>4. Released' \ At(taken)' = {}
    BY <1>1, <2>2, <2>3 DEF SInv, NothingLost
  <2>5. TakenFirst'
    BY <2>4 DEF TakenFirst
  <2>6. QED BY <1>1, <2>2, <2>5, NoGroups
<1>4. CASE Collect
  BY <1>4, CollectGroups
<1>5. CASE Peek
  <2>1. /\ poll = "columns" /\ AtYield /\ gen' = "fetching"
        /\ UNCHANGED <<response, pos, taken, results>>
    BY <1>5 DEF Peek, nativeVars
  <2>2. results' = <<>>
    BY <2>1 DEF SInv, CollectLast
  <2>3. Released' = Released \cup {pos} /\ pos \notin Released /\ \A i \in Released : i < pos
    BY <2>1, Leaves DEF AtYield
  <2>4. TakenFirst'
    <3>1. At(taken)' = At(taken) /\ At(taken) \subseteq Released
      BY <2>1 DEF At, SInv, NothingLost
    <3>2. QED BY <1>1, <2>3, <3>1 DEF TakenFirst
  <2>5. QED BY <1>1, <2>2, <2>4, NoGroups
<1>6. CASE ReportError \/ ReportEnd \/ DropPoll
             \/ \E future \in {"next", "columns", "collect"} : StartPoll(future)
  <2>1. UNCHANGED <<response, pos, peeked, taken, results>> /\ AtYield' = AtYield
    BY <1>6 DEF ReportError, ReportEnd, DropPoll, StartPoll, genVars, nativeVars, AtYield
  <2>2. Released' = Released
    BY <2>1, FitsStays DEF Released
  <2>3. Handed' = Handed
    BY <2>1, <2>2 DEF Handed, Peeked
  <2>4. QED BY <2>1, <2>2, <2>3, GroupsStay
<1>7. QED BY <1>2, <1>3, <1>4, <1>5, <1>6 DEF Next, Ready

LEMMA InitGroups == ASSUME Init, None \notin Item PROVE GInv
<1>1. SInv /\ pos = 0 /\ taken = <<>> /\ results = <<>>
  BY InitHolds DEF Init, NativeInit
<1>2. Collected = {} /\ Partial = {} /\ At(taken) = {}
  BY <1>1 DEF Collected, Partial, At
<1>3. Released = {}
  BY <1>1 DEF Released, Items, Positions
<1>4. Opened = {}
  BY <1>3 DEF Opened, Handed
<1>5. TakenFirst /\ GroupsInOrder /\ GroupsAreSets
  BY <1>1, <1>2 DEF TakenFirst, GroupsInOrder, GroupsAreSets
<1>6. GroupsCounted
  BY <1>1, <1>2, <1>4, FS_EmptySet DEF GroupsCounted
<1>7. QED BY <1>5, <1>6 DEF GInv

\* What the groups are when into_results is ready.
LEMMA GroupsKept == ASSUME SInv, GInv PROVE SetsKept
<1> SUFFICES ASSUME poll = "consumed", reported = 0 PROVE SetsKept
  BY DEF SetsKept
<1>1. gen = "done" /\ NativeTypeOK /\ peeked = None
  BY DEF SInv, Reporting, TypeOK, PeekedLast
<1>2. Released = Items /\ Handed = Items
  <2>1. Released = Items
    BY <1>1, ResponseFacts DEF SInv, Place, NativeTypeOK, Released, AtYield, Items, Positions
  <2>2. QED BY <1>1, <2>1 DEF Handed, Peeked
<1>3. Sets \subseteq Items
  BY DEF Sets, Items, Positions
<1>4. Opened = Sets \ At(taken) /\ Partial = {i \in Collected : SetOf(i) \in At(taken)}
  BY <1>2, <1>3 DEF Opened, Partial
<1>5. Collected = (Items \ Sets) \ At(taken)
  <2>1. Collected \subseteq Items \ Sets
    BY <1>2 DEF GInv, GroupsInOrder
  <2>2. \A i \in Collected : i \notin At(taken)
    <3>1. \A i \in Items : ~(i < i)
      BY DEF Items, Positions
    <3>2. QED BY <2>1, <3>1 DEF SInv, NothingLost
  <2>3. \A i \in Items \ Sets : i \in At(taken) \/ i \in Collected
    BY <1>1, <1>2 DEF SInv, NothingLost, Peeked
  <2>4. QED BY <2>1, <2>2, <2>3
<1>6. ASSUME NEW k \in DOMAIN results
      PROVE  Lists([i \in DOMAIN results[k] |-> results[k][i].at], At(results[k]))
  BY DEF Lists, At, GInv, GroupsInOrder
<1>7. ASSUME NEW k \in DOMAIN results, NEW l \in DOMAIN results,
             NEW i \in At(results[k]), NEW j \in At(results[l])
      PROVE  /\ k = l <=> SetOf(i) = SetOf(j)
             /\ k < l => i < j
  <2>1. i \in Items \ Sets /\ j \in Items \ Sets
    BY <1>2 DEF GInv, GroupsInOrder, Collected
  <2>2. i \in Nat /\ j \in Nat /\ k \in Nat /\ l \in Nat
    BY <2>1 DEF Items, Positions, SInv, TypeOK
  <2>3. (k < l => i < j) /\ (l < k => j < i)
    BY DEF GInv, GroupsInOrder
  <2>4. CASE i = j
    BY <2>2, <2>3, <2>4
  <2>5. CASE i < j
    <3>1. k = l <=> SameSet(i, j)
      BY <2>5 DEF GInv, GroupsAreSets
    <3>2. QED BY <1>1, <2>1, <2>3, <2>5, <3>1, SameSetIs
  <2>6. CASE j < i
    <3>1. l = k <=> SameSet(j, i)
      BY <2>6 DEF GInv, GroupsAreSets
    <3>2. QED BY <1>1, <2>1, <2>3, <2>6, <3>1, SameSetIs
  <2>7. QED BY <2>2, <2>4, <2>5, <2>6
<1>8. Len(results) = Cardinality(Sets \ At(taken)) + (IF Partial = {} THEN 0 ELSE 1)
  BY <1>4 DEF GInv, GroupsCounted
<1>9. QED BY <1>4, <1>5, <1>6, <1>7, <1>8 DEF SetsKept
=============================================================================
