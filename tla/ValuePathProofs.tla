-------------------------- MODULE ValuePathProofs --------------------------
(***************************************************************************)
(* Proofs about ValuePath, for all values, texts, columns and settings:    *)
(* the driver is given what the Config was told last, the ways to a column *)
(* of a row agree, so do its readers, and the cells of a row that are      *)
(* bound again read as they did.                                           *)
(***************************************************************************)
EXTENDS ValuePathInv, FunctionTheorems, SequenceTheorems, FiniteSetTheorems, WellFoundedInduction, TLAPS

-----------------------------------------------------------------------------
(* Powers of two count subsets *)

LEMMA TwoIs ==
  ASSUME NEW n \in Nat
  PROVE  2^n = Cardinality(SUBSET (1..n)) /\ IsFiniteSet(SUBSET (1..n)) /\ 2^n \in Nat
<1>1. IsFiniteSet(1..n) /\ Cardinality(1..n) = n
  BY FS_Interval
<1>2. Cardinality(SUBSET (1..n)) = 2^n /\ IsFiniteSet(SUBSET (1..n))
  BY <1>1, FS_SUBSET
<1>3. Cardinality(SUBSET (1..n)) \in Nat
  BY <1>2, FS_CardinalityType
<1>4. QED BY <1>2, <1>3

LEMMA TwoMono ==
  ASSUME NEW a \in Nat, NEW b \in Nat, a <= b
  PROVE  2^a <= 2^b
<1>1. SUBSET (1..a) \in SUBSET (SUBSET (1..b))
  OBVIOUS
<1>2. Cardinality(SUBSET (1..a)) <= Cardinality(SUBSET (1..b))
  BY ONLY <1>1, TwoIs, FS_Subset
<1>3. QED BY <1>2, TwoIs

\* A subset has the new element or has it not.
LEMMA TwoDouble ==
  ASSUME NEW n \in Nat
  PROVE  2^(n + 1) = 2 * 2^n
<1> DEFINE A == SUBSET (1..n)
           B == {T \in SUBSET (1..(n + 1)) : n + 1 \in T}
           f == [T \in A |-> T \cup {n + 1}]
<1>1. SUBSET (1..(n + 1)) = A \cup B /\ A \cap B = {}
  <2>1. 1..(n + 1) = (1..n) \cup {n + 1} /\ n + 1 \notin 1..n
    OBVIOUS
  <2>2. QED BY <2>1
<1>2. f \in Bijection(A, B)
  <2>1. 1..(n + 1) = (1..n) \cup {n + 1} /\ n + 1 \notin 1..n
    OBVIOUS
  <2>2. f \in [A -> B]
    BY <2>1
  <2>3. \A T, U \in A : f[T] = f[U] => T = U
    BY <2>1
  <2>4. \A V \in B : V \ {n + 1} \in A /\ f[V \ {n + 1}] = V
    BY <2>1
  <2> HIDE DEF A, B, f
  <2>5. QED BY <2>2, <2>3, <2>4 DEF Bijection, Injection, Surjection, IsInjective
<1>3. IsFiniteSet(A) /\ Cardinality(A) = 2^n
  BY TwoIs
<1>4. 2^(n + 1) = Cardinality(SUBSET (1..(n + 1)))
  <2>1. n + 1 \in Nat
    OBVIOUS
  <2>2. QED BY <2>1, TwoIs
<1> HIDE DEF A, B, f
<1>5. IsFiniteSet(B) /\ Cardinality(B) = Cardinality(A)
  BY <1>2, <1>3, FS_Bijection DEF ExistsBijection
<1>6. Cardinality(A \cup B) = Cardinality(A) + Cardinality(B)
  <2>1. Cardinality(A \cup B) = Cardinality(A) + Cardinality(B) - Cardinality(A \cap B)
    BY ONLY <1>3, <1>5, FS_Union
  <2>2. Cardinality(A \cap B) = 0
    BY ONLY <1>1, FS_EmptySet
  <2>3. Cardinality(A) \in Nat /\ Cardinality(B) \in Nat
    BY ONLY <1>3, <1>5, FS_CardinalityType
  <2>4. QED BY ONLY <2>1, <2>2, <2>3
<1>7. QED BY <1>1, <1>3, <1>4, <1>5, <1>6, TwoIs

\* Each integer type of SQL fits the next wider one of Rust, and a bit fits all.
LEMMA WidthsNest ==
  /\ 2^ByteBits <= 2^(2 * ByteBits - 1)
  /\ 2^(2 * ByteBits - 1) <= 2^(4 * ByteBits - 1)
  /\ 2^(4 * ByteBits - 1) <= 2^(8 * ByteBits - 1)
  /\ 2^(4 * ByteBits) = 2 * 2^(4 * ByteBits - 1)
  /\ \A n \in Nat \ {0} : 2^n > 1
<1>1. \A n \in Nat \ {0} : 2^n > 1
  <2>1. ASSUME NEW n \in Nat \ {0} PROVE 2^n > 1
    <3>1. 2^1 <= 2^n
      <4>1. 1 \in Nat /\ n \in Nat /\ 1 <= n
        OBVIOUS
      <4>2. QED BY ONLY <4>1, TwoMono
    <3>2. 2^1 = 2
      OBVIOUS
    <3>3. QED BY <3>1, <3>2, TwoIs
  <2>2. QED BY <2>1
<1>2. /\ 2^ByteBits <= 2^(2 * ByteBits - 1)
      /\ 2^(2 * ByteBits - 1) <= 2^(4 * ByteBits - 1)
      /\ 2^(4 * ByteBits - 1) <= 2^(8 * ByteBits - 1)
  <2>1. /\ ByteBits \in Nat /\ 2 * ByteBits - 1 \in Nat /\ 4 * ByteBits - 1 \in Nat
        /\ 8 * ByteBits - 1 \in Nat /\ ByteBits <= 2 * ByteBits - 1
        /\ 2 * ByteBits - 1 <= 4 * ByteBits - 1 /\ 4 * ByteBits - 1 <= 8 * ByteBits - 1
    BY SqlValuesAssumption
  <2>2. QED BY ONLY <2>1, TwoMono
<1>3. 2^(4 * ByteBits) = 2 * 2^(4 * ByteBits - 1)
  <2> DEFINE n == 4 * ByteBits - 1
  <2>1. n \in Nat /\ 4 * ByteBits = n + 1
    BY SqlValuesAssumption
  <2> HIDE DEF n
  <2>2. 2^(n + 1) = 2 * 2^n
    BY <2>1, TwoDouble
  <2>3. QED BY <2>1, <2>2 DEF n
<1>4. QED BY <1>1, <1>2, <1>3

-----------------------------------------------------------------------------
(* Sequences of anything *)

LEMMA SeqIsTuple ==
  ASSUME NEW S, NEW s \in Seq(S)
  PROVE  IsTuple(s)
<1>1. DOMAIN s = 1..Len(s) /\ Len(s) \in Nat /\ s = [i \in 1..Len(s) |-> s[i]]
  OBVIOUS
<1>2. \A i \in 1..Len(s) : s[i] \in {s[j] : j \in DOMAIN s}
  BY <1>1
<1>3. QED BY <1>1, <1>2 DEF IsTuple

LEMMA TupleIs ==
  ASSUME NEW s, IsTuple(s)
  PROVE  /\ Len(s) \in Nat /\ DOMAIN s = 1..Len(s) /\ s = [i \in 1..Len(s) |-> s[i]]
         /\ s = <<>> <=> Len(s) = 0
BY DEF IsTuple

LEMMA TupleOf ==
  ASSUME NEW n \in Nat, NEW s, s = [i \in 1..n |-> s[i]]
  PROVE  IsTuple(s) /\ Len(s) = n /\ DOMAIN s = 1..n
<1>1. s \in Seq({s[i] : i \in 1..n})
  OBVIOUS
<1>2. QED BY <1>1 DEF IsTuple

LEMMA TupleAppend ==
  ASSUME NEW s, IsTuple(s), NEW e
  PROVE  /\ IsTuple(Append(s, e)) /\ Len(Append(s, e)) = Len(s) + 1
         /\ DOMAIN Append(s, e) = 1..(Len(s) + 1)
         /\ Append(s, e)[Len(s) + 1] = e /\ \A i \in DOMAIN s : Append(s, e)[i] = s[i]
<1> DEFINE S == {s[i] : i \in DOMAIN s} \cup {e}
<1>1. s \in Seq(S) /\ e \in S
  <2>1. {s[i] : i \in DOMAIN s} \subseteq S
    OBVIOUS
  <2>2. s \in Seq({s[i] : i \in DOMAIN s})
    BY DEF IsTuple
  <2> HIDE DEF S
  <2>3. Len(s) \in Nat /\ DOMAIN s = 1..Len(s) /\ s = [i \in 1..Len(s) |-> s[i]]
    BY TupleIs
  <2>4. \A i \in 1..Len(s) : s[i] \in S
    BY <2>1, <2>3
  <2>5. QED BY <2>3, <2>4 DEF S
<1> HIDE DEF S
<1>2. Append(s, e) \in Seq(S) /\ Len(Append(s, e)) = Len(s) + 1
      /\ Append(s, e)[Len(s) + 1] = e /\ \A i \in 1..Len(s) : Append(s, e)[i] = s[i]
  BY <1>1, AppendProperties
<1>3. IsTuple(Append(s, e)) /\ DOMAIN s = 1..Len(s)
  <2>1. IsTuple(Append(s, e))
    BY <1>2, SeqIsTuple
  <2>2. QED BY <1>1, <2>1
<1>4. DOMAIN Append(s, e) = 1..(Len(s) + 1)
  BY <1>2
<1>5. QED BY <1>2, <1>3, <1>4

LEMMA TupleTail ==
  ASSUME NEW s, IsTuple(s), s # <<>>
  PROVE  /\ IsTuple(Tail(s)) /\ Len(Tail(s)) = Len(s) - 1 /\ DOMAIN Tail(s) = 1..(Len(s) - 1)
         /\ Head(s) = s[1] /\ 1 \in DOMAIN s
         /\ \A i \in DOMAIN Tail(s) : i + 1 \in DOMAIN s /\ Tail(s)[i] = s[i + 1]
<1> DEFINE S == {s[i] : i \in DOMAIN s}
<1>1. s \in Seq(S)
  BY DEF IsTuple
<1> HIDE DEF S
<1>2. Tail(s) \in Seq(S) /\ Len(s) \in Nat /\ Len(s) > 0 /\ Len(Tail(s)) = Len(s) - 1
      /\ DOMAIN s = 1..Len(s) /\ Head(s) = s[1]
  BY <1>1
<1>3. IsTuple(Tail(s)) /\ DOMAIN Tail(s) = 1..(Len(s) - 1)
  <2>1. IsTuple(Tail(s))
    BY <1>2, SeqIsTuple
  <2>2. QED BY <1>2, <2>1
<1>4. ASSUME NEW i \in 1..(Len(s) - 1) PROVE i + 1 \in DOMAIN s /\ Tail(s)[i] = s[i + 1]
  BY <1>1, <1>2
<1>5. 1 \in DOMAIN s
  BY <1>2
<1>6. QED BY <1>2, <1>3, <1>4, <1>5

LEMMA TupleFront ==
  ASSUME NEW s, IsTuple(s)
  PROVE  LET f == SubSeq(s, 1, Len(s) - 1)
         IN /\ IsTuple(f) /\ DOMAIN f \subseteq DOMAIN s /\ \A i \in DOMAIN f : f[i] = s[i]
<1> DEFINE S == {s[i] : i \in DOMAIN s}
<1>1. s \in Seq(S)
  BY DEF IsTuple
<1> HIDE DEF S
<1>2. /\ SubSeq(s, 1, Len(s) - 1) \in Seq(S)
      /\ Len(s) \in Nat /\ DOMAIN s = 1..Len(s)
  BY <1>1
<1>3. /\ DOMAIN SubSeq(s, 1, Len(s) - 1) = 1..(Len(s) - 1)
      /\ \A i \in 1..(Len(s) - 1) : SubSeq(s, 1, Len(s) - 1)[i] = s[i]
  BY <1>1, <1>2
<1>4. IsTuple(SubSeq(s, 1, Len(s) - 1))
  BY <1>2, SeqIsTuple
<1>5. QED BY <1>2, <1>3, <1>4

-----------------------------------------------------------------------------
(* The Config *)

LastOf(cs, field) ==
  LET own == {i \in DOMAIN cs : cs[i][1] = field}
  IN IF own = {} THEN Defaults[field]
     ELSE cs[CHOOSE i \in own : \A j \in own : j <= i][2]

LEMMA LastOne ==
  ASSUME NEW cs, IsTuple(cs), NEW field, NEW i \in DOMAIN cs, cs[i][1] = field,
         \A j \in DOMAIN cs : cs[j][1] = field => j <= i
  PROVE  LastOf(cs, field) = cs[i][2]
<1> DEFINE own == {j \in DOMAIN cs : cs[j][1] = field}
           last == CHOOSE k \in own : \A j \in own : j <= k
<1>1. i \in own /\ \A j \in own : j <= i
  OBVIOUS
<1>2. DOMAIN cs = 1..Len(cs) /\ Len(cs) \in Nat
  BY TupleIs
<1>3. own \subseteq Int
  BY <1>2
<1>4. LastOf(cs, field) = cs[last][2]
  BY <1>1 DEF LastOf
<1> HIDE DEF own
<1>5. last \in own /\ \A j \in own : j <= last
  BY <1>1
<1>6. last = i
  BY <1>1, <1>3, <1>5
<1>7. QED BY <1>4, <1>6

\* A call replaces the last value of its own field only.
LEMMA LastAfter ==
  ASSUME NEW cs, IsTuple(cs), NEW f, NEW v, NEW g,
         LET own == {i \in DOMAIN cs : cs[i][1] = g}
         IN own = {} \/ \E i \in own : \A j \in own : j <= i
  PROVE  LET after == Append(cs, <<f, v>>)
             own == {i \in DOMAIN cs : cs[i][1] = g}
             now == {i \in DOMAIN after : after[i][1] = g}
         IN /\ LastOf(after, g) = IF g = f THEN v ELSE LastOf(cs, g)
            /\ g # f => now = own
            /\ g = f => \E i \in now : \A j \in now : j <= i
            /\ \A i \in DOMAIN cs : after[i] = cs[i]
<1> DEFINE after == Append(cs, <<f, v>>)
           n == Len(cs)
           own == {i \in DOMAIN cs : cs[i][1] = g}
           now == {i \in DOMAIN after : after[i][1] = g}
<1>1. /\ IsTuple(after) /\ DOMAIN after = 1..(n + 1) /\ after[n + 1] = <<f, v>>
      /\ \A i \in DOMAIN cs : after[i] = cs[i]
  BY TupleAppend
<1>2. n \in Nat /\ DOMAIN cs = 1..n
  BY TupleIs
<1> HIDE DEF after, n
<1>3. CASE g = f
  <2>1. n + 1 \in DOMAIN after /\ after[n + 1][1] = g /\ after[n + 1][2] = v
    BY <1>1, <1>2, <1>3
  <2>2. \A j \in DOMAIN after : j <= n + 1
    BY <1>1, <1>2
  <2>3. LastOf(after, g) = v
    BY <1>1, <2>1, <2>2, LastOne
  <2>4. QED BY <1>1, <1>3, <2>1, <2>2, <2>3 DEF after
<1>4. CASE g # f
  <2>1. after[n + 1][1] # g
    BY <1>1, <1>4
  <2>2. now = own
    BY <1>1, <1>2, <2>1
  <2>3. LastOf(after, g) = LastOf(cs, g)
    <3>1. CASE own = {}
      BY <2>2, <3>1 DEF LastOf
    <3>2. CASE own # {}
      <4> DEFINE last == CHOOSE i \in own : \A j \in own : j <= i
      <4>1. LastOf(after, g) = after[last][2] /\ LastOf(cs, g) = cs[last][2]
        BY <2>2, <3>2 DEF LastOf
      <4>2. last \in own
        BY <3>2
      <4>3. QED BY <1>1, <4>1, <4>2
    <3>3. QED BY <3>1, <3>2
  <2>4. QED BY <1>1, <1>4, <2>2, <2>3 DEF after
<1>5. QED BY <1>3, <1>4

LEMMA FieldsSame ==
  /\ Defaults = [f \in DOMAIN Domain |-> Defaults[f]]
  /\ {"host", "port", "database", "auth", "trust_cert", "server_certificate",
      "host_name_in_certificate", "readonly", "encryption", "application_name",
      "instance_name", "client_name", "unicode", "multi_subnet_failover", "transport",
      "security_context_provider"} = DOMAIN Domain
<1>1. DOMAIN Defaults = DOMAIN Domain
  BY DEF Defaults, Domain
<1>2. Defaults = [f \in DOMAIN Defaults |-> Defaults[f]]
  BY DEF Defaults
<1>3. {"host", "port", "database", "auth", "trust_cert", "server_certificate",
      "host_name_in_certificate", "readonly", "encryption", "application_name",
      "instance_name", "client_name", "unicode", "multi_subnet_failover", "transport",
      "security_context_provider"} = DOMAIN Domain
  BY DEF Domain
<1>4. QED BY <1>1, <1>2, <1>3

LEMMA ConfigInitInv == ConfigInit => ConfigInv
<1>1. SUFFICES ASSUME ConfigInit PROVE ConfigInv
  OBVIOUS
<1>2. IsTuple(calls) /\ DOMAIN calls = {}
  BY <1>1 DEF ConfigInit, IsTuple
<1>3. ASSUME NEW f PROVE CallsOf(f) = {} /\ LastSet(f) = Defaults[f]
  BY <1>2 DEF CallsOf, LastSet
<1>4. QED BY <1>1, <1>2, <1>3, FieldsSame DEF ConfigInit, ConfigInv

LEMMA CallKeeps ==
  ASSUME ConfigInv, NEW f \in DOMAIN Domain, NEW v \in Domain[f], Call(f, v)
  PROVE  ConfigInv'
<1>1. /\ calls' = Append(calls, <<f, v>>) /\ config' = [config EXCEPT ![f] = v]
      /\ link = Unset /\ link' = link /\ IsTuple(calls)
      /\ config = [g \in DOMAIN Domain |-> config[g]]
  BY DEF Call, Set, ConfigInv
<1>2. IsTuple(calls')
  BY <1>1, TupleAppend
<1>3. config' = [g \in DOMAIN Domain |-> IF g = f THEN v ELSE config[g]]
  BY <1>1
<1>4. ASSUME NEW g \in DOMAIN Domain
      PROVE  /\ config'[g] = LastSet(g)' /\ config'[g] \in Domain[g] \cup {Defaults[g]}
             /\ CallsOf(g)' = {} \/ \E i \in CallsOf(g)' : \A j \in CallsOf(g)' : j <= i
  <2>1. /\ config[g] = LastOf(calls, g) /\ config[g] \in Domain[g] \cup {Defaults[g]}
        /\ CallsOf(g) = {} \/ \E i \in CallsOf(g) : \A j \in CallsOf(g) : j <= i
    BY DEF ConfigInv, LastSet, LastOf
  <2>2. /\ LastOf(calls', g) = IF g = f THEN v ELSE LastOf(calls, g)
        /\ g # f => CallsOf(g)' = CallsOf(g)
        /\ g = f => \E i \in CallsOf(g)' : \A j \in CallsOf(g)' : j <= i
    BY <1>1, <2>1, LastAfter DEF CallsOf
  <2>3. LastSet(g)' = LastOf(calls', g)
    BY DEF LastSet, LastOf
  <2>4. CASE g = f
    BY <1>3, <2>2, <2>3, <2>4
  <2>5. CASE g # f
    BY <1>3, <2>1, <2>2, <2>3, <2>5
  <2>6. QED BY <2>4, <2>5
<1>5. config' = [g \in DOMAIN Domain |-> config'[g]]
  BY <1>3
<1>6. QED BY <1>1, <1>2, <1>4, <1>5 DEF ConfigInv

LEMMA ConnectKeeps ==
  ASSUME ConfigInv, Connect
  PROVE  ConfigInv'
<1>1. /\ config' = config /\ calls' = calls
      /\ link' = [source |-> DatasourceString(config'), context |-> ToClientContext(config')]
  BY DEF Connect
<1>2. /\ IsTuple(calls') /\ config' = [f \in DOMAIN Domain |-> config'[f]]
      /\ \A f \in DOMAIN Domain :
           /\ config'[f] = LastSet(f)' /\ config'[f] \in Domain[f] \cup {Defaults[f]}
           /\ CallsOf(f)' = {} \/ \E i \in CallsOf(f)' : \A j \in CallsOf(f)' : j <= i
  BY <1>1 DEF ConfigInv, LastSet, CallsOf
<1>3. QED BY <1>1, <1>2 DEF ConfigInv

LEMMA SameConfigKeeps ==
  ASSUME ConfigInv, UNCHANGED configVars
  PROVE  ConfigInv'
<1>1. config' = config /\ calls' = calls /\ link' = link
  BY DEF configVars
<1>2. \A f : LastSet(f)' = LastSet(f) /\ CallsOf(f)' = CallsOf(f)
  BY <1>1 DEF LastSet, CallsOf
<1>3. QED BY <1>1, <1>2 DEF ConfigInv

\* What the driver is given, by the fields of the Config.
LEMMA LinkIs == ConfigInv => LinkAsSet
<1> DEFINE auth == LastSet("auth")
           transport == LastSet("transport")
           instance == LastSet("instance_name")
           to == link.source
           with == link.context
<1> SUFFICES ASSUME ConfigInv, link # Unset
             PROVE  /\ \A f \in DOMAIN HandedOn : with[HandedOn[f]] = LastSet(f)
                    /\ with.method = auth.method
                    /\ {with.user, with.access_token} \ {Unset} = {auth.secret} \ {Unset}
                    /\ with.user # Unset => auth.method = "sql"
                    /\ (with.mode = "PreferOff") <=> (LastSet("encryption") \in {"Off", "NotSupported"})
                    /\ (with.intent = "ReadOnly") <=> LastSet("readonly")
                    /\ to.transport = transport.kind /\ to.pipe = transport.pipe
                    /\ IF to.pipe # Unset THEN to.host = Unset /\ to.port = Unset /\ to.instance = Unset
                       ELSE /\ to.instance = instance
                            /\ to.host \in {LastSet("host"), "."}
                            /\ to.port = IF transport.kind = "tcp" /\ instance = Unset
                                         THEN LastSet("port") ELSE Unset
  BY DEF LinkAsSet
<1>1. /\ link = [source |-> DatasourceString(config), context |-> ToClientContext(config)]
      /\ \A f \in DOMAIN Domain : config[f] = LastSet(f) /\ config[f] \in Domain[f] \cup {Defaults[f]}
  BY DEF ConfigInv
<1>2. with = ToClientContext(config) /\ to = DatasourceString(config)
  BY <1>1
<1>3. /\ config.host = LastSet("host") /\ config.port = LastSet("port")
      /\ config.database = LastSet("database") /\ config.auth = auth
      /\ config.trust_cert = LastSet("trust_cert")
      /\ config.server_certificate = LastSet("server_certificate")
      /\ config.host_name_in_certificate = LastSet("host_name_in_certificate")
      /\ config.readonly = LastSet("readonly") /\ config.encryption = LastSet("encryption")
      /\ config.application_name = LastSet("application_name")
      /\ config.instance_name = instance /\ config.client_name = LastSet("client_name")
      /\ config.multi_subnet_failover = LastSet("multi_subnet_failover")
      /\ config.transport = transport
      /\ config.security_context_provider = LastSet("security_context_provider")
  BY <1>1, FieldsSame
<1>4. auth \in Auths \cup {[method |-> "sql", secret |-> NoSecret]}
  BY <1>1, <1>3, FieldsSame DEF Domain, Defaults
<1>5. transport \in Transports
  BY <1>1, <1>3, FieldsSame DEF Domain, Defaults, Transports
<1>6. config.readonly \in BOOLEAN
  <2>1. Domain["readonly"] = BOOLEAN /\ Defaults["readonly"] = FALSE
    BY DEF Domain, Defaults
  <2>2. config["readonly"] \in Domain["readonly"] \cup {Defaults["readonly"]}
    BY <1>1, FieldsSame
  <2>3. QED BY <2>1, <2>2
<1> HIDE DEF auth, transport, instance, to, with
<1>7. ASSUME NEW f \in DOMAIN HandedOn PROVE with[HandedOn[f]] = LastSet(f)
  BY <1>2, <1>3 DEF HandedOn, ToClientContext
<1>8. /\ with.method = auth.method
      /\ {with.user, with.access_token} \ {Unset} = {auth.secret} \ {Unset}
      /\ with.user # Unset => auth.method = "sql"
  <2>1. /\ with.method = auth.method
        /\ with.user = IF auth.method = "sql" THEN auth.secret ELSE Unset
        /\ with.access_token = IF auth.method = "token" THEN auth.secret ELSE Unset
    BY <1>2, <1>3 DEF ToClientContext
  <2>2. \/ auth.method \in {"sql", "token"}
        \/ auth.method = "integrated" /\ auth.secret = Unset
    BY <1>4 DEF Auths
  <2>3. QED BY <2>1, <2>2
<1>9. (with.mode = "PreferOff") <=> (LastSet("encryption") \in {"Off", "NotSupported"})
  <2>1. with.mode = Mode(LastSet("encryption"))
    BY <1>2, <1>3 DEF ToClientContext
  <2>2. LastSet("encryption") \in Levels
    BY <1>1, FieldsSame DEF Domain, Defaults, Levels
  <2>3. QED BY <2>1, <2>2 DEF Mode, Levels
<1>10. (with.intent = "ReadOnly") <=> LastSet("readonly")
  <2>1. with.intent = IF config.readonly THEN "ReadOnly" ELSE "ReadWrite"
    BY <1>2 DEF ToClientContext
  <2>2. QED BY <1>3, <1>6, <2>1
<1>11. to.transport = transport.kind /\ to.pipe = transport.pipe
  BY <1>2, <1>3 DEF DatasourceString
<1>12. IF to.pipe # Unset THEN to.host = Unset /\ to.port = Unset /\ to.instance = Unset
       ELSE /\ to.instance = instance
            /\ to.host \in {LastSet("host"), "."}
            /\ to.port = IF transport.kind = "tcp" /\ instance = Unset THEN LastSet("port") ELSE Unset
  <2>1. /\ to.host = IF transport.pipe # Unset THEN Unset
                     ELSE IF transport.kind = "pipe" /\ LastSet("host") \in {".", "localhost"}
                          THEN "." ELSE LastSet("host")
        /\ to.port = IF transport.kind = "tcp" /\ instance = Unset THEN LastSet("port") ELSE Unset
        /\ to.instance = IF transport.pipe # Unset THEN Unset ELSE instance
    BY <1>2, <1>3 DEF DatasourceString
  <2>2. transport.pipe # Unset => transport.kind = "pipe"
    BY <1>5 DEF Transports
  <2>3. QED BY <1>11, <2>1, <2>2
<1>13. QED BY <1>7, <1>8, <1>9, <1>10, <1>11, <1>12

-----------------------------------------------------------------------------
(* Cells and parameters *)

LEMMA Joined ==
  ASSUME NEW k, NEW p
  PROVE  /\ Tail(<<k, p>>) = <<p>> /\ Tail(<<k>>) = <<>>
         /\ <<k>> \o <<p>> = <<k, p>> /\ <<k>> \o <<>> = <<k>>
<1>1. Tail(<<k, p>>) = <<p>> /\ Tail(<<k>>) = <<>>
  OBVIOUS
<1>2. <<k>> \o <<p>> = <<k, p>>
  <2> DEFINE S == {k, p}
             a == <<k>>
             b == <<p>>
             c == <<k, p>>
  <2>1. /\ a \in Seq(S) /\ b \in Seq(S) /\ c \in Seq(S)
        /\ Len(a) = 1 /\ Len(b) = 1 /\ Len(c) = 2
    <3>1. k \in S /\ p \in S
      OBVIOUS
    <3> HIDE DEF S
    <3>2. a \in Seq(S) /\ Len(a) = 1
      BY <3>1
    <3>3. b \in Seq(S) /\ Len(b) = 1
      BY <3>1
    <3>4. c \in Seq(S) /\ Len(c) = 2
      BY <3>1
    <3>5. QED BY <3>2, <3>3, <3>4
  <2>2. a[1] = k /\ b[1] = p /\ c[1] = k /\ c[2] = p
    OBVIOUS
  <2> HIDE DEF S, a, b, c
  <2>3. a \o b \in Seq(S) /\ Len(a \o b) = 2 /\ (a \o b)[1] = k /\ (a \o b)[2] = p
    <3>1. /\ a \o b \in Seq(S) /\ Len(a \o b) = Len(a) + Len(b)
          /\ \A i \in 1..(Len(a) + Len(b)) :
               (a \o b)[i] = IF i <= Len(a) THEN a[i] ELSE b[i - Len(a)]
      BY <2>1, ConcatProperties
    <3>2. (a \o b)[1] = a[1]
      BY <2>1, <3>1
    <3>3. (a \o b)[2] = b[1]
      BY <2>1, <3>1
    <3>4. QED BY <2>1, <2>2, <3>1, <3>2, <3>3
  <2>4. \A i \in 1..Len(a \o b) : (a \o b)[i] = c[i]
    BY <2>2, <2>3
  <2>5. a \o b = c
    BY <2>1, <2>3, <2>4, SeqEqual
  <2>6. QED BY <2>5 DEF a, b, c
<1>3. <<k>> \o <<>> = <<k>>
  <2>1. <<k>> \in Seq({k})
    OBVIOUS
  <2>2. QED BY <2>1, ConcatEmptySeq
<1>4. QED BY <1>1, <1>2, <1>3

LEMMA Tuples ==
  ASSUME NEW k, NEW p
  PROVE  /\ Kind(<<k, p>>) = k /\ Payload(<<k, p>>) = p /\ IsNone(<<k, p>>) = FALSE
         /\ Kind(<<k>>) = k /\ IsNone(<<k>>) = TRUE
         /\ Tail(<<k, p>>) = <<p>> /\ Tail(<<k>>) = <<>>
         /\ <<k>> \o <<p>> = <<k, p>> /\ <<k>> \o <<>> = <<k>>
<1>1. Kind(<<k, p>>) = k /\ Payload(<<k, p>>) = p /\ Kind(<<k>>) = k
  BY DEF Kind, Payload
<1>2. IsNone(<<k, p>>) = FALSE /\ IsNone(<<k>>) = TRUE
  BY DEF IsNone
<1>3. QED BY <1>1, <1>2, Joined

LEMMA Retagged ==
  ASSUME NEW k, NEW p, NEW table
  PROVE  Retag(table, <<k, p>>) = <<table[k], p>> /\ Retag(table, <<k>>) = <<table[k]>>
<1>1. /\ Retag(table, <<k, p>>) = <<table[k]>> \o Tail(<<k, p>>)
      /\ Retag(table, <<k>>) = <<table[k]>> \o Tail(<<k>>)
  BY DEF Retag, Kind
<1>2. <<table[k]>> \o <<p>> = <<table[k], p>> /\ <<table[k]>> \o <<>> = <<table[k]>>
  BY Joined
<1>3. Tail(<<k, p>>) = <<p>> /\ Tail(<<k>>) = <<>>
  BY Joined
<1>4. QED BY <1>1, <1>2, <1>3, Zenon

LEMMA CellsLike ==
  ASSUME NEW c \in Cells \cup {Null}
  PROVE  CellLike(c)
<1>1. CASE c = Null
  BY <1>1 DEF CellLike
<1>2. ASSUME NEW k \in CellKinds, NEW p, c = <<k, p>>, k \in TextKinds => p \in Texts
      PROVE CellLike(c)
  BY <1>2 DEF CellLike
<1>3. CASE c \in Cells
  <2>1. \/ \E b \in BOOLEAN : c = <<"Bit", b>>
        \/ \E n \in IntsOf("u8") : c = <<"TinyInt", n>>
        \/ \E n \in IntsOf("i16") : c = <<"SmallInt", n>>
        \/ \E n \in IntsOf("i32") : c = <<"Int", n>>
        \/ \E n \in IntsOf("i64") : c = <<"BigInt", n>>
        \/ \E p \in PayloadsIn("f32") : c = <<"Real", p>>
        \/ \E p \in PayloadsIn("f64") : c = <<"Float", p>>
        \/ \E kind \in {"Decimal", "Numeric"} : \E d \in Parts : c = <<kind, d>>
        \/ \E high \in Halves : \E low \in Halves : c = <<"Money", <<high, low>>>>
        \/ \E n \in IntsOf("i32") : c = <<"SmallMoney", n>>
        \/ \E kind \in TextKinds : \E t \in Texts : c = <<kind, t>>
        \/ c = <<"Bytes", "bytes">> \/ c = <<"Uuid", "uuid">> \/ c = <<"Vector", "vector">>
        \/ \E kind \in Temporals : c = <<kind, "time">>
    BY <1>3 DEF Cells
  <2>2. \E k \in CellKinds : \E p : c = <<k, p>> /\ (k \in TextKinds => p \in Texts)
    BY <2>1 DEF CellKinds, TextKinds, Temporals
  <2>3. QED BY <1>2, <2>2
<1>4. QED BY <1>1, <1>3

\* A cell is NULL or a variant with a payload.
LEMMA CellIs ==
  ASSUME NEW c, CellLike(c), c # Null
  PROVE  /\ c = <<c[1], c[2]>> /\ Kind(c) = c[1] /\ Payload(c) = c[2] /\ c[1] \in CellKinds
         /\ c[1] \in TextKinds => c[2] \in Texts /\ DecodedOf(c) = <<c[2]>>
         /\ c[1] \notin TextKinds => DecodedOf(c) = <<>>
BY DEF CellLike, Kind, Payload, DecodedOf

LEMMA NullIs ==
  Kind(Null) = "Null" /\ DecodedOf(Null) = <<>> /\ "Null" \notin CellKinds /\ "Null" \notin TextKinds
BY DEF Null, Kind, DecodedOf, TextKinds, CellKinds

\* Kinds of parameters, by the kinds of the cells that are bound as them.
LEMMA DataIs ==
  ASSUME NEW k \in CellKinds, NEW p, NEW ty, NEW ds, ds = IF k \in TextKinds THEN <<p>> ELSE <<>>
  PROVE  ColumnDataRef(<<k, p>>, ds, ty)
           = CASE k = "Vector"        -> <<"Native", <<k, p>>>>
               [] k \in DOMAIN DataOf -> <<DataOf[k], p>>
               [] OTHER               -> <<k, p>>
<1>1. <<k, p>> # Null
  BY DEF Null
<1>2. CASE k = "Vector"
  BY <1>1, <1>2, Tuples, Retagged DEF ColumnDataRef, TextKinds, DataOf
<1>3. CASE k \in TextKinds
  <2>1. k # "Vector" /\ k \notin DOMAIN DataOf
    BY <1>3 DEF TextKinds, DataOf
  <2>2. <<k>> \o ds = <<k, p>> /\ ds # <<>>
    BY <1>3, Tuples
  <2>3. QED BY <1>1, <1>3, <2>1, <2>2, Tuples, Retagged DEF ColumnDataRef, TextKinds, DataOf
<1>4. CASE k \notin TextKinds /\ k # "Vector" /\ k \in DOMAIN DataOf
  <2>1. Kind(<<k, p>>) = k
    BY Tuples
  <2>2. Retag(DataOf, <<k, p>>) = <<DataOf[k], p>>
    BY Retagged
  <2>3. QED BY <1>1, <1>4, <2>1, <2>2 DEF ColumnDataRef, TextKinds
<1>5. CASE k \notin TextKinds /\ k # "Vector" /\ k \notin DOMAIN DataOf
  BY <1>1, <1>5, Tuples, Retagged DEF ColumnDataRef, TextKinds, DataOf
<1>6. QED BY <1>2, <1>3, <1>4, <1>5

BindsAs(k) ==
  CASE k = "String" -> {"NVarchar", "NVarcharMax"} [] k = "Bytes" -> {"VarBinaryMax"}
    [] k = "Decimal" -> {"Numeric"} [] OTHER -> {k}

LEMMA CellBoundAs ==
  ASSUME NEW k \in CellKinds, NEW p, NEW ty, NEW ds, ds = IF k \in TextKinds THEN <<p>> ELSE <<>>
  PROVE  \E kind \in BindsAs(k) : DataToSql(ColumnDataRef(<<k, p>>, ds, ty)) = <<kind, p>>
<1> DEFINE data == ColumnDataRef(<<k, p>>, ds, ty)
<1>1. data = CASE k = "Vector"        -> <<"Native", <<k, p>>>>
               [] k \in DOMAIN DataOf -> <<DataOf[k], p>>
               [] OTHER               -> <<k, p>>
  BY DataIs
<1> HIDE DEF data
<1>2. CASE k = "Vector"
  <2>1. DataToSql(data) = <<k, p>>
    <3>1. data = <<"Native", <<k, p>>>>
      <4>1. k \notin DOMAIN DataOf
        BY <1>2 DEF DataOf
      <4>2. QED BY <1>1, <1>2, <4>1
    <3>2. Kind(data) = "Native" /\ Payload(data) = <<k, p>>
      BY <3>1 DEF Kind, Payload
    <3>3. QED BY <3>2 DEF DataToSql, IntoNative
  <2>2. QED BY <1>2, <2>1 DEF BindsAs, data
<1>3. CASE k = "String"
  <2>1. data = <<"String", p>>
    BY <1>1, <1>3 DEF DataOf
  <2>2. DataToSql(data) \in {<<"NVarcharMax", p>>, <<"NVarchar", p>>}
    <3>1. Kind(data) = "String" /\ Payload(data) = p /\ IsNone(data) = FALSE
      BY <2>1, Tuples
    <3>2. Retag([String |-> "NVarchar"], data) = <<"NVarchar", p>>
      <4>1. Retag([String |-> "NVarchar"], data) = <<[String |-> "NVarchar"]["String"], p>>
        BY <2>1, Retagged
      <4>2. QED BY <4>1
    <3>3. QED BY <3>1, <3>2 DEF DataToSql, IntoNative
  <2>3. QED BY <1>3, <2>2 DEF BindsAs, data
<1>4. CASE k \in DOMAIN DataOf
  <2>1. data = <<DataOf[k], p>>
    BY <1>1, <1>4 DEF DataOf
  <2>2. CASE DataOf[k] \in DOMAIN IntoNative
    <3>1. DataOf[k] \notin {"Native", "String"}
      BY <1>4 DEF DataOf
    <3>2. DataToSql(data) = <<IntoNative[DataOf[k]], p>>
      <4>1. Kind(data) = DataOf[k] /\ Retag(IntoNative, data) = <<IntoNative[DataOf[k]], p>>
        <5>1. Kind(data) = DataOf[k]
          BY <2>1, Tuples
        <5>2. Retag(IntoNative, data) = <<IntoNative[DataOf[k]], p>>
          BY <2>1, Retagged
        <5>3. QED BY <5>1, <5>2
      <4>2. QED BY <2>2, <3>1, <4>1 DEF DataToSql
    <3>3. IntoNative[DataOf[k]] \in BindsAs(k)
      BY <1>4, <2>2 DEF IntoNative, DataOf, BindsAs
    <3>4. QED BY <3>2, <3>3 DEF data
  <2>3. CASE DataOf[k] \notin DOMAIN IntoNative
    <3>1. k = "Decimal" /\ DataOf[k] = "Numeric"
      BY <1>4, <2>3 DEF IntoNative, DataOf
    <3>2. DataToSql(data) = <<"Numeric", p>>
      BY <2>1, <3>1, Tuples, Retagged DEF DataToSql, IntoNative
    <3>3. QED BY <3>1, <3>2 DEF data, BindsAs
  <2>4. QED BY <2>2, <2>3
<1>5. CASE k \notin DOMAIN DataOf /\ k # "Vector" /\ k # "String"
  <2>1. data = <<k, p>>
    BY <1>1, <1>5
  <2>2. k \notin DOMAIN IntoNative /\ k \notin {"Native", "Bytes", "Decimal"}
    BY <1>5 DEF CellKinds, IntoNative, DataOf
  <2>3. DataToSql(data) = <<k, p>>
    BY <1>5, <2>1, <2>2, Tuples, Retagged DEF DataToSql, IntoNative
  <2>4. QED BY <1>5, <2>2, <2>3 DEF data, BindsAs
<1>6. QED BY <1>2, <1>3, <1>4, <1>5

\* What the server echoes for a parameter with a payload, and the cell it was.
LEMMA EchoIs ==
  ASSUME NEW kind, NEW p, NEW u \in BOOLEAN
  PROVE  LET sent == EncodeStringParameters(<<kind, p>>, u)
         IN /\ sent = <<sent[1], p>>
            /\ sent[1] = IF ~u /\ kind \in DOMAIN NonUnicode THEN NonUnicode[kind] ELSE kind
            /\ EchoCell(sent) = IF sent[1] \in DOMAIN EchoKind THEN <<EchoKind[sent[1]], p>> ELSE sent
<1> DEFINE sent == EncodeStringParameters(<<kind, p>>, u)
<1>1. sent = IF ~u /\ kind \in DOMAIN NonUnicode THEN <<NonUnicode[kind], p>> ELSE <<kind, p>>
  <2>1. Kind(<<kind, p>>) = kind
        /\ Retag(NonUnicode, <<kind, p>>) = <<NonUnicode[kind], p>>
    <3>1. Kind(<<kind, p>>) = kind
      BY Tuples
    <3>2. Retag(NonUnicode, <<kind, p>>) = <<NonUnicode[kind], p>>
      BY Retagged
    <3>3. QED BY <3>1, <3>2
  <2>2. QED BY <2>1 DEF EncodeStringParameters
<1> HIDE DEF sent
<1>2. sent = <<sent[1], p>>
      /\ sent[1] = IF ~u /\ kind \in DOMAIN NonUnicode THEN NonUnicode[kind] ELSE kind
  BY <1>1
<1>3. EchoCell(sent) = IF sent[1] \in DOMAIN EchoKind THEN <<EchoKind[sent[1]], p>> ELSE sent
  <2>1. Kind(sent) = sent[1] /\ IsNone(sent) = FALSE
        /\ Retag(EchoKind, sent) = <<EchoKind[sent[1]], p>>
    <3> DEFINE j == sent[1]
    <3>1. sent = <<j, p>>
      BY <1>2
    <3> HIDE DEF j
    <3>2. Kind(sent) = j /\ IsNone(sent) = FALSE
      BY <3>1, Tuples
    <3>3. Retag(EchoKind, sent) = <<EchoKind[j], p>>
      BY <3>1, Retagged
    <3>4. QED BY <3>2, <3>3 DEF j
  <2>2. QED BY <2>1 DEF EchoCell
<1>4. QED BY <1>2, <1>3 DEF sent

LEMMA EchoNull ==
  ASSUME NEW kind, NEW u \in BOOLEAN
  PROVE  LET sent == EncodeStringParameters(<<kind>>, u)
         IN /\ sent = <<sent[1]>> /\ EchoCell(sent) = Null
            /\ sent[1] = IF ~u /\ kind \in DOMAIN NonUnicode THEN NonUnicode[kind] ELSE kind
<1> DEFINE sent == EncodeStringParameters(<<kind>>, u)
<1>1. sent = IF ~u /\ kind \in DOMAIN NonUnicode THEN <<NonUnicode[kind]>> ELSE <<kind>>
  <2>1. Kind(<<kind>>) = kind
    BY Tuples
  <2>2. Retag(NonUnicode, <<kind>>) = <<NonUnicode[kind]>>
    BY Retagged
  <2>3. QED BY <2>1, <2>2 DEF EncodeStringParameters
<1> HIDE DEF sent
<1>2. sent = <<sent[1]>>
      /\ sent[1] = IF ~u /\ kind \in DOMAIN NonUnicode THEN NonUnicode[kind] ELSE kind
  BY <1>1
<1>3. EchoCell(sent) = Null
  BY <1>2, Tuples, Retagged DEF EchoCell
<1>4. QED BY <1>2, <1>3 DEF sent

\* What is sent and what comes back is a parameter and a cell.
LEMMA EchoLike ==
  ASSUME NEW x, ParamLike(x), NEW u \in BOOLEAN
  PROVE  /\ ParamLike(EncodeStringParameters(x, u))
         /\ CellLike(EchoCell(EncodeStringParameters(x, u)))
<1> DEFINE sent == EncodeStringParameters(x, u)
<1>1. x[1] \in DOMAIN EchoTds
  BY DEF ParamLike
<1>2. (IF ~u /\ x[1] \in DOMAIN NonUnicode THEN NonUnicode[x[1]] ELSE x[1]) \in DOMAIN EchoTds
  BY <1>1 DEF NonUnicode, EchoTds
<1>3. CASE x = <<x[1]>>
  <2>1. sent = <<sent[1]>> /\ EchoCell(sent) = Null /\ sent[1] \in DOMAIN EchoTds
    BY <1>2, <1>3, EchoNull
  <2>2. QED BY <2>1 DEF ParamLike, CellLike
<1>4. CASE x = <<x[1], x[2]>> /\ (x[1] \in ParamTexts => x[2] \in Texts)
  <2>1. /\ sent = <<sent[1], x[2]>> /\ sent[1] \in DOMAIN EchoTds
        /\ sent[1] = IF ~u /\ x[1] \in DOMAIN NonUnicode THEN NonUnicode[x[1]] ELSE x[1]
        /\ EchoCell(sent) = IF sent[1] \in DOMAIN EchoKind THEN <<EchoKind[sent[1]], x[2]>> ELSE sent
    <3> DEFINE k == x[1]
               p == x[2]
    <3>1. sent = EncodeStringParameters(<<k, p>>, u)
      BY <1>4
    <3> HIDE DEF k, p, sent
    <3>2. /\ sent = <<sent[1], p>>
          /\ sent[1] = IF ~u /\ k \in DOMAIN NonUnicode THEN NonUnicode[k] ELSE k
          /\ EchoCell(sent) = IF sent[1] \in DOMAIN EchoKind THEN <<EchoKind[sent[1]], p>> ELSE sent
      BY <3>1, EchoIs
    <3>3. QED BY <1>2, <3>2 DEF k, p
  <2>2. sent[1] \in ParamTexts => x[1] \in ParamTexts
    BY <2>1 DEF ParamTexts, NonUnicode
  <2> HIDE DEF sent
  <2>3. ParamLike(sent)
    BY <1>4, <2>1, <2>2 DEF ParamLike
  <2>4. CASE sent[1] \in DOMAIN EchoKind
    <3>1. EchoKind[sent[1]] \in {"String", "Bytes"} /\ (EchoKind[sent[1]] = "String" => sent[1] \in ParamTexts)
      BY <2>4 DEF EchoKind, ParamTexts
    <3>2. EchoKind[sent[1]] \in CellKinds /\ (EchoKind[sent[1]] \in TextKinds => x[2] \in Texts)
      BY <1>4, <2>2, <3>1 DEF CellKinds, TextKinds
    <3>3. QED BY <2>1, <2>3, <2>4, <3>2 DEF CellLike, sent
  <2>5. CASE sent[1] \notin DOMAIN EchoKind
    <3>1. sent[1] \in CellKinds /\ (sent[1] \in TextKinds => sent[1] \in ParamTexts)
      BY <2>1, <2>5 DEF EchoKind, EchoTds, CellKinds, TextKinds, ParamTexts
    <3>2. sent[1] \in TextKinds => x[2] \in Texts
      BY <1>4, <2>2, <3>1
    <3>3. EchoCell(sent) = <<sent[1], x[2]>>
      BY <2>1, <2>5
    <3>4. CellLike(EchoCell(sent))
      BY <3>1, <3>2, <3>3 DEF CellLike
    <3>5. QED BY <2>3, <3>4 DEF sent
  <2>6. QED BY <2>4, <2>5
<1>5. QED BY <1>3, <1>4 DEF ParamLike

-----------------------------------------------------------------------------
(* What callers bind *)

DataKinds == {"Bit", "U8", "I16", "I32", "I64", "F32", "F64", "Numeric", "Money", "SmallMoney",
  "Time", "DateTime2", "DateTimeOffset", "SmallDateTime", "DateTime", "Date", "String", "Binary",
  "Json", "Xml", "Guid"}
DataLike(d) ==
  \/ \E x : d = <<"Native", x>> /\ ParamLike(x) /\ x[1] = "Vector"
  \/ \E k \in DataKinds : d = <<k>> \/ \E p : d = <<k, p>> /\ (k \in TextKinds => p \in Texts)

\* ColumnData as a parameter: one the server knows, and text always has room.
LEMMA DataParam ==
  ASSUME NEW d, DataLike(d)
  PROVE  ParamLike(DataToSql(d)) /\ HasRoom(DataToSql(d))
<1>1. ASSUME NEW x, d = <<"Native", x>>, ParamLike(x), x[1] = "Vector"
      PROVE  ParamLike(DataToSql(d)) /\ HasRoom(DataToSql(d))
  <2>1. Kind(d) = "Native" /\ Payload(d) = x
    BY <1>1, Tuples
  <2>2. DataToSql(d) = x
    BY <2>1 DEF DataToSql, IntoNative
  <2>3. HasRoom(x)
    BY <1>1 DEF HasRoom, Kind
  <2>4. QED BY <1>1, <2>2, <2>3
<1>2. ASSUME NEW k \in DataKinds, d = <<k>>
      PROVE  ParamLike(DataToSql(d)) /\ HasRoom(DataToSql(d))
  <2>1. Kind(d) = k /\ IsNone(d) = TRUE
    BY <1>2, Tuples
  <2>2. k # "Native"
    BY DEF DataKinds
  <2>3. CASE k = "String"
    <3>1. Retag([String |-> "NVarchar"], d) = <<[String |-> "NVarchar"]["String"]>>
      BY <1>2, <2>3, Retagged
    <3>2. DataToSql(d) = <<"NVarchar">>
      BY <2>1, <2>3, <3>1 DEF DataToSql, IntoNative
    <3>3. IsNone(<<"NVarchar">>) = TRUE
      BY Tuples
    <3>4. QED BY <3>2, <3>3 DEF ParamLike, EchoTds, HasRoom
  <2>4. CASE k \in DOMAIN IntoNative
    <3>1. k # "String"
      BY <2>4 DEF IntoNative
    <3>2. Retag(IntoNative, d) = <<IntoNative[k]>>
      BY <1>2, Retagged
    <3>3. DataToSql(d) = <<IntoNative[k]>>
      BY <2>1, <2>2, <2>4, <3>1, <3>2 DEF DataToSql
    <3>4. IntoNative[k] \in DOMAIN EchoTds /\ IntoNative[k] \notin {"NVarchar", "Varchar"}
      BY <2>4 DEF IntoNative, EchoTds
    <3>5. QED BY <3>3, <3>4 DEF ParamLike, HasRoom, Kind
  <2>5. CASE k # "String" /\ k \notin DOMAIN IntoNative
    <3>1. DataToSql(d) = <<k>>
      BY <1>2, <2>1, <2>2, <2>5 DEF DataToSql
    <3>2. k \in DOMAIN EchoTds /\ k \notin {"NVarchar", "Varchar"}
      BY <2>5 DEF IntoNative, EchoTds, DataKinds
    <3>3. QED BY <3>1, <3>2 DEF ParamLike, HasRoom, Kind
  <2>6. QED BY <2>3, <2>4, <2>5
<1>3. ASSUME NEW k \in DataKinds, NEW p, d = <<k, p>>, k \in TextKinds => p \in Texts
      PROVE  ParamLike(DataToSql(d)) /\ HasRoom(DataToSql(d))
  <2>1. Kind(d) = k /\ IsNone(d) = FALSE /\ Payload(d) = p
    BY <1>3, Tuples
  <2>2. k # "Native"
    BY DEF DataKinds
  <2>3. CASE k = "String"
    <3>1. Retag([String |-> "NVarchar"], d) = <<[String |-> "NVarchar"]["String"], p>>
      BY <1>3, <2>3, Retagged
    <3>2. DataToSql(d) = IF Len(p) > MaxUnits THEN <<"NVarcharMax", p>> ELSE <<"NVarchar", p>>
      BY <2>1, <2>3, <3>1 DEF DataToSql, IntoNative
    <3>3. p \in Texts /\ Len(p) \in Nat /\ MaxUnits \in Nat
      BY <1>3, <2>3, SqlValuesAssumption DEF TextKinds
    <3>4. Kind(<<"NVarchar", p>>) = "NVarchar" /\ Payload(<<"NVarchar", p>>) = p
          /\ Kind(<<"NVarcharMax", p>>) = "NVarcharMax"
      BY Tuples
    <3>5. ParamLike(<<"NVarcharMax", p>>) /\ ParamLike(<<"NVarchar", p>>)
      BY <3>3 DEF ParamLike, EchoTds
    <3>6. HasRoom(<<"NVarcharMax", p>>)
      BY <3>4 DEF HasRoom
    <3>7. ~(Len(p) > MaxUnits) => HasRoom(<<"NVarchar", p>>)
      BY <3>3, <3>4 DEF HasRoom
    <3>8. QED BY <3>2, <3>5, <3>6, <3>7
  <2>4. CASE k \in DOMAIN IntoNative
    <3>1. k # "String"
      BY <2>4 DEF IntoNative
    <3>2. Retag(IntoNative, d) = <<IntoNative[k], p>>
      BY <1>3, Retagged
    <3>3. DataToSql(d) = <<IntoNative[k], p>>
      BY <2>1, <2>2, <2>4, <3>1, <3>2 DEF DataToSql
    <3>4. IntoNative[k] \in DOMAIN EchoTds /\ IntoNative[k] \notin ParamTexts
      BY <2>4 DEF IntoNative, EchoTds, ParamTexts
    <3>5. QED BY <3>3, <3>4 DEF ParamLike, HasRoom, Kind, ParamTexts
  <2>5. CASE k # "String" /\ k \notin DOMAIN IntoNative
    <3>1. DataToSql(d) = <<k, p>>
      BY <1>3, <2>1, <2>2, <2>5 DEF DataToSql
    <3>2. k \in DOMAIN EchoTds /\ k \notin {"NVarchar", "Varchar"} /\ (k \in ParamTexts => k \in TextKinds)
      BY <2>5 DEF IntoNative, EchoTds, DataKinds, ParamTexts, TextKinds
    <3>3. QED BY <1>3, <3>1, <3>2 DEF ParamLike, HasRoom, Kind
  <2>6. QED BY <2>3, <2>4, <2>5
<1>4. QED BY <1>1, <1>2, <1>3 DEF DataLike

\* A Rust value is a None or a payload of its type.
LEMMA RustIs ==
  ASSUME NEW type, NEW value \in RustValues(type)
  PROVE  \/ value = <<type>> /\ type # "VectorValue"
         \/ \E p \in PayloadsOf(type) : value = <<type, p>>
BY DEF RustValues

ToSqlKinds == {"Bit", "TinyInt", "SmallInt", "Int", "BigInt", "Real", "Float", "NVarchar",
  "Uuid", "VarBinaryMax", "Date", "Time", "DateTime2", "DateTimeOffset", "Numeric", "Vector"}

LEMMA DecimalIs ==
  ASSUME NEW d
  PROVE  \E x : DecimalToSql(d) = <<"Numeric">> \/ DecimalToSql(d) = <<"Numeric", x>>
BY DEF DecimalToSql, DecimalToSqlType, FromString

LEMMA JsonIs ==
  ASSUME NEW j \in Json
  PROVE  \/ JsonToSql(j) = <<"NVarchar">>
         \/ \E k \in {"Bit", "BigInt", "Float"} : \E x : JsonToSql(j) = <<k, x>>
         \/ \E t \in Texts : JsonToSql(j) = <<"NVarchar", t>>
<1>1. CASE j = <<"null">>
  BY <1>1 DEF JsonToSql
<1>2. ASSUME NEW b, j = <<"bool", b>> PROVE JsonToSql(j) = <<"Bit", b>>
  BY <1>2 DEF JsonToSql
<1>3. ASSUME NEW n, j = <<"number", n>>
      PROVE  \E k \in {"BigInt", "Float"} : \E x : JsonToSql(j) = <<k, x>>
  <2>1. JsonToSql(j) = IF Fits("i64", n) THEN <<"BigInt", n>>
                        ELSE <<"Float", CastInt("f64", n)>>
    BY <1>3 DEF JsonToSql
  <2>2. QED BY <2>1
<1>4. ASSUME NEW t, NEW k \in {"string", "container"}, j = <<k, t>> PROVE JsonToSql(j) = <<"NVarchar", t>>
  BY <1>4 DEF JsonToSql
<1>5. Containers \subseteq Texts
  BY ValuePathAssumption
<1>6. QED BY <1>1, <1>2, <1>3, <1>4, <1>5 DEF Json

LEMMA ToSqlLike ==
  ASSUME NEW type \in BoundTypes, NEW value \in RustValues(type)
  PROVE  ParamLike(ToSql(value)) /\ ToSql(value)[1] \in ToSqlKinds
<1>1. CASE value = <<type>>
  <2>1. Kind(value) = type /\ IsNone(value) = TRUE
    BY <1>1, Tuples
  <2>2. type # "VectorValue"
    BY <1>1, RustIs DEF RustValues
  <2>3. ToSql(value) = TypedNull(type)
    BY <2>1 DEF ToSql
  <2>4. CASE type \in {"Json", "Decimal"}
    <3>1. TypedNull(type) = <<"NVarchar">> \/ TypedNull(type) = <<"Numeric">>
      BY <2>4 DEF TypedNull
    <3>2. QED BY <2>3, <3>1 DEF ParamLike, EchoTds, ToSqlKinds
  <2>5. CASE type \notin {"Json", "Decimal"}
    <3>1. TypedNull(type) = <<SqlOf[type]>>
      BY <2>5 DEF TypedNull
    <3>2. type \in DOMAIN SqlOf
      BY <2>2, <2>5 DEF BoundTypes
    <3>3. SqlOf[type] \in DOMAIN EchoTds /\ SqlOf[type] \in ToSqlKinds
      BY <3>2 DEF SqlOf, EchoTds, ToSqlKinds
    <3>4. QED BY <2>3, <3>1, <3>3 DEF ParamLike
  <2>6. QED BY <2>4, <2>5
<1>2. ASSUME NEW p \in PayloadsOf(type), value = <<type, p>>
      PROVE  ParamLike(ToSql(value)) /\ ToSql(value)[1] \in ToSqlKinds
  <2>1. Kind(value) = type /\ IsNone(value) = FALSE /\ Payload(value) = p
    BY <1>2, Tuples
  <2>2. CASE type = "Json"
    <3>1. p \in Json
      BY <2>2 DEF PayloadsOf, IntTypes, Bits
    <3>2. ToSql(value) = JsonToSql(p)
      BY <2>1, <2>2 DEF ToSql
    <3>3. QED BY <3>1, <3>2, JsonIs DEF ParamLike, EchoTds, ParamTexts, ToSqlKinds
  <2>3. CASE type = "Decimal"
    <3>1. ToSql(value) = DecimalToSql(p)
      BY <2>1, <2>3 DEF ToSql
    <3>2. QED BY <3>1, DecimalIs DEF ParamLike, EchoTds, ParamTexts, ToSqlKinds
  <2>4. CASE type = "VectorValue"
    <3>1. ToSql(value) = VectorToSql(p)
      BY <2>1, <2>4 DEF ToSql
    <3>2. ToSql(value) = <<"Vector">> \/ ToSql(value) = <<"Vector", p>>
      BY <3>1 DEF VectorToSql
    <3>3. QED BY <3>2 DEF ParamLike, EchoTds, ParamTexts, ToSqlKinds
  <2>5. CASE type \in DOMAIN SqlOf
    <3>1. type \notin {"Json", "Decimal", "VectorValue"}
      BY <2>5 DEF SqlOf
    <3>2. ToSql(value) = <<SqlOf[type], p>>
      BY <2>1, <3>1 DEF ToSql
    <3>3. SqlOf[type] \in DOMAIN EchoTds /\ SqlOf[type] \in ToSqlKinds
          /\ (SqlOf[type] \in ParamTexts => type \in {"str", "String"})
      BY <2>5 DEF SqlOf, EchoTds, ToSqlKinds, ParamTexts
    <3>4. type \in {"str", "String"} => p \in Texts
      BY DEF PayloadsOf, IntTypes, Bits
    <3>5. QED BY <3>2, <3>3, <3>4 DEF ParamLike
  <2>6. QED BY <2>2, <2>3, <2>4, <2>5 DEF BoundTypes
<1>3. QED BY <1>1, <1>2, RustIs

\* What ColumnData is made of a native parameter.
LEMMA NativeData ==
  ASSUME NEW x, ParamLike(x), x[1] \in ToSqlKinds
  PROVE  DataLike(FromNativeValue(x))
<1>1. Kind(x) = x[1]
  BY DEF Kind
<1>2. CASE x[1] = "Vector"
  <2>1. FromNativeValue(x) = <<"Native", x>>
    BY <1>1, <1>2 DEF FromNativeValue
  <2>2. QED BY <1>2, <2>1 DEF DataLike
<1>3. CASE x[1] # "Vector"
  <2>1. \/ x = <<x[1]>>
        \/ x = <<x[1], x[2]>> /\ (x[1] \in ParamTexts => x[2] \in Texts)
    BY DEF ParamLike
  <2> DEFINE k == x[1]
             p == x[2]
  <2>2. FromNativeValue(x) = Retag(FromNative, x)
    BY <1>1, <1>3 DEF FromNativeValue
  <2>3. FromNative[k] \in DataKinds /\ (FromNative[k] \in TextKinds => k \in ParamTexts)
    BY <1>3 DEF FromNative, DataKinds, TextKinds, ParamTexts, ToSqlKinds
  <2>4. x = <<k>> \/ (x = <<k, p>> /\ (k \in ParamTexts => p \in Texts))
    BY <2>1
  <2> HIDE DEF k, p
  <2>5. Retag(FromNative, <<k>>) = <<FromNative[k]>> /\ Retag(FromNative, <<k, p>>) = <<FromNative[k], p>>
    BY Retagged
  <2>6. FromNativeValue(x) = <<FromNative[k]>>
        \/ (FromNativeValue(x) = <<FromNative[k], p>> /\ (k \in ParamTexts => p \in Texts))
    BY <2>2, <2>4, <2>5
  <2>7. QED BY <2>3, <2>6 DEF DataLike
<1>4. QED BY <1>2, <1>3

\* The server knows each parameter, and text bound as ColumnData has room.
LEMMA BoundLike ==
  ASSUME NEW api \in Apis, NEW type \in Binds(api), NEW value \in RustValues(type)
  PROVE  ParamLike(Bound(api, value)) /\ (api # "native" => HasRoom(Bound(api, value)))
<1>1. \/ value = <<type>> /\ Kind(value) = type /\ IsNone(value) = TRUE
      \/ \E p \in PayloadsOf(type) :
           value = <<type, p>> /\ Kind(value) = type /\ IsNone(value) = FALSE
  <2>1. CASE value = <<type>>
    BY <2>1, Tuples
  <2>2. ASSUME NEW p \in PayloadsOf(type), value = <<type, p>>
        PROVE  value = <<type, p>> /\ Kind(value) = type /\ IsNone(value) = FALSE
    BY <2>2, Tuples
  <2>3. QED BY <2>1, <2>2, RustIs
<1>2. CASE api = "native"
  <2>1. type \in BoundTypes /\ Bound(api, value) = ToSql(value)
    BY <1>2 DEF Binds, Bound
  <2>2. QED BY <1>2, <2>1, ToSqlLike
<1>3. CASE api = "compat"
  <2>1. type \in BoundTypes \cup {"DecimalParts"} /\ Bound(api, value) = DataToSql(CompatToSql(value))
    BY <1>3 DEF Binds, Bound
  <2>2. DataLike(CompatToSql(value))
    <3>1. CASE type = "DecimalParts"
      <4>1. CompatToSql(value) = <<"Numeric">> \o Tail(value)
        BY <1>1, <3>1 DEF CompatToSql
      <4>2. CompatToSql(value) = <<"Numeric">> \/ \E p : CompatToSql(value) = <<"Numeric", p>>
        <5>1. CASE value = <<type>>
          <6>1. Tail(<<type>>) = <<>> /\ <<"Numeric">> \o <<>> = <<"Numeric">>
            BY Joined
          <6>2. QED BY <4>1, <5>1, <6>1
        <5>2. ASSUME NEW p, value = <<type, p>> PROVE CompatToSql(value) = <<"Numeric", p>>
          <6>1. Tail(<<type, p>>) = <<p>> /\ <<"Numeric">> \o <<p>> = <<"Numeric", p>>
            BY Joined
          <6>2. QED BY <4>1, <5>2, <6>1
        <5>3. QED BY <1>1, <5>1, <5>2
      <4>3. "Numeric" \in DataKinds /\ "Numeric" \notin TextKinds
        BY DEF DataKinds, TextKinds
      <4>4. QED BY <4>2, <4>3 DEF DataLike
    <3>2. CASE type # "DecimalParts"
      <4>1. CompatToSql(value) = FromNativeValue(ToSql(value))
        BY <1>1, <3>2 DEF CompatToSql
      <4>2. QED BY <2>1, <3>2, <4>1, ToSqlLike, NativeData
    <3>3. QED BY <3>1, <3>2
  <2>3. QED BY <2>1, <2>2, DataParam
<1>4. CASE api = "into"
  <2>1. /\ type \in (BoundTypes \ {"VectorValue"}) \cup {"DecimalParts"}
        /\ Bound(api, value) = DataToSql(IntoSql(value))
    BY <1>4 DEF Binds, Bound
  <2>2. DataLike(IntoSql(value))
    <3>1. CASE type \in DOMAIN IntoOther
      <4>1. IntoSql(value) = Retag(IntoOther, value)
        BY <1>1, <3>1 DEF IntoSql
      <4>2. IntoOther[type] \in DataKinds /\ (IntoOther[type] \in TextKinds => type \in {"str", "String"})
        BY <3>1 DEF IntoOther, DataKinds, TextKinds
      <4>3. type \in {"str", "String"} => PayloadsOf(type) = Texts
        BY DEF PayloadsOf, IntTypes, Bits
      <4>4. CASE value = <<type>>
        <5>1. IntoSql(value) = <<IntoOther[type]>>
          BY <4>1, <4>4, Retagged
        <5>2. QED BY <4>2, <5>1 DEF DataLike
      <4>5. ASSUME NEW p \in PayloadsOf(type), value = <<type, p>> PROVE DataLike(IntoSql(value))
        <5>1. IntoSql(value) = <<IntoOther[type], p>>
          BY <4>1, <4>5, Retagged
        <5>2. QED BY <4>2, <4>3, <5>1 DEF DataLike
      <4>6. QED BY <1>1, <4>4, <4>5
    <3>2. CASE type \notin DOMAIN IntoOther /\ value = <<type>>
      <4>1. IntoSql(value) = Retag(IntoNull, value)
        BY <1>1, <3>2, Tuples DEF IntoSql
      <4>2. Retag(IntoNull, <<type>>) = <<IntoNull[type]>>
        BY Retagged
      <4>3. IntoNull[type] \in DataKinds
        BY <2>1, <3>2 DEF IntoOther, IntoNull, DataKinds, BoundTypes, SqlOf
      <4>4. QED BY <3>2, <4>1, <4>2, <4>3 DEF DataLike
    <3>3. CASE type \notin DOMAIN IntoOther /\ IsNone(value) = FALSE
      <4>1. IntoSql(value) = FromNativeValue(ToSql(value))
        BY <1>1, <3>3 DEF IntoSql
      <4>2. type \in BoundTypes
        BY <2>1, <3>3 DEF IntoOther
      <4>3. QED BY <4>1, <4>2, ToSqlLike, NativeData
    <3>4. QED BY <1>1, <3>1, <3>2, <3>3
  <2>3. QED BY <2>1, <2>2, DataParam
<1>5. QED BY <1>2, <1>3, <1>4 DEF Apis

-----------------------------------------------------------------------------
(* Columns *)

LEMMA ColumnTypeIs == \A meta : ColumnTypeOf(meta) \in ColumnTypes
<1>1. ASSUME NEW tds PROVE PlainType(tds) \in ColumnTypes
  <2>1. CASE tds \in DOMAIN TypeOf
    BY <2>1 DEF PlainType, TypeOf, ColumnTypes
  <2>2. CASE tds \notin DOMAIN TypeOf
    BY <2>2 DEF PlainType, ColumnTypes
  <2>3. QED BY <2>1, <2>2
<1>2. ASSUME NEW tds, NEW length PROVE SizedType(tds, length) \in ColumnTypes
  <2>1. \/ SizedType(tds, length) \in {"Int1", "Int2", "Int8", "Float4", "Money4"}
        \/ SizedType(tds, length) = PlainType(tds)
    BY DEF SizedType
  <2>2. QED BY <1>1, <2>1 DEF ColumnTypes
<1>3. ASSUME NEW meta PROVE ColumnTypeOf(meta) \in ColumnTypes
  <2>1. \/ ColumnTypeOf(meta) \in {"Geography", "Geometry"}
        \/ ColumnTypeOf(meta) = SizedType(meta.tds, meta.length)
    BY DEF ColumnTypeOf
  <2>2. QED BY <1>2, <2>1 DEF ColumnTypes
<1>4. QED BY <1>3

\* A NULL of every type of column is a typed one.
LEMMA NullData ==
  ASSUME NEW type \in ColumnTypes
  PROVE  \E k \in DataKinds : NullColumnData(type) = <<k>>
<1>1. CASE type \in {"Bit", "Date", "Time", "Money", "Guid", "Xml", "Json"}
  <2>1. NullColumnData(type) = <<type>>
    BY <1>1 DEF NullColumnData
  <2>2. QED BY <1>1, <2>1 DEF DataKinds
<1>2. CASE type \in {"Int1", "Int2", "Int4", "Int8", "Float4", "Float8", "Datetime", "Datetime4",
                     "Datetime2", "DatetimeOffset", "Decimaln", "Numericn", "Money4"}
  <2>1. NullColumnData(type) \in {<<"U8">>, <<"I16">>, <<"I32">>, <<"I64">>, <<"F32">>, <<"F64">>,
          <<"DateTime">>, <<"SmallDateTime">>, <<"DateTime2">>, <<"DateTimeOffset">>, <<"Numeric">>,
          <<"SmallMoney">>}
    BY <1>2 DEF NullColumnData
  <2>2. QED BY <2>1 DEF DataKinds
<1>3. CASE type \in {"NVarchar", "Varchar", "NChar", "Char", "NText", "Text", "Null"}
  <2>1. NullColumnData(type) = <<"String">>
    BY <1>3 DEF NullColumnData
  <2>2. QED BY <2>1 DEF DataKinds
<1>4. CASE type \in {"Binary", "VarBinary", "Image", "Ssvariant", "Geography", "Geometry", "Udt", "Vector"}
  <2>1. NullColumnData(type) = <<"Binary">>
    BY <1>4 DEF NullColumnData
  <2>2. QED BY <2>1 DEF DataKinds
<1>5. QED BY <1>1, <1>2, <1>3, <1>4 DEF ColumnTypes

\* A cell as ColumnData, for Tiberius' reader and to be bound again.
LEMMA CellData ==
  ASSUME NEW c, CellLike(c), NEW type \in ColumnTypes
  PROVE  DataLike(ColumnDataRef(c, DecodedOf(c), type))
<1>1. CASE c = Null
  <2>1. ColumnDataRef(c, DecodedOf(c), type) = NullColumnData(type)
    BY <1>1, NullIs DEF ColumnDataRef, TextKinds, DataOf
  <2>2. QED BY <2>1, NullData DEF DataLike
<1>2. CASE c # Null
  <2> DEFINE k == c[1]
             p == c[2]
             data == ColumnDataRef(c, DecodedOf(c), type)
  <2>1. c = <<k, p>> /\ k \in CellKinds /\ (k \in TextKinds => p \in Texts)
        /\ DecodedOf(c) = IF k \in TextKinds THEN <<p>> ELSE <<>>
    BY <1>2, CellIs
  <2> HIDE DEF k, p
  <2>2. data = CASE k = "Vector"        -> <<"Native", <<k, p>>>>
                 [] k \in DOMAIN DataOf -> <<DataOf[k], p>>
                 [] OTHER               -> <<k, p>>
    <3>1. ColumnDataRef(<<k, p>>, IF k \in TextKinds THEN <<p>> ELSE <<>>, type)
            = CASE k = "Vector"        -> <<"Native", <<k, p>>>>
                [] k \in DOMAIN DataOf -> <<DataOf[k], p>>
                [] OTHER               -> <<k, p>>
      BY <2>1, DataIs
    <3>2. QED BY <2>1, <3>1
  <2> HIDE DEF data
  <2>3. CASE k = "Vector"
    <3>1. data = <<"Native", <<k, p>>>>
      BY <2>2, <2>3 DEF DataOf
    <3>2. ParamLike(<<k, p>>)
      BY <2>3 DEF ParamLike, EchoTds, ParamTexts
    <3>3. QED BY <2>3, <3>1, <3>2 DEF DataLike, data
  <2>4. CASE k \in DOMAIN DataOf
    <3>1. data = <<DataOf[k], p>>
      BY <2>2, <2>4 DEF DataOf
    <3>2. DataOf[k] \in DataKinds /\ DataOf[k] \notin TextKinds
      BY <2>4 DEF DataOf, DataKinds, TextKinds
    <3>3. QED BY <3>1, <3>2 DEF DataLike, data
  <2>5. CASE k # "Vector" /\ k \notin DOMAIN DataOf
    <3>1. data = <<k, p>>
      BY <2>2, <2>5
    <3>2. k \in DataKinds
      BY <2>1, <2>5 DEF CellKinds, DataOf, DataKinds
    <3>3. QED BY <2>1, <3>1, <3>2 DEF DataLike, data
  <2>6. QED BY <2>3, <2>4, <2>5
<1>3. QED BY <1>1, <1>2

-----------------------------------------------------------------------------
(* Each step keeps the invariant *)

LEMMA OneTuple == \A e : IsTuple(<<e>>) /\ DOMAIN <<e>> = {1} /\ Len(<<e>>) = 1 /\ <<e>>[1] = e
<1>1. ASSUME NEW e PROVE IsTuple(<<e>>)
  <2>1. <<e>> \in Seq({e})
    OBVIOUS
  <2>2. QED BY <2>1, SeqIsTuple
<1>2. ASSUME NEW e PROVE DOMAIN <<e>> = {1}
  OBVIOUS
<1>3. ASSUME NEW e PROVE Len(<<e>>) = 1 /\ <<e>>[1] = e
  OBVIOUS
<1>4. QED BY <1>1, <1>2, <1>3

LEMMA TwoTuple == \A d, e : IsTuple(<<d, e>>) /\ DOMAIN <<d, e>> = {1, 2}
<1>1. ASSUME NEW d, NEW e PROVE IsTuple(<<d, e>>)
  <2>1. <<d, e>> \in Seq({d, e})
    OBVIOUS
  <2>2. QED BY <2>1, SeqIsTuple
<1>2. ASSUME NEW d, NEW e PROVE DOMAIN <<d, e>> = {1, 2}
  OBVIOUS
<1>3. QED BY <1>1, <1>2

LEMMA NoTuple == IsTuple(<<>>) /\ DOMAIN <<>> = {}
BY DEF IsTuple

\* A function over the indices of a tuple is a tuple.
LEMMA TupleOver ==
  ASSUME NEW s, IsTuple(s), NEW t, t = [i \in DOMAIN s |-> t[i]]
  PROVE  IsTuple(t) /\ Len(t) = Len(s) /\ DOMAIN t = DOMAIN s
<1>1. Len(s) \in Nat /\ DOMAIN s = 1..Len(s)
  BY TupleIs
<1>2. QED BY <1>1, TupleOf

LEMMA NoRowTyped == RowTyped(<<>>, <<>>, <<>>)
BY NoTuple DEF RowTyped

\* What does not change what a part of the invariant is about.
LEMMA PathSame ==
  ASSUME PathInv, UNCHANGED <<unicode, params, rowVars>>
  PROVE  /\ unicode' \in BOOLEAN /\ RowTyped(metadata', values', decoded')
         /\ IsTuple(wire') /\ \A i \in DOMAIN wire' : CellLike(wire'[i])
         /\ IsTuple(params') /\ \A i \in DOMAIN params' : ParamLike(params'[i])
         /\ NoRow => NoRow'
BY DEF PathInv, rowVars, NoRow

LEMMA PathFrom ==
  ASSUME unicode' \in BOOLEAN, RowTyped(metadata', values', decoded'),
         IsTuple(wire'), \A i \in DOMAIN wire' : CellLike(wire'[i]),
         IsTuple(params'), \A i \in DOMAIN params' : ParamLike(params'[i]),
         phase' \in {"config", "ready", "bound", "writing", "row", "visiting", "visited"},
         phase' \in {"config", "ready", "bound"} => NoRow',
         phase' \in {"row", "visiting", "visited"} => wire' = <<>>,
         phase' \in {"config", "ready"} => params' = <<>> /\ bound' = <<>> /\ source' = <<>>
  PROVE  PathInv'
BY DEF PathInv

LEMMA BoundSame ==
  ASSUME BoundInv, UNCHANGED <<bound, params, source>>
  PROVE  BoundInv'
BY DEF BoundInv

LEMMA SourceSame ==
  ASSUME SourceInv, UNCHANGED <<source, params>>,
         source # <<>> => phase' \in {"bound", "writing", "row"}
  PROVE  SourceInv'
BY DEF SourceInv

LEMMA EchoSame ==
  ASSUME EchoInv, UNCHANGED <<unicode, params, metadata, values, wire>>,
         params # <<>> => phase # "bound"
  PROVE  EchoInv'
BY DEF EchoInv, Sent

LEMMA InitV == Init => VInv
<1> SUFFICES ASSUME Init PROVE VInv
  OBVIOUS
<1>1. ConfigInv
  BY ConfigInitInv DEF Init
<1>2. PathInv
  BY NoTuple, NoRowTyped DEF Init, PathInv, NoRow
<1>3. BoundInv /\ EchoInv /\ SourceInv /\ VisitInv
  BY DEF Init, BoundInv, EchoInv, SourceInv, VisitInv
<1>4. QED BY <1>1, <1>2, <1>3 DEF VInv

LEMMA ConfigureKeeps == ASSUME VInv, Configure PROVE VInv'
<1>1. ConfigInv'
  BY CallKeeps, ConnectKeeps DEF VInv, Configure
<1>2. /\ phase = "config" /\ phase' = phase
      /\ UNCHANGED <<unicode, bound, params, source, rowVars, visit>>
  BY DEF Configure
<1>3. params = <<>> /\ source = <<>> /\ bound = <<>> /\ NoRow
  BY <1>2 DEF VInv, PathInv
<1>4. PathInv'
  BY <1>2, <1>3, PathSame, PathFrom DEF VInv
<1>5. BoundInv' /\ SourceInv'
  BY <1>2, <1>3, BoundSame, SourceSame DEF VInv
<1>6. EchoInv' /\ VisitInv'
  BY <1>2, <1>3 DEF EchoInv, VisitInv
<1>7. QED BY <1>1, <1>4, <1>5, <1>6 DEF VInv

LEMMA LoginKeeps == ASSUME VInv, Login PROVE VInv'
<1>1. /\ phase = "config" /\ phase' = "ready" /\ unicode' = config.unicode
      /\ UNCHANGED <<bound, params, source, rowVars, visit>>
  BY DEF Login
<1>2. ConfigInv'
  <2>1. ConfigInit'
    BY DEF Login, ConfigInit
  <2>2. (ConfigInit => ConfigInv)'
    BY ConfigInitInv, PTL
  <2>3. QED BY <2>1, <2>2
<1>3. params = <<>> /\ source = <<>> /\ bound = <<>> /\ NoRow
  BY <1>1 DEF VInv, PathInv
<1>4. unicode' \in BOOLEAN
  <2>1. config["unicode"] \in Domain["unicode"] \cup {Defaults["unicode"]}
    BY FieldsSame DEF VInv, ConfigInv
  <2>2. Domain["unicode"] = BOOLEAN /\ Defaults["unicode"] = TRUE
    BY DEF Domain, Defaults
  <2>3. QED BY <1>1, <2>1, <2>2
<1>5. /\ RowTyped(metadata', values', decoded')
      /\ IsTuple(wire') /\ \A i \in DOMAIN wire' : CellLike(wire'[i])
      /\ IsTuple(params') /\ \A i \in DOMAIN params' : ParamLike(params'[i])
      /\ NoRow'
  BY <1>1, <1>3 DEF VInv, PathInv, rowVars, NoRow
<1>6. PathInv'
  BY <1>1, <1>3, <1>4, <1>5, PathFrom
<1>7. BoundInv' /\ SourceInv'
  BY <1>1, <1>3, BoundSame, SourceSame DEF VInv
<1>8. EchoInv' /\ VisitInv'
  BY <1>1, <1>3 DEF EchoInv, VisitInv
<1>9. QED BY <1>2, <1>6, <1>7, <1>8 DEF VInv

LEMMA BindKeeps == ASSUME VInv, Bind PROVE VInv'
<1>1. /\ phase = "ready" /\ phase' = "bound"
      /\ UNCHANGED <<configVars, unicode, source, rowVars, visit>>
  BY DEF Bind
<1>2. PICK api \in Apis : \E type \in Binds(api) : \E value \in RustValues(type) :
        bound' = <<api, value>> /\ params' = <<Bound(api, value)>>
  BY DEF Bind
<1>3. PICK type \in Binds(api) : \E value \in RustValues(type) :
        bound' = <<api, value>> /\ params' = <<Bound(api, value)>>
  BY <1>2
<1>4. PICK value \in RustValues(type) : bound' = <<api, value>> /\ params' = <<Bound(api, value)>>
  BY <1>3
<1>5. ConfigInv'
  BY <1>1, SameConfigKeeps DEF VInv
<1>6. source = <<>> /\ NoRow
  BY <1>1 DEF VInv, PathInv
<1>7. IsTuple(params') /\ \A i \in DOMAIN params' : ParamLike(params'[i])
  <2>1. ParamLike(Bound(api, value))
    BY BoundLike
  <2>2. QED BY <1>4, <2>1, OneTuple
<1>8. /\ unicode' \in BOOLEAN /\ RowTyped(metadata', values', decoded')
      /\ IsTuple(wire') /\ \A i \in DOMAIN wire' : CellLike(wire'[i])
      /\ NoRow'
  BY <1>1, <1>6 DEF VInv, PathInv, rowVars, NoRow
<1>9. PathInv'
  BY <1>1, <1>7, <1>8, PathFrom
<1>10. BoundInv'
  BY <1>1, <1>4, <1>6 DEF BoundInv
<1>11. EchoInv' /\ VisitInv' /\ SourceInv'
  BY <1>1, <1>6 DEF EchoInv, VisitInv, SourceInv
<1>12. QED BY <1>5, <1>9, <1>10, <1>11 DEF VInv

LEMMA SendKeeps == ASSUME VInv, Send PROVE VInv'
<1> DEFINE sent == [i \in DOMAIN params |-> EncodeStringParameters(params[i], unicode)]
<1>1. /\ phase = "bound" /\ phase' = "writing"
      /\ UNCHANGED <<configVars, unicode, bound, params, source, values, decoded, visit>>
      /\ wire' = [i \in DOMAIN params |-> EchoCell(sent[i])]
  BY DEF Send
<1>2. PICK names \in [DOMAIN params -> Columns_] :
        metadata' = [i \in DOMAIN params |-> Named(names[i], EchoColumn(sent[i]))]
  BY DEF Send
<1>3. /\ IsTuple(params) /\ \A i \in DOMAIN params : ParamLike(params[i])
      /\ unicode \in BOOLEAN /\ values = <<>> /\ decoded = <<>>
  BY <1>1 DEF VInv, PathInv, NoRow
<1>4. \A i \in DOMAIN params : sent[i] = Sent(i) /\ Sent(i)' = Sent(i)
  BY <1>1 DEF Sent
<1> HIDE DEF sent
<1>5. wire' = [i \in DOMAIN params |-> wire'[i]] /\ metadata' = [i \in DOMAIN params |-> metadata'[i]]
  BY <1>1, <1>2
<1>6. /\ IsTuple(wire') /\ IsTuple(metadata') /\ DOMAIN wire' = DOMAIN params
      /\ DOMAIN metadata' = DOMAIN params /\ Len(wire') = Len(params)
  BY <1>3, <1>5, TupleOver
<1>7. ASSUME NEW i \in DOMAIN params
      PROVE  /\ wire'[i] = EchoCell(Sent(i)) /\ CellLike(wire'[i])
             /\ metadata'[i].type = ColumnTypeOf(EchoColumn(Sent(i)))
  <2>1. wire'[i] = EchoCell(Sent(i)) /\ metadata'[i] = Named(names[i], EchoColumn(Sent(i)))
    BY <1>1, <1>2, <1>4
  <2>2. CellLike(EchoCell(Sent(i)))
    BY <1>3, EchoLike DEF Sent
  <2>3. metadata'[i].type = ColumnTypeOf(EchoColumn(Sent(i)))
    BY <2>1 DEF Named
  <2>4. QED BY <2>1, <2>2, <2>3
<1>8. RowTyped(metadata', values', decoded')
  BY <1>1, <1>3, <1>6, <1>7, ColumnTypeIs, NoTuple DEF RowTyped
<1>9. PathInv'
  BY <1>1, <1>3, <1>6, <1>7, <1>8, PathFrom
<1>10. EchoInv'
  <2>1. DOMAIN values' = {} /\ Len(values') = 0
    BY <1>1, <1>3
  <2>2. Len(params) \in Nat /\ DOMAIN params = 1..Len(params)
    BY <1>3, TupleIs
  <2>3. \A i \in DOMAIN wire' : Len(values') + i = i
    BY <1>6, <2>1, <2>2
  <2>4. QED BY <1>1, <1>4, <1>6, <1>7, <2>1, <2>2, <2>3 DEF EchoInv
<1>11. BoundInv' /\ SourceInv' /\ ConfigInv'
  BY <1>1, BoundSame, SourceSame, SameConfigKeeps DEF VInv
<1>12. VisitInv'
  BY <1>1 DEF VisitInv
<1>13. QED BY <1>9, <1>10, <1>11, <1>12 DEF VInv

LEMMA SelectKeeps == ASSUME VInv, Select PROVE VInv'
<1>1. /\ phase = "ready" /\ phase' = "writing"
      /\ UNCHANGED <<configVars, unicode, bound, params, source, values, decoded, visit>>
  BY DEF Select
<1>2. params = <<>> /\ source = <<>> /\ bound = <<>> /\ values = <<>> /\ decoded = <<>>
  BY <1>1 DEF VInv, PathInv, NoRow
<1>3. /\ IsTuple(wire') /\ IsTuple(metadata')
      /\ \A i \in DOMAIN wire' : CellLike(wire'[i])
      /\ \A i \in DOMAIN metadata' : metadata'[i].type \in ColumnTypes
  <2>1. PICK column \in Elsewhere : \E cell \in CellsOf(column) :
          \/ \E name \in Columns_ : wire' = <<cell>> /\ metadata' = <<Named(name, column)>>
          \/ \E other \in Beside : \E first, second \in Columns_ :
               /\ wire' = <<cell, other[2]>>
               /\ metadata' = <<Named(first, column), Named(second, other[1])>>
    BY DEF Select
  <2>2. PICK cell \in CellsOf(column) :
          \/ \E name \in Columns_ : wire' = <<cell>> /\ metadata' = <<Named(name, column)>>
          \/ \E other \in Beside : \E first, second \in Columns_ :
               /\ wire' = <<cell, other[2]>>
               /\ metadata' = <<Named(first, column), Named(second, other[1])>>
    BY <2>1
  <2>3. CellLike(cell)
    BY CellsLike DEF CellsOf
  <2>4. \A name, c : Named(name, c).type \in ColumnTypes
    BY ColumnTypeIs DEF Named
  <2>5. ASSUME NEW name, wire' = <<cell>>, metadata' = <<Named(name, column)>>
        PROVE  /\ IsTuple(wire') /\ IsTuple(metadata')
               /\ \A i \in DOMAIN wire' : CellLike(wire'[i])
               /\ \A i \in DOMAIN metadata' : metadata'[i].type \in ColumnTypes
    BY <2>3, <2>4, <2>5, OneTuple
  <2>6. ASSUME NEW other \in Beside, NEW first, NEW second, wire' = <<cell, other[2]>>,
               metadata' = <<Named(first, column), Named(second, other[1])>>
        PROVE  /\ IsTuple(wire') /\ IsTuple(metadata')
               /\ \A i \in DOMAIN wire' : CellLike(wire'[i])
               /\ \A i \in DOMAIN metadata' : metadata'[i].type \in ColumnTypes
    <3>1. CellLike(other[2])
      BY CellsLike, ValuePathAssumption
    <3>2. QED BY <2>3, <2>4, <2>6, <3>1, TwoTuple
  <2>7. QED BY <2>2, <2>5, <2>6
<1>4. RowTyped(metadata', values', decoded')
  BY <1>1, <1>2, <1>3, NoTuple DEF RowTyped
<1>5. /\ unicode' \in BOOLEAN /\ IsTuple(params') /\ \A i \in DOMAIN params' : ParamLike(params'[i])
  BY <1>1, <1>2, NoTuple DEF VInv, PathInv
<1>6. PathInv'
  BY <1>1, <1>3, <1>4, <1>5, PathFrom
<1>7. BoundInv' /\ SourceInv' /\ ConfigInv'
  BY <1>1, BoundSame, SourceSame, SameConfigKeeps DEF VInv
<1>8. VisitInv' /\ EchoInv'
  BY <1>1, <1>2 DEF VisitInv, EchoInv
<1>9. QED BY <1>6, <1>7, <1>8 DEF VInv

LEMMA WriteColumnKeeps == ASSUME VInv, WriteColumn PROVE VInv'
<1> DEFINE n == Len(values)
<1>1. /\ phase = "writing" /\ phase' = phase /\ wire # <<>> /\ wire' = Tail(wire)
      /\ values' = Append(values, Head(wire)) /\ decoded' = Append(decoded, DecodedOf(Head(wire)))
      /\ UNCHANGED <<configVars, unicode, bound, params, source, metadata, visit>>
  BY DEF WriteColumn
<1>2. /\ IsTuple(wire) /\ \A i \in DOMAIN wire : CellLike(wire[i])
      /\ IsTuple(metadata) /\ \A i \in DOMAIN metadata : metadata[i].type \in ColumnTypes
      /\ IsTuple(values) /\ IsTuple(decoded) /\ DOMAIN decoded = DOMAIN values
      /\ \A i \in DOMAIN values : CellLike(values[i]) /\ decoded[i] = DecodedOf(values[i])
      /\ unicode \in BOOLEAN /\ IsTuple(params) /\ \A i \in DOMAIN params : ParamLike(params[i])
  BY DEF VInv, PathInv, RowTyped
<1>3. /\ IsTuple(wire') /\ Len(wire') = Len(wire) - 1 /\ Head(wire) = wire[1] /\ 1 \in DOMAIN wire
      /\ \A i \in DOMAIN wire' : i + 1 \in DOMAIN wire /\ wire'[i] = wire[i + 1]
  BY <1>1, <1>2, TupleTail
<1>4. /\ n \in Nat /\ DOMAIN values = 1..n /\ Len(wire) \in Nat /\ DOMAIN wire = 1..Len(wire)
      /\ DOMAIN decoded = 1..Len(decoded) /\ Len(decoded) \in Nat
  BY <1>2, TupleIs
<1>5. Len(decoded) = n
  BY <1>2, <1>4
<1>6. /\ IsTuple(values') /\ DOMAIN values' = 1..(n + 1) /\ values'[n + 1] = wire[1]
      /\ \A i \in DOMAIN values : values'[i] = values[i]
      /\ Len(values') = n + 1
  BY <1>1, <1>2, <1>3, TupleAppend
<1>7. /\ IsTuple(decoded') /\ DOMAIN decoded' = 1..(n + 1) /\ decoded'[n + 1] = DecodedOf(wire[1])
      /\ \A i \in DOMAIN values : decoded'[i] = decoded[i]
  BY <1>1, <1>2, <1>3, <1>5, TupleAppend
<1> HIDE DEF n
<1>8. RowTyped(metadata', values', decoded')
  <2>1. ASSUME NEW i \in DOMAIN values' PROVE CellLike(values'[i]) /\ decoded'[i] = DecodedOf(values'[i])
    <3>1. i \in DOMAIN values \/ i = n + 1
      BY <1>4, <1>6
    <3>2. QED BY <1>2, <1>3, <1>6, <1>7, <3>1
  <2>2. QED BY <1>1, <1>2, <1>6, <1>7, <2>1 DEF RowTyped
<1>9. \A i \in DOMAIN wire' : CellLike(wire'[i])
  BY <1>2, <1>3
<1>10. PathInv'
  BY <1>1, <1>2, <1>3, <1>8, <1>9, PathFrom
<1>11. EchoInv'
  <2>1. CASE params # <<>>
    <3>1. /\ DOMAIN metadata = DOMAIN params /\ n + Len(wire) = Len(params)
          /\ \A i \in DOMAIN params : metadata[i].type = ColumnTypeOf(EchoColumn(Sent(i)))
          /\ \A i \in DOMAIN values : values[i] = EchoCell(Sent(i))
          /\ \A i \in DOMAIN wire : wire[i] = EchoCell(Sent(n + i))
      BY <1>1, <2>1 DEF VInv, EchoInv, n
    <3>2. \A i : Sent(i)' = Sent(i)
      BY <1>1 DEF Sent
    <3>3. ASSUME NEW i \in DOMAIN values' PROVE values'[i] = EchoCell(Sent(i))
      <4>1. CASE i \in DOMAIN values
        BY <1>6, <3>1, <4>1
      <4>2. CASE i = n + 1
        BY <1>3, <1>6, <3>1, <4>2
      <4>3. QED BY <1>4, <1>6, <4>1, <4>2
    <3>4. ASSUME NEW i \in DOMAIN wire' PROVE wire'[i] = EchoCell(Sent(Len(values') + i))
      <4>1. i \in Int /\ i + 1 \in DOMAIN wire /\ wire'[i] = wire[i + 1]
        BY <1>2, <1>3, TupleIs
      <4>2. Len(values') + i = n + (i + 1)
        BY <1>4, <1>6, <4>1
      <4>3. QED BY <3>1, <4>1, <4>2
    <3>5. Len(values') + Len(wire') = Len(params)
      <4>1. n + Len(wire) = Len(params) /\ Len(wire) \in Int /\ n \in Int
        BY <1>4, <3>1
      <4>2. Len(values') = n + 1 /\ Len(wire') = Len(wire) - 1
        BY <1>3, <1>6
      <4>3. QED BY <4>1, <4>2
    <3>6. QED BY <1>1, <3>1, <3>2, <3>3, <3>4, <3>5 DEF EchoInv
  <2>2. CASE params = <<>>
    BY <1>1, <2>2 DEF EchoInv
  <2>3. QED BY <2>1, <2>2
<1>12. BoundInv' /\ SourceInv' /\ ConfigInv'
  BY <1>1, BoundSame, SourceSame, SameConfigKeeps DEF VInv
<1>13. VisitInv'
  BY <1>1 DEF VisitInv
<1>14. QED BY <1>10, <1>11, <1>12, <1>13 DEF VInv

LEMMA TakeRowKeeps == ASSUME VInv, TakeRow PROVE VInv'
<1>1. /\ phase = "writing" /\ wire = <<>> /\ phase' = "row"
      /\ UNCHANGED <<configVars, unicode, bound, params, source, rowVars, visit>>
  BY DEF TakeRow
<1>2. UNCHANGED <<metadata, wire, values, decoded>>
  BY <1>1 DEF rowVars
<1>3. PathInv'
  BY <1>1, <1>2, PathSame, PathFrom DEF VInv
<1>4. EchoInv'
  BY <1>1, <1>2, EchoSame DEF VInv
<1>5. BoundInv' /\ SourceInv' /\ ConfigInv'
  BY <1>1, BoundSame, SourceSame, SameConfigKeeps DEF VInv
<1>6. VisitInv'
  BY <1>1 DEF VisitInv
<1>7. QED BY <1>3, <1>4, <1>5, <1>6 DEF VInv

LEMMA FromSchemaKeeps == ASSUME VInv, FromSchema PROVE VInv'
<1>1. /\ phase = "writing" /\ params = <<>> /\ phase' = "row" /\ wire' = <<>>
      /\ \/ values' = wire /\ metadata' = SubSeq(metadata, 1, Len(metadata) - 1)
         \/ values' = SubSeq(wire, 1, Len(wire) - 1) /\ UNCHANGED metadata
      /\ decoded' = [i \in DOMAIN values' |-> DecodedOf(values'[i])]
      /\ UNCHANGED <<configVars, unicode, bound, params, source, visit>>
  BY DEF FromSchema
<1>2. /\ IsTuple(wire) /\ \A i \in DOMAIN wire : CellLike(wire[i])
      /\ IsTuple(metadata) /\ \A i \in DOMAIN metadata : metadata[i].type \in ColumnTypes
      /\ unicode \in BOOLEAN /\ IsTuple(params) /\ \A i \in DOMAIN params : ParamLike(params[i])
  BY DEF VInv, PathInv, RowTyped
<1>3. IsTuple(values') /\ \A i \in DOMAIN values' : CellLike(values'[i])
  <2>1. CASE values' = wire
    BY <1>2, <2>1
  <2>2. CASE values' = SubSeq(wire, 1, Len(wire) - 1)
    BY <1>2, <2>2, TupleFront
  <2>3. QED BY <1>1, <2>1, <2>2
<1>4. IsTuple(metadata') /\ \A i \in DOMAIN metadata' : metadata'[i].type \in ColumnTypes
  <2>1. CASE metadata' = SubSeq(metadata, 1, Len(metadata) - 1)
    BY <1>2, <2>1, TupleFront
  <2>2. CASE metadata' = metadata
    BY <1>2, <2>2
  <2>3. QED BY <1>1, <2>1, <2>2
<1>5. IsTuple(decoded') /\ DOMAIN decoded' = DOMAIN values'
      /\ \A i \in DOMAIN values' : decoded'[i] = DecodedOf(values'[i])
  <2>1. decoded' = [i \in DOMAIN values' |-> decoded'[i]]
    BY <1>1
  <2>2. QED BY <1>1, <1>3, <2>1, TupleOver
<1>6. RowTyped(metadata', values', decoded')
  BY <1>3, <1>4, <1>5 DEF RowTyped
<1>7. PathInv'
  BY <1>1, <1>2, <1>6, NoTuple, PathFrom
<1>8. BoundInv' /\ SourceInv' /\ ConfigInv'
  BY <1>1, BoundSame, SourceSame, SameConfigKeeps DEF VInv
<1>9. EchoInv' /\ VisitInv'
  BY <1>1 DEF EchoInv, VisitInv
<1>10. QED BY <1>7, <1>8, <1>9 DEF VInv

LEMMA RebindKeeps == ASSUME VInv, Rebind PROVE VInv'
<1> DEFINE row == [metadata |-> metadata, values |-> values, decoded |-> decoded]
<1>1. /\ phase = "row" /\ values # <<>> /\ phase' = "bound" /\ source' = <<row>>
      /\ params' = [i \in DOMAIN CompatValues |-> DataToSql(CompatValues[i])]
      /\ metadata' = <<>> /\ values' = <<>> /\ decoded' = <<>> /\ bound' = <<>>
      /\ UNCHANGED <<configVars, unicode, wire, visit>>
  BY DEF Rebind
<1>2. /\ RowTyped(metadata, values, decoded) /\ unicode \in BOOLEAN /\ wire = <<>>
      /\ IsTuple(metadata) /\ \A i \in DOMAIN metadata : metadata[i].type \in ColumnTypes
      /\ IsTuple(values) /\ DOMAIN decoded = DOMAIN values
      /\ \A i \in DOMAIN values : CellLike(values[i]) /\ decoded[i] = DecodedOf(values[i])
  BY <1>1 DEF VInv, PathInv, RowTyped
<1>3. DOMAIN CompatValues = DOMAIN values
      /\ \A i \in DOMAIN values :
           CompatValues[i] = ColumnDataRef(values[i], decoded[i],
                               IF i \in DOMAIN metadata THEN metadata[i].type ELSE "Null")
  BY <1>2 DEF CompatValues
<1>4. DOMAIN params' = DOMAIN values /\ params' = [i \in DOMAIN values |-> params'[i]]
  BY <1>1, <1>3
<1>5. IsTuple(params') /\ params' # <<>>
  <2>1. IsTuple(params') /\ Len(params') = Len(values)
    BY <1>2, <1>4, TupleOver
  <2>2. Len(values) # 0
    BY <1>1, <1>2, TupleIs
  <2>3. QED BY <2>1, <2>2, TupleIs
<1>6. ASSUME NEW i \in DOMAIN params' PROVE ParamLike(params'[i]) /\ params'[i] = Rebound(row, i)
  <2> DEFINE type == IF i \in DOMAIN metadata THEN metadata[i].type ELSE "Null"
  <2>1. type \in ColumnTypes
    BY <1>2 DEF ColumnTypes
  <2>2. params'[i] = DataToSql(ColumnDataRef(values[i], decoded[i], type))
    BY <1>1, <1>3, <1>4
  <2>3. row.values = values /\ row.decoded = decoded /\ row.metadata = metadata
    OBVIOUS
  <2> HIDE DEF type
  <2>4. ParamLike(params'[i])
    BY <1>2, <1>4, <2>1, <2>2, CellData, DataParam
  <2>5. params'[i] = Rebound(row, i)
    BY <2>2, <2>3 DEF Rebound, type
  <2>6. QED BY <2>4, <2>5
<1>7. PathInv'
  BY <1>1, <1>2, <1>5, <1>6, NoRowTyped, NoTuple, PathFrom DEF NoRow
<1>8. SourceInv'
  <2>1. source'[1] = row /\ row.values = values /\ row.decoded = decoded /\ row.metadata = metadata
    BY <1>1
  <2> HIDE DEF row
  <2>2. \A i \in DOMAIN params' : params'[i] = Rebound(source'[1], i)
    BY <1>6, <2>1
  <2>3. /\ phase' \in {"bound", "writing", "row"}
        /\ RowTyped(source'[1].metadata, source'[1].values, source'[1].decoded)
        /\ params' # <<>> /\ DOMAIN params' = DOMAIN source'[1].values
    BY <1>1, <1>2, <1>4, <1>5, <2>1
  <2>4. QED BY <2>2, <2>3 DEF SourceInv
<1>9. ConfigInv'
  BY <1>1, SameConfigKeeps DEF VInv
<1>10. BoundInv' /\ EchoInv' /\ VisitInv'
  BY <1>1 DEF BoundInv, EchoInv, VisitInv
<1>11. QED BY <1>7, <1>8, <1>9, <1>10 DEF VInv

-----------------------------------------------------------------------------
(* The visit *)

\* The visit leaves the Config, the parameters and the row alone.
LEMMA VisitFrame ==
  ASSUME VInv, UNCHANGED <<configVars, unicode, bound, params, source, rowVars>>,
         phase \in {"row", "visiting"}, phase' \in {"visiting", "visited"},
         source = <<>>, VisitInv'
  PROVE  VInv'
<1>1. UNCHANGED <<metadata, wire, values, decoded>>
  BY DEF rowVars
<1>2. wire = <<>>
  BY DEF VInv, PathInv
<1>3. PathInv'
  BY <1>1, <1>2, PathSame, PathFrom DEF VInv
<1>4. EchoInv'
  BY <1>1, EchoSame DEF VInv
<1>5. BoundInv' /\ SourceInv' /\ ConfigInv'
  BY BoundSame, SourceSame, SameConfigKeeps DEF VInv
<1>6. QED BY <1>3, <1>4, <1>5 DEF VInv

\* The row while it is visited, and what does not change of it.
LEMMA VisitedRow ==
  ASSUME VInv, UNCHANGED rowVars
  PROVE  /\ metadata' = metadata /\ values' = values /\ decoded' = decoded
         /\ Len(values) \in Nat /\ DOMAIN values = 1..Len(values)
         /\ Len(metadata) \in Nat /\ DOMAIN metadata = 1..Len(metadata)
         /\ \A i : visit'.type = visit.type => Field(i)' = Field(i)
<1>1. metadata' = metadata /\ values' = values /\ decoded' = decoded
  BY DEF rowVars
<1>2. IsTuple(values) /\ IsTuple(metadata)
  BY DEF VInv, PathInv, RowTyped
<1>3. \A i : visit'.type = visit.type => Field(i)' = Field(i)
  BY <1>1 DEF Field, Decoded
<1>4. QED BY <1>1, <1>2, <1>3, TupleIs

LEMMA StartVisitKeeps == ASSUME VInv, StartVisit PROVE VInv'
<1>1. /\ phase = "row" /\ source = <<>> /\ phase' = "visiting"
      /\ UNCHANGED <<configVars, unicode, bound, params, source, rowVars>>
  BY DEF StartVisit
<1>2. PICK type \in FieldTypes :
        \/ \E wanted \in SUBSET Columns_ \ {{}} :
             visit' = [shape |-> "struct", type |-> type, wanted |-> wanted, idx |-> 0,
                       key |-> <<>>, fields |-> <<>>, outcome |-> <<>>]
        \/ \E size \in 1..2 :
             visit' = [shape |-> "tuple", type |-> type, size |-> size, idx |-> 0,
                       key |-> <<>>, fields |-> <<>>, outcome |-> <<>>]
  BY DEF StartVisit
<1>3. Len(values') \in Nat /\ Len(metadata') \in Nat
  BY <1>1, VisitedRow
<1>4. ASSUME NEW wanted \in SUBSET Columns_,
             visit' = [shape |-> "struct", type |-> type, wanted |-> wanted, idx |-> 0,
                       key |-> <<>>, fields |-> <<>>, outcome |-> <<>>]
      PROVE  VisitInv'
  <2>1. StructVisit'
    BY <1>3, <1>4, NoTuple DEF StructVisit
  <2>2. QED BY <1>1, <1>4, <2>1, NoTuple DEF VisitInv
<1>5. ASSUME NEW size \in 1..2,
             visit' = [shape |-> "tuple", type |-> type, size |-> size, idx |-> 0,
                       key |-> <<>>, fields |-> <<>>, outcome |-> <<>>]
      PROVE  VisitInv'
  <2>1. TupleVisit'
    BY <1>3, <1>5, NoTuple DEF TupleVisit
  <2>2. QED BY <1>1, <1>5, <2>1, NoTuple DEF VisitInv
<1>6. VisitInv'
  BY <1>2, <1>4, <1>5
<1>7. QED BY <1>1, <1>6, VisitFrame

\* serde's errors are one error, and only a NULL is None.
LEMMA ReadOutcome ==
  ASSUME NEW type \in SerdeTypes, NEW c, NEW ds
  PROVE  /\ DeserializeOption(type, c, ds)[1] = "error" => DeserializeOption(type, c, ds) = Error
         /\ DeserializeOption(type, c, ds) = None => c = Null
<1> DEFINE Fine(x) == x = Error \/ (x[1] # "error" /\ x # None)
<1>1. IntTypes = {"u8", "u16", "u32", "u64", "i8", "i16", "i32", "i64", "u128", "i128"}
  BY DEF IntTypes, Bits
<1>2. \A t, p : t # "error" => Fine(<<t, p>>)
  BY DEF None
<1>3. Fine(<<"unit">>) /\ Fine(Error)
  BY DEF None
<1>4. Fine(VisitBool(c))
  BY <1>2, <1>3 DEF VisitBool, Some
<1>5. \A t \in IntTypes : Fine(VisitInt(t, c))
  <2>1. ASSUME NEW t \in IntTypes PROVE Fine(VisitInt(t, c))
    <3>1. t # "error"
      BY <1>1
    <3>2. VisitInt(t, c) = Error \/ \E p : VisitInt(t, c) = <<t, p>>
      BY DEF VisitInt, Some, Integers
    <3>3. QED BY <1>2, <1>3, <3>1, <3>2
  <2>2. QED BY <2>1
<1>6. \A t \in {"f32", "f64"} : Fine(VisitFloat(t, c))
  <2>1. ASSUME NEW t \in {"f32", "f64"} PROVE Fine(VisitFloat(t, c))
    <3>1. VisitFloat(t, c) = Error \/ \E p : VisitFloat(t, c) = <<t, p>>
      BY DEF VisitFloat, Some, Integers
    <3>2. QED BY <1>2, <1>3, <3>1
  <2>2. QED BY <2>1
<1>7. Fine(VisitStr(c, ds))
  <2>1. VisitStr(c, ds) = Error \/ \E t \in {"text", "shown"} : \E p : VisitStr(c, ds) = <<t, p>>
    BY DEF VisitStr, Some, Shown, TextKinds, Temporals
  <2>2. QED BY <1>2, <1>3, <2>1
<1>8. Fine(VisitBytes(c))
  <2>1. VisitBytes(c) = Error \/ \E t \in {"bytes", "raw"} : \E p : VisitBytes(c) = <<t, p>>
    BY DEF VisitBytes, Some
  <2>2. QED BY <1>2, <1>3, <2>1
<1>9. Fine(VisitChar(ds))
  BY <1>2, <1>3 DEF VisitChar, Some
<1>10. Fine(VisitAny(c, ds))
  <2>1. \/ VisitAny(c, ds) \in {<<"unit">>, VisitBool(c), <<"f32", Payload(c)>>,
             <<"f64", Payload(c)>>, <<"f64", MoneyAsF64(c)>>, VisitBytes(c), Error, VisitStr(c, ds)}
        \/ Kind(c) \in Integers /\ VisitAny(c, ds)
             = <<[TinyInt |-> "u8", SmallInt |-> "i16", Int |-> "i32", BigInt |-> "i64"][Kind(c)], Payload(c)>>
    <3>1. Kind(Null) = "Null"
      BY DEF Null, Kind
    <3>2. QED BY <3>1 DEF VisitAny, Some, Integers
  <2>2. Kind(c) \in Integers =>
          [TinyInt |-> "u8", SmallInt |-> "i16", Int |-> "i32", BigInt |-> "i64"][Kind(c)] # "error"
    BY DEF Integers
  <2>3. QED BY <1>2, <1>3, <1>4, <1>7, <1>8, <2>1, <2>2
<1> HIDE DEF Fine
<1>11. Fine(Deserialize(type, c, ds))
  <2>1. CASE type \in IntTypes
    <3>1. Deserialize(type, c, ds) = VisitInt(type, c)
      BY <1>1, <2>1 DEF Deserialize
    <3>2. QED BY <1>5, <2>1, <3>1
  <2>2. CASE type \in {"f32", "f64"}
    <3>1. Deserialize(type, c, ds) = VisitFloat(type, c)
      BY <1>1, <2>2 DEF Deserialize
    <3>2. QED BY <1>6, <2>2, <3>1
  <2>3. CASE type \in {"bool", "char", "str", "bytes", "unit", "any", "compound"}
    <3>1. Deserialize(type, c, ds) \in {VisitBool(c), VisitChar(ds), VisitStr(c, ds), VisitBytes(c),
            <<"unit">>, VisitAny(c, ds), Error}
      BY <1>1, <2>3 DEF Deserialize, VisitCompound
    <3>2. QED BY <1>3, <1>4, <1>7, <1>8, <1>9, <1>10, <3>1
  <2>4. QED BY <2>1, <2>2, <2>3 DEF SerdeTypes
<1>12. QED
  <2>1. None[1] # "error"
    BY DEF None
  <2>2. QED BY <1>11, <2>1 DEF DeserializeOption, Fine, Error, None

\* What a field is made from, before and after a step.
LEMMA FieldsKept ==
  ASSUME VInv, UNCHANGED rowVars, visit'.type = visit.type, visit'.wanted = visit.wanted,
         visit'.fields = visit.fields
  PROVE  /\ \A i : FieldOf(i)' = FieldOf(i) /\ Wanted(i)' = Wanted(i)
         /\ \A name : Visited(name)' = Visited(name)
<1>1. metadata' = metadata /\ \A i : Field(i)' = Field(i)
  BY VisitedRow
<1>2. QED BY <1>1 DEF FieldOf, Wanted, Visited

\* The end of the visit of a struct is a step of the outcome only.
LEMMA StructStays ==
  ASSUME VInv, StructVisit, UNCHANGED rowVars, NEW o, visit' = [visit EXCEPT !.outcome = o]
  PROVE  /\ StructVisit' /\ visit'.outcome = o /\ visit'.idx = visit.idx
         /\ visit'.type = visit.type /\ visit'.fields = visit.fields
         /\ \A i : FieldOf(i)' = FieldOf(i) /\ Wanted(i)' = Wanted(i) /\ Field(i)' = Field(i)
         /\ \A name : Visited(name)' = Visited(name)
<1>1. /\ visit' = [shape |-> "struct", type |-> visit'.type, wanted |-> visit'.wanted,
                   idx |-> visit'.idx, key |-> visit'.key, fields |-> visit'.fields,
                   outcome |-> visit'.outcome]
      /\ visit'.shape = "struct" /\ visit'.type = visit.type /\ visit'.wanted = visit.wanted
      /\ visit'.idx = visit.idx /\ visit'.key = visit.key /\ visit'.fields = visit.fields
      /\ visit'.outcome = o
  BY DEF StructVisit
<1>2. metadata' = metadata /\ values' = values /\ \A i : Field(i)' = Field(i)
  BY <1>1, VisitedRow
<1>3. /\ \A i : FieldOf(i)' = FieldOf(i) /\ Wanted(i)' = Wanted(i)
      /\ \A name : Visited(name)' = Visited(name)
  BY <1>1, FieldsKept
<1>4. StructVisit'
  BY <1>1, <1>2, <1>3 DEF StructVisit
<1>5. QED BY <1>1, <1>2, <1>3, <1>4

LEMMA NextKeyKeeps == ASSUME VInv, NextKey PROVE VInv'
<1> DEFINE i == visit.idx + 1
<1>1. /\ phase = "visiting" /\ visit.shape = "struct" /\ visit.key = <<>>
      /\ UNCHANGED <<configVars, unicode, bound, params, source, rowVars>>
      /\ IF i > Len(values) THEN End(<<"ok">>)
         ELSE IF i > Len(metadata) THEN End(OutOfBounds)
         ELSE IF metadata[i].name \in visit.wanted /\ Visited(metadata[i].name) # {}
              THEN End(<<"error", "duplicate">>)
         ELSE visit' = [visit EXCEPT !.key = <<metadata[i].name>>] /\ UNCHANGED phase
  BY DEF NextKey, Visiting
<1>2. StructVisit /\ visit.type \in FieldTypes /\ IsTuple(visit.fields)
  BY <1>1 DEF VInv, VisitInv, TupleVisit
<1>3. source = <<>>
  BY <1>1 DEF VInv, SourceInv
<1>4. /\ metadata' = metadata /\ values' = values
      /\ Len(values) \in Nat /\ Len(metadata) \in Nat
      /\ DOMAIN values = 1..Len(values) /\ DOMAIN metadata = 1..Len(metadata)
      /\ visit.idx \in Nat /\ visit.idx <= Len(values) /\ visit.idx <= Len(metadata)
  BY <1>1, <1>2, VisitedRow DEF StructVisit
<1>5. ASSUME NEW o, End(o),
             \/ o = <<"ok">> /\ visit.idx = Len(values)
             \/ /\ o = <<"error", "duplicate">>
                /\ visit.idx < Len(values) /\ visit.idx < Len(metadata) /\ Wanted(i)
                /\ Visited(metadata[i].name) # {}
             \/ o = OutOfBounds /\ Len(metadata) < Len(values)
      PROVE  VisitInv' /\ phase' = "visited"
  <2>1. visit' = [visit EXCEPT !.outcome = o] /\ phase' = "visited"
    BY <1>5 DEF End
  <2>2. /\ StructVisit' /\ visit'.outcome = o /\ visit'.idx = visit.idx
        /\ visit'.type = visit.type /\ visit'.fields = visit.fields
        /\ \A j : Wanted(j)' = Wanted(j)
        /\ \A name : Visited(name)' = Visited(name)
    BY <1>1, <1>2, <2>1, StructStays
  <2>3. StructEnd'
    BY <1>4, <1>5, <2>2 DEF StructEnd, OutOfBounds
  <2>4. QED BY <1>2, <2>1, <2>2, <2>3 DEF VisitInv
<1>6. CASE i > Len(values)
  <2>1. visit.idx = Len(values)
    BY <1>4, <1>6
  <2>2. VisitInv' /\ phase' = "visited"
    BY <1>1, <1>5, <1>6, <2>1
  <2>3. QED BY <1>1, <1>3, <2>2, VisitFrame
<1>7. CASE ~(i > Len(values)) /\ i > Len(metadata)
  <2>1. Len(metadata) < Len(values)
    BY <1>4, <1>7
  <2>2. VisitInv' /\ phase' = "visited"
    BY <1>1, <1>5, <1>7, <2>1
  <2>3. QED BY <1>1, <1>3, <2>2, VisitFrame
<1>8. CASE /\ ~(i > Len(values)) /\ ~(i > Len(metadata))
           /\ metadata[i].name \in visit.wanted /\ Visited(metadata[i].name) # {}
  <2>1. visit.idx < Len(values) /\ visit.idx < Len(metadata) /\ Wanted(i)
    BY <1>4, <1>8 DEF Wanted
  <2>2. VisitInv' /\ phase' = "visited"
    BY <1>1, <1>5, <1>8, <2>1
  <2>3. QED BY <1>1, <1>3, <2>2, VisitFrame
<1>9. CASE /\ ~(i > Len(values)) /\ ~(i > Len(metadata))
           /\ ~(metadata[i].name \in visit.wanted /\ Visited(metadata[i].name) # {})
  <2>1. visit' = [visit EXCEPT !.key = <<metadata[i].name>>] /\ phase' = "visiting"
    BY <1>1, <1>9
  <2>2. /\ visit' = [shape |-> "struct", type |-> visit'.type, wanted |-> visit'.wanted,
                     idx |-> visit'.idx, key |-> visit'.key, fields |-> visit'.fields,
                     outcome |-> visit'.outcome]
        /\ visit'.shape = "struct" /\ visit'.type = visit.type /\ visit'.wanted = visit.wanted
        /\ visit'.idx = visit.idx /\ visit'.fields = visit.fields
        /\ visit'.key = <<metadata[i].name>>
    BY <1>2, <2>1 DEF StructVisit
  <2>3. \A j : Field(j)' = Field(j)
    BY <1>1, <2>2, VisitedRow
  <2>4. /\ \A j : FieldOf(j)' = FieldOf(j) /\ Wanted(j)' = Wanted(j)
        /\ \A name : Visited(name)' = Visited(name)
    BY <1>1, <2>2, FieldsKept
  <2>5. visit.idx < Len(values) /\ visit.idx < Len(metadata)
    BY <1>4, <1>9
  <2>6. (visit.key[1] \in visit.wanted => Visited(visit.key[1]) = {})'
    <3>1. visit'.key[1] = metadata[i].name
      BY <2>2
    <3>2. metadata[i].name \in visit.wanted => Visited(metadata[i].name) = {}
      BY <1>9
    <3>3. QED BY <2>2, <3>1, <3>2 DEF Visited
  <2>7. StructVisit'
    BY <1>2, <1>4, <2>2, <2>3, <2>4, <2>5, <2>6 DEF StructVisit
  <2>8. VisitInv'
    BY <1>2, <2>1, <2>2, <2>7 DEF VisitInv
  <2>9. QED BY <1>1, <1>3, <2>1, <2>8, VisitFrame
<1>10. QED BY <1>6, <1>7, <1>8, <1>9

LEMMA NextValueKeeps == ASSUME VInv, NextValue PROVE VInv'
<1> DEFINE i == visit.idx + 1
           name == metadata[i].name
<1>1. /\ phase = "visiting" /\ visit.shape = "struct" /\ visit.key # <<>>
      /\ UNCHANGED <<configVars, unicode, bound, params, source, rowVars>>
      /\ IF visit.key[1] \notin visit.wanted
         THEN visit' = [visit EXCEPT !.key = <<>>, !.idx = i] /\ UNCHANGED phase
         ELSE IF Field(i)[1] = "error" THEN End(Field(i))
         ELSE /\ visit' = [visit EXCEPT !.key = <<>>, !.idx = i,
                              !.fields = Append(@, <<visit.key[1], Field(i)>>)]
              /\ UNCHANGED phase
  BY DEF NextValue, Visiting
<1>2. StructVisit /\ visit.type \in FieldTypes /\ IsTuple(visit.fields)
  BY <1>1 DEF VInv, VisitInv, TupleVisit
<1>3. source = <<>>
  BY <1>1 DEF VInv, SourceInv
<1>4. /\ metadata' = metadata /\ values' = values
      /\ Len(values) \in Nat /\ Len(metadata) \in Nat
      /\ DOMAIN values = 1..Len(values) /\ DOMAIN metadata = 1..Len(metadata)
  BY <1>1, VisitedRow
<1>5. /\ visit.idx \in Nat /\ visit.idx < Len(values) /\ visit.idx < Len(metadata)
      /\ visit.key = <<name>> /\ (name \in visit.wanted => Visited(name) = {})
  BY <1>1, <1>2, <1>4 DEF StructVisit
<1>6. i \in 1..Len(values) /\ i \in 1..Len(metadata) /\ visit.key[1] = name
  BY <1>4, <1>5
<1>7. /\ \A k \in DOMAIN visit.fields : \E j \in 1..visit.idx :
           Wanted(j) /\ visit.fields[k] = FieldOf(j) /\ Field(j)[1] # "error"
      /\ \A j \in 1..visit.idx : Wanted(j) => \E k \in DOMAIN visit.fields : visit.fields[k] = FieldOf(j)
      /\ \A j, l \in 1..visit.idx : Wanted(j) /\ metadata[j].name = metadata[l].name => j = l
      /\ \A k, l \in DOMAIN visit.fields : visit.fields[k][1] = visit.fields[l][1] => k = l
      /\ visit.wanted \subseteq Columns_
  BY <1>2 DEF StructVisit
<1>8. 1..i = 1..visit.idx \cup {i} /\ i \notin 1..visit.idx
  BY <1>5
<1>9. Wanted(i) <=> name \in visit.wanted
  BY DEF Wanted
<1> HIDE DEF i, name
<1>10. CASE name \notin visit.wanted
  <2>1. visit' = [visit EXCEPT !.key = <<>>, !.idx = i] /\ phase' = "visiting"
    BY <1>1, <1>6, <1>10
  <2>2. /\ visit' = [shape |-> "struct", type |-> visit'.type, wanted |-> visit'.wanted,
                     idx |-> visit'.idx, key |-> visit'.key, fields |-> visit'.fields,
                     outcome |-> visit'.outcome]
        /\ visit'.shape = "struct" /\ visit'.type = visit.type /\ visit'.wanted = visit.wanted
        /\ visit'.idx = i /\ visit'.fields = visit.fields /\ visit'.key = <<>>
    BY <1>2, <2>1 DEF StructVisit
  <2>3. \A j : Field(j)' = Field(j)
    BY <1>1, <2>2, VisitedRow
  <2>4. \A j : FieldOf(j)' = FieldOf(j) /\ Wanted(j)' = Wanted(j)
    BY <1>1, <2>2, FieldsKept
  <2>5. \A j, l \in 1..i : Wanted(j) /\ metadata[j].name = metadata[l].name => j = l
    <3>1. \A j, l : Wanted(j) /\ metadata[j].name = metadata[l].name => Wanted(l)
      BY DEF Wanted
    <3>2. ~Wanted(i)
      BY <1>9, <1>10
    <3>3. QED BY <1>7, <1>8, <3>1, <3>2
  <2>6. \A j \in 1..i : Wanted(j) => \E k \in DOMAIN visit.fields : visit.fields[k] = FieldOf(j)
    BY <1>7, <1>8, <1>9, <1>10
  <2>7. \A k \in DOMAIN visit.fields : \E j \in 1..i :
          Wanted(j) /\ visit.fields[k] = FieldOf(j) /\ Field(j)[1] # "error"
    BY <1>7, <1>8
  <2>8. StructVisit'
    <3>1. visit'.idx = i /\ visit'.wanted \subseteq Columns_ /\ visit'.key = <<>>
      BY <1>7, <2>2
    <3>2. (\A k \in DOMAIN visit.fields : \E j \in 1..visit.idx :
              Wanted(j) /\ visit.fields[k] = FieldOf(j) /\ Field(j)[1] # "error")'
      BY <2>2, <2>3, <2>4, <2>7
    <3>3. (\A j \in 1..visit.idx : Wanted(j) => \E k \in DOMAIN visit.fields : visit.fields[k] = FieldOf(j))'
      BY <2>2, <2>4, <2>6
    <3>4. (\A j, l \in 1..visit.idx : Wanted(j) /\ metadata[j].name = metadata[l].name => j = l)'
      BY <1>4, <2>2, <2>4, <2>5
    <3>5. (\A k, l \in DOMAIN visit.fields : visit.fields[k][1] = visit.fields[l][1] => k = l)'
      BY <1>7, <2>2
    <3>6. (visit.idx \in 0..Len(values) /\ visit.idx <= Len(metadata))'
      BY <1>4, <1>6, <3>1
    <3>7. QED BY <2>2, <3>1, <3>2, <3>3, <3>4, <3>5, <3>6 DEF StructVisit
  <2>9. VisitInv'
    BY <1>2, <2>1, <2>2, <2>8 DEF VisitInv
  <2>10. QED BY <1>1, <1>3, <2>1, <2>9, VisitFrame
<1>11. CASE name \in visit.wanted /\ Field(i)[1] = "error"
  <2>1. visit' = [visit EXCEPT !.outcome = Field(i)] /\ phase' = "visited"
    BY <1>1, <1>6, <1>11 DEF End
  <2>2. Field(i) = Error
    BY <1>2, <1>11, ReadOutcome, ValuePathAssumption DEF Field
  <2>3. /\ StructVisit' /\ visit'.outcome = Field(i)
        /\ visit'.type = visit.type /\ visit'.fields = visit.fields
        /\ \A j : Field(j)' = Field(j)
    BY <1>1, <1>2, <2>1, StructStays
  <2>4. StructEnd'
    BY <1>4, <1>6, <1>11, <2>2, <2>3 DEF StructEnd
  <2>5. VisitInv'
    BY <1>2, <2>1, <2>3, <2>4 DEF VisitInv
  <2>6. QED BY <1>1, <1>3, <2>1, <2>5, VisitFrame
<1>12. CASE name \in visit.wanted /\ Field(i)[1] # "error"
  <2>1. /\ visit' = [visit EXCEPT !.key = <<>>, !.idx = i,
                        !.fields = Append(@, <<name, Field(i)>>)]
        /\ phase' = "visiting"
    BY <1>1, <1>6, <1>12
  <2>2. /\ visit' = [shape |-> "struct", type |-> visit'.type, wanted |-> visit'.wanted,
                     idx |-> visit'.idx, key |-> visit'.key, fields |-> visit'.fields,
                     outcome |-> visit'.outcome]
        /\ visit'.shape = "struct" /\ visit'.type = visit.type /\ visit'.wanted = visit.wanted
        /\ visit'.idx = i /\ visit'.fields = Append(visit.fields, <<name, Field(i)>>)
        /\ visit'.key = <<>>
    BY <1>2, <2>1 DEF StructVisit
  <2>3. \A j : Field(j)' = Field(j)
    BY <1>1, <2>2, VisitedRow
  <2>4. \A j : FieldOf(j)' = FieldOf(j) /\ Wanted(j)' = Wanted(j)
    BY <1>4, <2>2, <2>3 DEF FieldOf, Wanted
  <2> DEFINE n == Len(visit.fields)
             fields == Append(visit.fields, <<name, Field(i)>>)
  <2>5. /\ IsTuple(fields) /\ DOMAIN fields = DOMAIN visit.fields \cup {n + 1}
        /\ fields[n + 1] = FieldOf(i) /\ \A k \in DOMAIN visit.fields : fields[k] = visit.fields[k]
    <3>1. /\ IsTuple(fields) /\ DOMAIN fields = 1..(n + 1) /\ fields[n + 1] = <<name, Field(i)>>
          /\ \A k \in DOMAIN visit.fields : fields[k] = visit.fields[k]
      BY <1>2, TupleAppend
    <3>2. n \in Nat /\ DOMAIN visit.fields = 1..n
      BY <1>2, TupleIs
    <3> HIDE DEF n, fields
    <3>3. 1..(n + 1) = 1..n \cup {n + 1}
      BY <3>2
    <3>4. FieldOf(i) = <<name, Field(i)>>
      BY DEF FieldOf, name
    <3>5. QED BY <3>1, <3>2, <3>3, <3>4
  <2> HIDE DEF n, fields
  <2>6. \A k \in DOMAIN visit.fields : visit.fields[k][1] # name
    BY <1>5, <1>12 DEF Visited
  <2>7. \A k \in DOMAIN fields : \E j \in 1..i :
          Wanted(j) /\ fields[k] = FieldOf(j) /\ Field(j)[1] # "error"
    <3>1. ASSUME NEW k \in DOMAIN fields
          PROVE  \E j \in 1..i : Wanted(j) /\ fields[k] = FieldOf(j) /\ Field(j)[1] # "error"
      <4>1. CASE k \in DOMAIN visit.fields
        BY <1>7, <1>8, <2>5, <4>1
      <4>2. CASE k = n + 1
        BY <1>8, <1>9, <1>12, <2>5, <4>2
      <4>3. QED BY <2>5, <4>1, <4>2
    <3>2. QED BY <3>1
  <2>8. \A j \in 1..i : Wanted(j) => \E k \in DOMAIN fields : fields[k] = FieldOf(j)
    <3>1. ASSUME NEW j \in 1..visit.idx, Wanted(j)
          PROVE  \E k \in DOMAIN fields : fields[k] = FieldOf(j)
      BY <1>7, <2>5, <3>1
    <3>2. \E k \in DOMAIN fields : fields[k] = FieldOf(i)
      BY <2>5
    <3>3. QED BY <1>8, <3>1, <3>2
  <2>9. \A j \in 1..visit.idx : metadata[j].name # name
    <3>1. ASSUME NEW j \in 1..visit.idx, metadata[j].name = name PROVE FALSE
      <4>1. Wanted(j)
        BY <1>12, <3>1 DEF Wanted
      <4>2. PICK k \in DOMAIN visit.fields : visit.fields[k] = FieldOf(j)
        BY <1>7, <4>1
      <4>3. visit.fields[k][1] = name
        BY <3>1, <4>2 DEF FieldOf
      <4>4. QED BY <2>6, <4>3
    <3>2. QED BY <3>1
  <2>10. \A j, l \in 1..i : Wanted(j) /\ metadata[j].name = metadata[l].name => j = l
    BY <1>7, <1>8, <2>9 DEF name
  <2>11. \A k, l \in DOMAIN fields : fields[k][1] = fields[l][1] => k = l
    <3>1. fields[n + 1][1] = name
      BY <2>5 DEF FieldOf, name
    <3>2. QED BY <1>7, <2>5, <2>6, <3>1
  <2>12. StructVisit'
    <3>1. visit'.fields = fields
      BY <2>2 DEF fields
    <3>2. visit'.idx = i /\ visit'.wanted \subseteq Columns_ /\ visit'.key = <<>>
      BY <1>7, <2>2
    <3>3. (\A k \in DOMAIN visit.fields : \E j \in 1..visit.idx :
              Wanted(j) /\ visit.fields[k] = FieldOf(j) /\ Field(j)[1] # "error")'
      BY <2>3, <2>4, <2>7, <3>1, <3>2
    <3>4. (\A j \in 1..visit.idx : Wanted(j) => \E k \in DOMAIN visit.fields : visit.fields[k] = FieldOf(j))'
      BY <2>4, <2>8, <3>1, <3>2
    <3>5. (\A j, l \in 1..visit.idx : Wanted(j) /\ metadata[j].name = metadata[l].name => j = l)'
      BY <1>4, <2>4, <2>10, <3>2
    <3>6. (\A k, l \in DOMAIN visit.fields : visit.fields[k][1] = visit.fields[l][1] => k = l)'
      BY <2>11, <3>1
    <3>7. (visit.idx \in 0..Len(values) /\ visit.idx <= Len(metadata))'
      BY <1>4, <1>6, <3>2
    <3>8. QED BY <2>2, <3>1, <3>2, <3>3, <3>4, <3>5, <3>6, <3>7 DEF StructVisit
  <2>13. VisitInv'
    <3>1. IsTuple(visit'.fields)
      BY <2>2, <2>5 DEF fields
    <3>2. QED BY <1>2, <2>1, <2>2, <2>12, <3>1 DEF VisitInv
  <2>14. QED BY <1>1, <1>3, <2>1, <2>13, VisitFrame
<1>13. QED BY <1>10, <1>11, <1>12

\* A step of the visit of a tuple moves it by one element.
LEMMA ElementTaken ==
  ASSUME NEW v, NEW w, NEW x, NEW f, w = [v EXCEPT !.idx = x, !.fields = f],
         v = [shape |-> v.shape, type |-> v.type, size |-> v.size, idx |-> v.idx,
              key |-> v.key, fields |-> v.fields, outcome |-> v.outcome]
  PROVE  w = [shape |-> v.shape, type |-> v.type, size |-> v.size, idx |-> x,
              key |-> v.key, fields |-> f, outcome |-> v.outcome]
OBVIOUS

LEMMA NextElementKeeps == ASSUME VInv, NextElement PROVE VInv'
<1> DEFINE i == visit.idx + 1
<1>1. /\ phase = "visiting" /\ visit.shape = "tuple"
      /\ UNCHANGED <<configVars, unicode, bound, params, source, rowVars>>
      /\ IF visit.idx = visit.size THEN End(<<"ok">>)
         ELSE IF i > Len(values) THEN End(<<"error", "length">>)
         ELSE IF Field(i)[1] = "error" THEN End(Field(i))
         ELSE /\ visit' = [visit EXCEPT !.idx = i, !.fields = Append(@, <<i, Field(i)>>)]
              /\ UNCHANGED phase
  BY DEF NextElement, Visiting
<1>2. TupleVisit /\ visit.type \in FieldTypes /\ IsTuple(visit.fields)
  BY <1>1 DEF VInv, VisitInv, StructVisit
<1>3. source = <<>>
  BY <1>1 DEF VInv, SourceInv
<1>4. /\ metadata' = metadata /\ values' = values
      /\ Len(values) \in Nat /\ DOMAIN values = 1..Len(values)
      /\ visit.idx \in 0..Len(values) /\ visit.size \in Nat /\ visit.idx <= visit.size
  BY <1>1, <1>2, VisitedRow DEF TupleVisit
<1>5. ASSUME NEW o, End(o),
             \/ o = <<"ok">> /\ visit.idx = visit.size
             \/ o = <<"error", "length">> /\ Len(values) < visit.size
             \/ o = Error /\ \E j \in DOMAIN values : Field(j)[1] = "error"
      PROVE  VInv'
  <2>1. visit' = [visit EXCEPT !.outcome = o] /\ phase' = "visited"
    BY <1>5 DEF End
  <2>2. /\ visit' = [shape |-> "tuple", type |-> visit'.type, size |-> visit'.size,
                     idx |-> visit'.idx, key |-> <<>>, fields |-> visit'.fields,
                     outcome |-> visit'.outcome]
        /\ visit'.shape = "tuple" /\ visit'.type = visit.type /\ visit'.size = visit.size
        /\ visit'.idx = visit.idx /\ visit'.fields = visit.fields /\ visit'.outcome = o
    <3>1. visit = [shape |-> "tuple", type |-> visit.type, size |-> visit.size,
                   idx |-> visit.idx, key |-> <<>>, fields |-> visit.fields,
                   outcome |-> visit.outcome]
      BY <1>2 DEF TupleVisit
    <3>2. visit' = [shape |-> "tuple", type |-> visit.type, size |-> visit.size,
                    idx |-> visit.idx, key |-> <<>>, fields |-> visit.fields, outcome |-> o]
      BY <2>1, <3>1
    <3> HIDE DEF i
    <3>3. QED BY <3>2
  <2>3. \A j : Field(j)' = Field(j)
    BY <1>1, <2>2, VisitedRow
  <2>4. TupleVisit'
    BY <1>2, <1>4, <2>2, <2>3 DEF TupleVisit
  <2>5. TupleEnd'
    BY <1>4, <1>5, <2>2, <2>3 DEF TupleEnd
  <2>6. VisitInv'
    BY <1>2, <2>1, <2>2, <2>4, <2>5 DEF VisitInv
  <2>7. QED BY <1>1, <1>3, <2>1, <2>6, VisitFrame
<1>6. CASE visit.idx = visit.size
  BY <1>1, <1>5, <1>6
<1>7. CASE visit.idx # visit.size /\ i > Len(values)
  <2>1. Len(values) < visit.size
    BY <1>4, <1>7
  <2>2. QED BY <1>1, <1>5, <1>7, <2>1
<1>8. CASE visit.idx # visit.size /\ ~(i > Len(values)) /\ Field(i)[1] = "error"
  <2>1. Field(i) = Error
    BY <1>2, <1>8, ReadOutcome, ValuePathAssumption DEF Field
  <2>2. i \in DOMAIN values
    BY <1>4, <1>8
  <2>3. End(Field(i))
    BY <1>1, <1>8
  <2> HIDE DEF i
  <2>4. QED BY <1>5, <1>8, <2>1, <2>2, <2>3
<1>9. CASE visit.idx # visit.size /\ ~(i > Len(values)) /\ Field(i)[1] # "error"
  <2>1. /\ visit' = [visit EXCEPT !.idx = i, !.fields = Append(@, <<i, Field(i)>>)]
        /\ phase' = "visiting"
    BY <1>1, <1>9
  <2>2. /\ visit' = [shape |-> "tuple", type |-> visit'.type, size |-> visit'.size,
                     idx |-> visit'.idx, key |-> <<>>, fields |-> visit'.fields,
                     outcome |-> visit'.outcome]
        /\ visit'.shape = "tuple" /\ visit'.type = visit.type /\ visit'.size = visit.size
        /\ visit'.idx = i /\ visit'.fields = Append(visit.fields, <<i, Field(i)>>)
    <3> DEFINE fields == Append(visit.fields, <<i, Field(i)>>)
    <3>1. visit = [shape |-> visit.shape, type |-> visit.type, size |-> visit.size,
                   idx |-> visit.idx, key |-> visit.key, fields |-> visit.fields,
                   outcome |-> visit.outcome]
      BY <1>2 DEF TupleVisit
    <3>2. visit.key = <<>> /\ visit.shape = "tuple"
      BY <1>2 DEF TupleVisit
    <3>3. visit' = [visit EXCEPT !.idx = i, !.fields = fields]
      BY <2>1
    <3> HIDE DEF i, fields
    <3>4. visit' = [shape |-> visit.shape, type |-> visit.type, size |-> visit.size,
                    idx |-> i, key |-> visit.key, fields |-> fields, outcome |-> visit.outcome]
      BY <3>1, <3>3, ElementTaken
    <3>5. QED BY <3>2, <3>4 DEF fields
  <2>3. \A j : Field(j)' = Field(j)
    BY <1>1, <2>2, VisitedRow
  <2>4. i \in 0..Len(values) /\ i <= visit.size /\ 1..i = 1..visit.idx \cup {i} /\ i = visit.idx + 1
    BY <1>4, <1>9
  <2>5. /\ Len(visit.fields) = visit.idx /\ DOMAIN visit.fields = 1..visit.idx
        /\ \A k \in 1..visit.idx : visit.fields[k] = <<k, Field(k)>> /\ Field(k)[1] # "error"
    BY <1>2, TupleIs DEF TupleVisit
  <2> HIDE DEF i
  <2>6. /\ IsTuple(visit'.fields) /\ Len(visit'.fields) = i /\ visit'.fields[i] = <<i, Field(i)>>
        /\ \A k \in 1..visit.idx : visit'.fields[k] = visit.fields[k]
    BY <1>2, <2>2, <2>4, <2>5, TupleAppend
  <2>7. \A k \in 1..i : visit'.fields[k] = <<k, Field(k)>> /\ Field(k)[1] # "error"
    BY <1>9, <2>4, <2>5, <2>6
  <2>8. TupleVisit'
    BY <1>4, <2>2, <2>3, <2>4, <2>6, <2>7 DEF TupleVisit
  <2>9. VisitInv'
    BY <1>2, <2>1, <2>2, <2>6, <2>8 DEF VisitInv
  <2>10. QED BY <1>1, <1>3, <2>1, <2>9, VisitFrame
<1>10. QED BY <1>6, <1>7, <1>8, <1>9

LEMMA StutterKeeps == ASSUME VInv, UNCHANGED vars PROVE VInv'
<1>1. /\ phase' = phase /\ visit' = visit
      /\ UNCHANGED <<configVars, unicode, bound, params, source, rowVars>>
      /\ UNCHANGED <<metadata, wire, values, decoded>>
  BY DEF vars, rowVars
<1>2. ConfigInv'
  BY <1>1, SameConfigKeeps DEF VInv
<1>3. PathInv'
  BY <1>1 DEF VInv, PathInv, NoRow
<1>4. BoundInv' /\ SourceInv'
  BY <1>1, BoundSame, SourceSame DEF VInv, SourceInv
<1>5. EchoInv'
  BY <1>1 DEF VInv, EchoInv, Sent
<1>6. VisitInv'
  <2>1. /\ \A j : FieldOf(j)' = FieldOf(j) /\ Wanted(j)' = Wanted(j)
        /\ \A name : Visited(name)' = Visited(name)
    BY <1>1, FieldsKept
  <2>2. \A j : Field(j)' = Field(j)
    BY <1>1, VisitedRow
  <2>3. CASE StructVisit
    <3>1. StructVisit'
      BY <1>1, <2>1, <2>2, <2>3 DEF StructVisit
    <3>2. StructEnd => StructEnd'
      BY <1>1, <2>1, <2>2 DEF StructEnd
    <3>3. QED BY <1>1, <2>3, <3>1, <3>2 DEF VInv, VisitInv, TupleVisit, StructVisit
  <2>4. CASE TupleVisit
    <3>1. TupleVisit'
      BY <1>1, <2>2, <2>4 DEF TupleVisit
    <3>2. TupleEnd => TupleEnd'
      BY <1>1, <2>2 DEF TupleEnd
    <3>3. QED BY <1>1, <2>4, <3>1, <3>2 DEF VInv, VisitInv, TupleVisit, StructVisit
  <2>5. QED BY <1>1, <2>3, <2>4 DEF VInv, VisitInv
<1>7. QED BY <1>2, <1>3, <1>4, <1>5, <1>6 DEF VInv

-----------------------------------------------------------------------------
(* The theorems *)

\* The invariant of a value's way (config.rs, query.rs, row.rs, serde_de.rs)
\* holds in every reachable state: what the Config and the row hold, which
\* parameters a row echoes, and what serde's visit has made of it so far.
THEOREM PathInvariance == Spec => []VInv
<1>1. VInv /\ [Next]_vars => VInv'
  BY ConfigureKeeps, LoginKeeps, BindKeeps, SendKeeps, SelectKeeps, WriteColumnKeeps, TakeRowKeeps,
     FromSchemaKeeps, RebindKeeps, StartVisitKeeps, NextKeyKeeps, NextValueKeeps, NextElementKeeps,
     StutterKeeps DEF Next
<1>2. QED BY <1>1, InitV, PTL DEF Spec

\* Whatever the order of the setters of a Config (config.rs), the driver is given
\* what each was last called with.
THEOREM LinkAlwaysAsSet == Spec => []LinkAsSet
<1>1. VInv => LinkAsSet
  BY LinkIs DEF VInv
<1>2. QED BY <1>1, PathInvariance, PTL

-----------------------------------------------------------------------------
(* Names *)

LEMMA LeastOf ==
  ASSUME NEW S, S \subseteq Nat, S # {}
  PROVE  \E i \in S : \A j \in S : i <= j
<1>1. PICK i \in S : \A j \in S : ~(<<j, i>> \in OpToRel(<, Nat))
  BY NatLessThanWellFounded, WFMin
<1>2. \A j \in S : ~(j < i)
  BY <1>1 DEF OpToRel
<1>3. \A j \in S : i <= j
  <2>1. \A j, k \in Nat : ~(j < k) => k <= j
    OBVIOUS
  <2>2. QED BY <1>2, <2>1
<1>4. QED BY <1>3

\* A name is found where it is first, exactly or in any case.
LEMMA NamesFound ==
  ASSUME VInv, NEW name
  PROVE  /\ NameMap(name) = {} <=> Called(name) = {}
         /\ \A i : IsFirst(i, Called(name)) => NameMap(name) = {i}
         /\ Called(name) # {} => \E i : IsFirst(i, Called(name))
         /\ ResolveNameCi(name) = {} <=> CalledCi(name) = {}
         /\ NameMap(name) # {} => ResolveNameCi(name) = NameMap(name)
         /\ NameMap(name) = {} => \A i : IsFirst(i, CalledCi(name)) => ResolveNameCi(name) = {i}
         /\ CalledCi(name) # {} => \E i : IsFirst(i, CalledCi(name))
<1>1. Called(name) \subseteq Nat /\ CalledCi(name) \subseteq Nat /\ Called(name) \subseteq CalledCi(name)
  <2>1. DOMAIN metadata \subseteq Nat
    BY TupleIs DEF VInv, PathInv, RowTyped
  <2>2. QED BY <2>1 DEF Called, CalledCi
<1>2. NameMap(name) = {i \in Called(name) : IsFirst(i, Called(name))}
  BY DEF NameMap, Called, IsFirst
<1>3. IgnoringCase(name) = {i \in CalledCi(name) : IsFirst(i, CalledCi(name))}
  BY DEF IgnoringCase, CalledCi, IsFirst
<1>4. ASSUME NEW S, S \subseteq Nat
      PROVE  /\ S # {} => \E i : IsFirst(i, S)
             /\ \A i : IsFirst(i, S) => {j \in S : IsFirst(j, S)} = {i}
  <2>1. S # {} => \E i : IsFirst(i, S)
    BY <1>4, LeastOf DEF IsFirst
  <2>2. \A i : IsFirst(i, S) => {j \in S : IsFirst(j, S)} = {i}
    <3>1. \A j, k \in Nat : j <= k /\ k <= j => j = k
      OBVIOUS
    <3>2. \A i, j : IsFirst(i, S) /\ IsFirst(j, S) => i = j
      BY <1>4, <3>1 DEF IsFirst
    <3>3. \A i : IsFirst(i, S) => i \in S
      BY DEF IsFirst
    <3>4. QED BY <3>2, <3>3
  <2>3. QED BY <2>1, <2>2
<1>5. \A i, S : IsFirst(i, S) => i \in S
  BY DEF IsFirst
<1>6. /\ NameMap(name) = {} <=> Called(name) = {}
      /\ \A i : IsFirst(i, Called(name)) => NameMap(name) = {i}
      /\ Called(name) # {} => \E i : IsFirst(i, Called(name))
  BY <1>1, <1>2, <1>4, <1>5
<1>7. /\ IgnoringCase(name) = {} <=> CalledCi(name) = {}
      /\ \A i : IsFirst(i, CalledCi(name)) => IgnoringCase(name) = {i}
      /\ CalledCi(name) # {} => \E i : IsFirst(i, CalledCi(name))
  BY <1>1, <1>3, <1>4, <1>5
<1>8. QED BY <1>1, <1>6, <1>7 DEF ResolveNameCi

\* The native reader returns a value of its type or None.
LEMMA NativeIs ==
  ASSUME NEW type \in NativeTypes, NEW c, CellLike(c)
  PROVE  LET x == FromSql(type, c, DecodedOf(c)) IN x = None \/ \E p : x = <<type, p>>
<1>1. CASE type = "str"
  <2>1. DecodedOf(c) = <<>> \/ \E p : DecodedOf(c) = <<p>>
    BY DEF DecodedOf
  <2>2. \A p : <<"str">> \o <<p>> = <<"str", p>>
    BY Joined
  <2>3. QED BY <1>1, <2>1, <2>2 DEF FromSql, ReadStr
<1>2. CASE type # "str" /\ Kind(c) \notin Accepts[type]
  BY <1>2 DEF FromSql
<1>3. CASE type = "Json" /\ Kind(c) \in Accepts[type]
  <2>1. c # Null /\ Kind(c) \in TextKinds
    <3>1. Accepts["Json"] = {"Json", "String"}
      BY DEF Accepts
    <3>2. QED BY <1>3, <3>1, NullIs DEF TextKinds
  <2>2. Payload(c) \in Texts
    BY <2>1, CellIs
  <2>3. ParseJson[Payload(c)] = <<>> \/ \E j : ParseJson[Payload(c)] = <<j>>
    BY <2>2, ParseJsonAssumption
  <2>4. \A j : <<"Json">> \o <<j>> = <<"Json", j>>
    BY Joined
  <2>5. FromSql(type, c, DecodedOf(c)) = ReadJson(c)
    BY <1>3 DEF FromSql
  <2>6. QED BY <1>3, <2>3, <2>4, <2>5 DEF ReadJson
<1>4. CASE type = "Decimal" /\ Kind(c) \in Accepts[type]
  BY <1>4 DEF FromSql, ReadDecimal, Some
<1>5. CASE type \notin {"str", "Json", "Decimal"} /\ Kind(c) \in Accepts[type]
  BY <1>5 DEF FromSql, Some
<1>6. QED BY <1>1, <1>2, <1>3, <1>4, <1>5

LEMMA LookupsFound == ASSUME VInv PROVE LookupsAgree
<1> SUFFICES ASSUME AtRow, NEW name \in Columns_, NEW type \in NativeTypes
             PROVE  LET exact == TryGetName(type, name)  ci == TryGetCi(type, name)
                    IN /\ (exact = NotFound) <=> (Called(name) = {})
                       /\ (ci = NotFound) <=> (CalledCi(name) = {})
                       /\ exact # NotFound =>
                            /\ ci = exact
                            /\ \E i \in DOMAIN metadata :
                                 IsFirst(i, Called(name)) /\ exact = TryGetIndex(type, i)
                       /\ exact = NotFound /\ ci # NotFound =>
                            \E i \in DOMAIN metadata :
                              IsFirst(i, CalledCi(name)) /\ ci = TryGetIndex(type, i)
  BY DEF LookupsAgree
<1> DEFINE exact == TryGetName(type, name)
           ci == TryGetCi(type, name)
<1>1. \A i : TryGetAt(type, i) # NotFound /\ TryGetAt(type, i) = TryGetIndex(type, i)
  <2>1. ASSUME NEW i PROVE TryGetAt(type, i) # NotFound
    <3>1. CASE i \in DOMAIN values
      <4>1. CellLike(values[i]) /\ Decoded(i) = DecodedOf(values[i])
        BY <3>1 DEF VInv, PathInv, RowTyped, Decoded
      <4>2. "error" \notin NativeTypes
        BY DEF NativeTypes, Accepts
      <4>3. TryGetAt(type, i) = None \/ \E p : TryGetAt(type, i) = <<type, p>>
        BY <3>1, <4>1, NativeIs DEF TryGetAt
      <4>4. QED BY <4>2, <4>3 DEF None, NotFound
    <3>2. CASE i \notin DOMAIN values
      BY <3>2 DEF TryGetAt, OutOfBounds, NotFound
    <3>3. QED BY <3>1, <3>2
  <2>2. \A i : TryGetAt(type, i) = TryGetIndex(type, i)
    BY DEF TryGetAt, TryGetIndex
  <2>3. QED BY <2>1, <2>2
<1>2. \A i, S : IsFirst(i, S) => i \in S
  BY DEF IsFirst
<1>3. Called(name) \subseteq DOMAIN metadata /\ CalledCi(name) \subseteq DOMAIN metadata
  BY DEF Called, CalledCi
<1>4. \A i : (CHOOSE j \in {i} : TRUE) = i
  OBVIOUS
<1>5. CASE Called(name) # {}
  <2>1. PICK i : IsFirst(i, Called(name))
    BY <1>5, NamesFound
  <2>2. NameMap(name) = {i} /\ ResolveNameCi(name) = {i} /\ i \in DOMAIN metadata
    BY <1>2, <1>3, <2>1, NamesFound
  <2>3. exact = TryGetAt(type, i) /\ ci = TryGetAt(type, i)
    BY <1>4, <2>2 DEF TryGetName, TryGetCi
  <2>4. CalledCi(name) # {}
    BY <2>2, NamesFound
  <2> HIDE DEF exact, ci
  <2>5. QED BY <1>1, <1>5, <2>1, <2>2, <2>3, <2>4 DEF exact, ci
<1>6. CASE Called(name) = {} /\ CalledCi(name) # {}
  <2>1. PICK i : IsFirst(i, CalledCi(name))
    BY <1>6, NamesFound
  <2>2. NameMap(name) = {} /\ ResolveNameCi(name) = {i} /\ i \in DOMAIN metadata
    BY <1>2, <1>3, <1>6, <2>1, NamesFound
  <2>3. exact = NotFound /\ ci = TryGetAt(type, i)
    BY <1>4, <2>2 DEF TryGetName, TryGetCi
  <2> HIDE DEF exact, ci
  <2>4. QED BY <1>1, <1>6, <2>1, <2>2, <2>3 DEF exact, ci
<1>7. CASE Called(name) = {} /\ CalledCi(name) = {}
  <2>1. NameMap(name) = {} /\ ResolveNameCi(name) = {}
    BY <1>7, NamesFound
  <2>2. exact = NotFound /\ ci = NotFound
    BY <2>1 DEF TryGetName, TryGetCi
  <2>3. QED BY <1>7, <2>2
<1>8. QED BY <1>5, <1>6, <1>7

-----------------------------------------------------------------------------
(* Rust's floats *)

FloatTypes == {"f32", "f64"}

LEMMA FloatsAre ==
  ASSUME NEW type \in FloatTypes
  PROVE  /\ Floats[type] \subseteq Int /\ Beyond[type] \in Nat
         /\ \A f \in Floats[type] : -Beyond[type] < f /\ f < Beyond[type]
         /\ Floats[type] \subseteq Floats["f64"]
BY FloatsAssumption DEF FloatTypes

\* Multiples keep the order of what they are multiples of.
LEMMA Ordered ==
  ASSUME NEW f \in Int, NEW g \in Int, NEW d \in Int, d > 0
  PROVE  /\ f * d \in Int /\ g * d \in Int
         /\ f < g <=> f * d < g * d
         /\ f * d = g * d <=> f = g
<1>1. f * d \in Int /\ g * d \in Int
  OBVIOUS
<1>2. ASSUME NEW a \in Int, NEW b \in Int, a < b PROVE a * d < b * d
  <2>1. (b - a) * d = b * d - a * d
    OBVIOUS
  <2>2. \A e \in Int : e > 0 => e * d > 0
    OBVIOUS
  <2>3. (b - a) * d > 0
    BY <1>2, <2>2
  <2>4. a * d \in Int /\ b * d \in Int
    OBVIOUS
  <2>5. QED BY <2>1, <2>3, <2>4
<1>3. f < g \/ f = g \/ g < f
  OBVIOUS
<1>4. QED BY <1>1, <1>2, <1>3

\* A cast takes a float, or an end, that no other is nearer than.
LEMMA CastIs ==
  ASSUME NEW type \in FloatTypes, NEW x \in Int, NEW d \in Int, d > 0
  PROVE  LET ends == Floats[type] \cup {Beyond[type], -Beyond[type]}
         IN \E f \in ends :
              /\ \A g \in ends : Magnitude((f * d) - x) <= Magnitude((g * d) - x)
              /\ Cast(type, x, d) = IF f = Beyond[type] THEN <<"inf">>
                                    ELSE IF f = -Beyond[type] THEN <<"-inf">>
                                    ELSE <<f, FloatScale>>
<1> DEFINE ends == Floats[type] \cup {Beyond[type], -Beyond[type]}
           Far(f) == Magnitude((f * d) - x)
           S == {Far(f) : f \in ends}
<1>1. ends \subseteq Int /\ Beyond[type] \in ends
  BY FloatsAre
<1>2. ASSUME NEW f \in Int PROVE Far(f) \in Nat
  BY DEF Magnitude
<1> HIDE DEF Far, ends
<1>3. S \subseteq Nat /\ S # {}
  BY <1>1, <1>2
<1>4. PICK f \in ends : \A g \in ends : Far(f) <= Far(g)
  <2>1. PICK least \in S : \A m \in S : least <= m
    BY ONLY <1>3, LeastOf
  <2>2. QED BY <2>1
<1>5. Nearby(type, x, d) = {h \in ends : \A g \in ends : Far(h) <= Far(g)}
  BY DEF Nearby, ends, Far
<1>6. PICK h \in Nearby(type, x, d) :
        Cast(type, x, d) = IF h = Beyond[type] THEN <<"inf">>
                           ELSE IF h = -Beyond[type] THEN <<"-inf">> ELSE <<h, FloatScale>>
  <2>1. (CHOOSE h \in Nearby(type, x, d) : TRUE) \in Nearby(type, x, d)
    BY <1>4, <1>5
  <2>2. QED BY <2>1 DEF Cast
<1>7. QED BY <1>5, <1>6 DEF ends, Far

\* A float is taken for itself.
LEMMA CastExact ==
  ASSUME NEW type \in FloatTypes, NEW f \in Floats[type], NEW d \in Int, d > 0
  PROVE  Cast(type, f * d, d) = <<f, FloatScale>>
<1> DEFINE ends == Floats[type] \cup {Beyond[type], -Beyond[type]}
           x == f * d
<1>1. /\ f \in Int /\ Beyond[type] \in Nat /\ Floats[type] \subseteq Int
      /\ f # Beyond[type] /\ f # -Beyond[type]
  BY FloatsAre
<1>2. x \in Int
  BY <1>1
<1>3. PICK g \in ends :
         /\ \A h \in ends : Magnitude((g * d) - x) <= Magnitude((h * d) - x)
         /\ Cast(type, x, d) = IF g = Beyond[type] THEN <<"inf">>
                               ELSE IF g = -Beyond[type] THEN <<"-inf">> ELSE <<g, FloatScale>>
  BY ONLY <1>2, type \in FloatTypes, d \in Int, d > 0, CastIs
<1>4. Magnitude((g * d) - x) <= Magnitude((f * d) - x)
  BY <1>3
<1>5. Magnitude((f * d) - x) = 0
  BY <1>2 DEF Magnitude
<1>6. g \in Int /\ g * d \in Int
  BY <1>1
<1>7. g * d = x
  <2> HIDE DEF x
  <2>1. QED BY <1>2, <1>4, <1>5, <1>6 DEF Magnitude
<1>8. g = f
  BY <1>1, <1>6, <1>7, Ordered
<1>9. QED BY <1>1, <1>3, <1>8

\* p is as near to x / d as a float of its type can be, or an infinity past them all.
Near(type, p, x, d) ==
  CASE p = <<"inf">>  -> \A f \in Floats[type] : f * d < x
    [] p = <<"-inf">> -> \A f \in Floats[type] : x < f * d
    [] OTHER          ->
         /\ p = <<p[1], FloatScale>> /\ p[1] \in Floats[type]
         /\ \A f \in Floats[type] : ~(x <= f * d /\ f < p[1]) /\ ~(p[1] < f /\ f * d <= x)

LEMMA Pairs == \A f : <<f, FloatScale>> \notin Infinities
BY DEF Infinities

LEMMA CastNear ==
  ASSUME NEW type \in FloatTypes, NEW x \in Int, NEW d \in Int, d > 0
  PROVE  Near(type, Cast(type, x, d), x, d)
<1> DEFINE ends == Floats[type] \cup {Beyond[type], -Beyond[type]}
<1>1. /\ Beyond[type] \in Nat /\ ends \subseteq Int /\ Floats[type] \subseteq ends
      /\ \A f \in Floats[type] : -Beyond[type] < f /\ f < Beyond[type]
  BY FloatsAre
<1>2. PICK g \in ends :
         /\ \A h \in ends : Magnitude((g * d) - x) <= Magnitude((h * d) - x)
         /\ Cast(type, x, d) = IF g = Beyond[type] THEN <<"inf">>
                               ELSE IF g = -Beyond[type] THEN <<"-inf">> ELSE <<g, FloatScale>>
  BY ONLY type \in FloatTypes, x \in Int, d \in Int, d > 0, CastIs
<1>3. g \in Int /\ g * d \in Int
  BY <1>1
<1>4. ASSUME NEW f \in Floats[type]
      PROVE  /\ f \in Int /\ f * d \in Int
             /\ Magnitude((g * d) - x) <= Magnitude((f * d) - x)
             /\ f < g <=> f * d < g * d
             /\ g < f <=> g * d < f * d
  BY <1>1, <1>2, <1>3, Ordered
<1>5. ASSUME NEW f \in Floats[type] PROVE ~(x <= f * d /\ f < g) /\ ~(g < f /\ f * d <= x)
  <2> DEFINE a == f * d  b == g * d
  <2>1. a \in Int /\ b \in Int /\ Magnitude(b - x) <= Magnitude(a - x)
        /\ (f < g <=> a < b) /\ (g < f <=> b < a)
    BY <1>3, <1>4
  <2> HIDE DEF a, b
  <2>2. ~(x <= a /\ a < b) /\ ~(b < a /\ a <= x)
    BY ONLY <2>1, x \in Int DEF Magnitude
  <2>3. QED BY <2>1, <2>2 DEF a, b
<1>6. CASE g = Beyond[type]
  <2>1. Cast(type, x, d) = <<"inf">>
    BY <1>2, <1>6
  <2>2. \A f \in Floats[type] : f * d < x
    BY <1>1, <1>4, <1>5, <1>6
  <2>3. QED BY <2>1, <2>2 DEF Near
<1>7. CASE g = -Beyond[type] /\ g # Beyond[type]
  <2>1. Cast(type, x, d) = <<"-inf">>
    BY <1>2, <1>7
  <2>2. \A f \in Floats[type] : x < f * d
    BY <1>1, <1>4, <1>5, <1>7
  <2>3. QED BY <2>1, <2>2 DEF Near
<1>8. CASE g # -Beyond[type] /\ g # Beyond[type]
  <2>1. Cast(type, x, d) = <<g, FloatScale>> /\ g \in Floats[type]
    BY <1>2, <1>8
  <2>2. <<g, FloatScale>> # <<"inf">> /\ <<g, FloatScale>> # <<"-inf">> /\ <<g, FloatScale>>[1] = g
    OBVIOUS
  <2>3. QED BY <1>5, <2>1, <2>2 DEF Near
<1>9. QED BY <1>6, <1>7, <1>8

\* A float of one type, as another that has it.
LEMMA FloatKept ==
  ASSUME NEW type \in FloatTypes, NEW p \in PayloadsIn(type)
  PROVE  /\ CastFloat(type, p) = p
         /\ p = <<p[1], FloatScale>> /\ p[1] \in Floats[type] /\ p[1] \in Int
         /\ Near(type, p, p[1], 1)
         /\ p \in PayloadsIn("f64")
<1>1. PICK f \in Floats[type] : p = <<f, FloatScale>>
  BY DEF PayloadsIn
<1>2. f \in Int /\ Floats[type] \subseteq Int /\ f \in Floats["f64"]
  BY FloatsAre
<1>3. p \notin Infinities /\ p[1] = f /\ p # <<"inf">> /\ p # <<"-inf">>
  BY <1>1, Pairs
<1>4. f * 1 = f /\ 1 \in Int /\ 1 > 0
  BY <1>2
<1>5. CastFloat(type, p) = p
  <2>1. Cast(type, f * 1, 1) = <<f, FloatScale>>
    BY <1>4, CastExact
  <2>2. QED BY <1>1, <1>3, <1>4, <2>1 DEF CastFloat
<1>6. Near(type, p, f, 1)
  <2>1. \A g \in Floats[type] : ~(f <= g * 1 /\ g < f) /\ ~(f < g /\ g * 1 <= f)
    BY <1>2
  <2>2. QED BY <1>1, <1>3, <2>1 DEF Near
<1>7. QED BY <1>1, <1>2, <1>3, <1>5, <1>6 DEF PayloadsIn

\* A cast of a cast: every float of the type is an f64.
LEMMA NearTwice ==
  ASSUME NEW type \in FloatTypes, NEW x \in Int, NEW p, Near("f64", p, x, 1)
  PROVE  Near(type, CastFloat(type, p), x, 1)
<1>1. /\ Floats[type] \subseteq Floats["f64"] /\ Floats["f64"] \subseteq Int
      /\ \A f \in Floats["f64"] : f * 1 = f
  <2>1. "f64" \in FloatTypes
    BY DEF FloatTypes
  <2>2. Floats[type] \subseteq Floats["f64"] /\ Floats["f64"] \subseteq Int
    BY <2>1, FloatsAre
  <2>3. QED BY <2>2
<1>2. CASE p \in Infinities
  <2>1. CastFloat(type, p) = p
    BY <1>2 DEF CastFloat
  <2>2. QED BY <1>1, <1>2, <2>1 DEF Near, Infinities
<1>3. CASE p \notin Infinities
  <2>1. /\ p[1] \in Floats["f64"]
        /\ \A f \in Floats["f64"] : ~(x <= f /\ f < p[1]) /\ ~(p[1] < f /\ f <= x)
    BY <1>1, <1>3 DEF Near, Infinities
  <2> DEFINE y == p[1]  q == Cast(type, y, 1)
  <2>2. y \in Int /\ CastFloat(type, p) = q
    BY <1>1, <1>3, <2>1 DEF CastFloat
  <2>3. Near(type, q, y, 1)
    <3>1. 1 \in Int /\ 1 > 0
      OBVIOUS
    <3>2. QED BY <2>2, <3>1, CastNear
  <2>4. \A f \in Floats[type] : f \in Int /\ f * 1 = f /\ ~(x <= f /\ f < y) /\ ~(y < f /\ f <= x)
    BY <1>1, <2>1
  <2> HIDE DEF y, q
  <2>5. Near(type, q, x, 1)
    <3>1. CASE q = <<"inf">>
      <4>1. \A f \in Floats[type] : f < y
        BY <2>3, <2>4, <3>1 DEF Near
      <4>2. \A f \in Floats[type] : f * 1 < x
        BY <2>2, <2>4, <4>1
      <4>3. QED BY <3>1, <4>2 DEF Near
    <3>2. CASE q = <<"-inf">>
      <4>1. q # <<"inf">>
        BY <3>2
      <4>2. \A f \in Floats[type] : y < f
        BY <2>3, <2>4, <3>2, <4>1 DEF Near
      <4>3. \A f \in Floats[type] : x < f * 1
        BY <2>2, <2>4, <4>2
      <4>4. QED BY <3>2, <4>1, <4>3 DEF Near
    <3>3. CASE q # <<"inf">> /\ q # <<"-inf">>
      <4>1. /\ q = <<q[1], FloatScale>> /\ q[1] \in Floats[type]
            /\ \A f \in Floats[type] : ~(y <= f * 1 /\ f < q[1]) /\ ~(q[1] < f /\ f * 1 <= y)
        BY <2>3, <3>3 DEF Near
      <4>2. q[1] \in Int
        BY <2>4, <4>1
      <4>3. \A f \in Floats[type] : ~(x <= f * 1 /\ f < q[1]) /\ ~(q[1] < f /\ f * 1 <= x)
        BY <2>2, <2>4, <4>1, <4>2
      <4>4. QED BY <3>3, <4>1, <4>3 DEF Near
    <3>4. QED BY <3>1, <3>2, <3>3
  <2>6. QED BY <2>2, <2>5
<1>4. QED BY <1>2, <1>3

\* The powers of ten that numbers are scaled by.
LEMMA TenIs ==
  /\ 10^MoneyScale \in Int /\ 10^MoneyScale > 0
  /\ 10^FloatScale \in Int /\ 10^FloatScale > 0
  /\ 10^(FloatScale - MoneyScale) \in Int /\ 10^(FloatScale - MoneyScale) > 0
  /\ 10^FloatScale = 10^MoneyScale * 10^(FloatScale - MoneyScale)
  /\ 10^(FloatScale - FloatScale) = 1
<1>1. MoneyScale \in Nat /\ FloatScale \in Nat /\ FloatScale - MoneyScale \in Nat
  BY SqlValuesAssumption
<1>2. \A n \in Nat : 10^n \in Int
  OBVIOUS
<1>3. FloatScale - FloatScale = 0 /\ 10^0 = 1
  BY <1>1
<1>4. QED BY <1>1, <1>2, <1>3, PowersOfTen

\* An integer as a float: never past the ends of an f64.
LEMMA IntCast ==
  ASSUME NEW n \in Ints
  PROVE  /\ n * 10^FloatScale \in Int
         /\ \A type \in FloatTypes : Near(type, CastInt(type, n), n * 10^FloatScale, 1)
         /\ CastInt("f64", n) \in PayloadsIn("f64")
<1> DEFINE x == n * 10^FloatScale
<1>1. n \in Int /\ x \in Int
  BY SqlValuesAssumption, TenIs
<1>2. \A type : CastInt(type, n) = Cast(type, x, 1)
  BY DEF CastInt
<1>3. PICK f, g \in Floats["f64"] : f <= x /\ x <= g
  BY FloatsAssumption
<1> HIDE DEF x
<1>4. \A type \in FloatTypes : Near(type, CastInt(type, n), x, 1)
  <2>1. 1 \in Int /\ 1 > 0
    OBVIOUS
  <2>2. QED BY <1>1, <1>2, <2>1, CastNear
<1>5. CastInt("f64", n) \in PayloadsIn("f64")
  <2> DEFINE p == CastInt("f64", n)
  <2>1. Near("f64", p, x, 1) /\ f \in Int /\ g \in Int
    BY <1>4, FloatsAre DEF FloatTypes
  <2> HIDE DEF p
  <2>2. p # <<"inf">>
    BY <1>1, <1>3, <2>1 DEF Near
  <2>3. p # <<"-inf">>
    BY <1>1, <1>3, <2>1, <2>2 DEF Near
  <2>4. p = <<p[1], FloatScale>> /\ p[1] \in Floats["f64"]
    BY <2>1, <2>2, <2>3 DEF Near
  <2>5. QED BY <2>4 DEF PayloadsIn, p
<1>6. QED BY <1>1, <1>4, <1>5 DEF x

\* Money that an f64 counts exactly is divided to the nearest f64.
LEMMA MoneyNear ==
  ASSUME NEW cell, RawMoney(cell) \in Int, RawMoney(cell) * 10^FloatScale \in Floats["f64"]
  PROVE  Near("f64", MoneyAsF64(cell), RawMoney(cell) * 10^(FloatScale - MoneyScale), 1)
<1> DEFINE raw == RawMoney(cell)
           m == 10^MoneyScale
           u == 10^(FloatScale - MoneyScale)
           big == raw * 10^FloatScale
           x == raw * u
           p == Cast("f64", big, m)
<1>1. /\ m \in Int /\ m > 0 /\ u \in Int /\ 10^FloatScale = m * u /\ raw \in Int
      /\ "f64" \in FloatTypes /\ 1 \in Int /\ 1 > 0
  BY TenIs DEF FloatTypes
<1>2. big \in Floats["f64"] /\ Floats["f64"] \subseteq Int
  BY <1>1, FloatsAre
<1>3. MoneyAsF64(cell) = p
  <2>1. CastInt("f64", raw) = Cast("f64", big, 1)
    BY DEF CastInt
  <2> HIDE DEF big, p
  <2>2. Cast("f64", big * 1, 1) = <<big, FloatScale>>
    BY <1>1, <1>2, CastExact
  <2>3. big * 1 = big
    BY <1>2
  <2>4. CastInt("f64", raw) = <<big, FloatScale>> /\ <<big, FloatScale>> \notin Infinities
    BY <2>1, <2>2, <2>3, Pairs
  <2>5. QED BY <2>4 DEF MoneyAsF64, p
<1>4. big = x * m /\ x \in Int
  <2> HIDE DEF raw, m, u
  <2>1. \A a, b, c \in Int : a * (b * c) = (a * c) * b /\ a * c \in Int
    OBVIOUS
  <2>2. QED BY <1>1, <2>1
<1> HIDE DEF raw, m, u, big, x, p
<1>5. Near("f64", p, big, m)
  BY <1>1, <1>2, CastNear DEF p
<1>6. \A f \in Floats["f64"] :
        /\ f \in Int /\ f * 1 = f /\ f * m \in Int /\ big \in Int
        /\ f < x <=> f * m < big
        /\ x < f <=> big < f * m
  BY <1>1, <1>2, <1>4, Ordered
<1>7. Near("f64", p, x, 1)
  <2>1. CASE p = <<"inf">>
    BY <1>5, <1>6, <2>1 DEF Near
  <2>2. CASE p = <<"-inf">>
    <3>1. p # <<"inf">>
      BY <2>2
    <3>2. QED BY <1>5, <1>6, <2>2, <3>1 DEF Near
  <2>3. CASE p # <<"inf">> /\ p # <<"-inf">>
    <3>1. /\ p = <<p[1], FloatScale>> /\ p[1] \in Floats["f64"]
          /\ \A f \in Floats["f64"] : ~(big <= f * m /\ f < p[1]) /\ ~(p[1] < f /\ f * m <= big)
      BY <1>5, <2>3 DEF Near
    <3>2. \A f \in Floats["f64"] : ~(x <= f * 1 /\ f < p[1]) /\ ~(p[1] < f /\ f * 1 <= x)
      <4>1. \A f \in Floats["f64"] : (x <= f * 1 => big <= f * m) /\ (f * 1 <= x => f * m <= big)
        BY <1>4, <1>6
      <4>2. QED BY <3>1, <4>1
    <3>3. QED BY <2>3, <3>1, <3>2 DEF Near
  <2>4. QED BY <2>1, <2>2, <2>3
<1>8. QED BY <1>3, <1>7 DEF x, raw, u

\* What is near a number is read faithfully.
LEMMA FaithfulIs ==
  ASSUME NEW type \in FloatTypes, NEW p, NEW n, NEW s,
         Near(type, p, n * 10^(FloatScale - s), 1)
  PROVE  Faithful(type, p, <<n, s>>)
<1> DEFINE x == n * 10^(FloatScale - s)
<1>1. \A f \in Floats[type] : f * 1 = f
  BY FloatsAre
<1>2. <<n, s>>[1] = n /\ <<n, s>>[2] = s
  OBVIOUS
<1> HIDE DEF x
<1>3. CASE p = <<"inf">>
  BY <1>1, <1>2, <1>3 DEF Faithful, Near, x
<1>4. CASE p # <<"inf">>
  BY <1>1, <1>2, <1>4 DEF Faithful, Near, x
<1>5. QED BY <1>3, <1>4

\* The floats of a row are those of their types.
LEMMA FloatsFit ==
  ASSUME NEW k, NEW p, Sound(<<k, p>>)
  PROVE  /\ k = "Real" => p \in PayloadsIn("f32")
         /\ k = "Float" => p \in PayloadsIn("f64")
<1>1. IsNone(<<k, p>>) = FALSE /\ <<k, p>>[1] = k /\ <<k, p>>[2] = p
  BY Tuples
<1>2. QED BY <1>1 DEF Sound, CanHold

-----------------------------------------------------------------------------
(* Fields *)

\* What the native reader lends of a cell is its text, and serde's reads it.
LEMMA TextReads ==
  ASSUME NEW c, CellLike(c), Success(FromSql("str", c, DecodedOf(c)))
  PROVE  /\ c # Null /\ Kind(c) \in TextKinds /\ Payload(c) \in Texts
         /\ DecodedOf(c) = <<Payload(c)>>
         /\ FromSql("str", c, DecodedOf(c)) = <<"str", Payload(c)>>
         /\ VisitStr(c, DecodedOf(c)) = <<"text", Payload(c)>>
         /\ DeserializeOption("str", c, DecodedOf(c)) = <<"text", Payload(c)>>
<1> DEFINE ds == DecodedOf(c)
           p == Payload(c)
<1>1. FromSql("str", c, ds) = IF ds = <<>> THEN None ELSE <<"str">> \o ds
  BY DEF FromSql, ReadStr
<1>2. ds # <<>>
  BY <1>1 DEF Success, None
<1>3. c # Null /\ Kind(c) \in TextKinds /\ p \in Texts /\ ds = <<p>>
  BY <1>2, NullIs, CellIs
<1> HIDE DEF ds, p
<1>4. <<"str">> \o <<p>> = <<"str", p>>
  BY Joined
<1>5. VisitStr(c, ds) = <<"text", p>>
  <2>1. DecodedText(ds) = p
    BY <1>2, <1>3 DEF DecodedText
  <2>2. QED BY <1>3, <2>1 DEF VisitStr, Some, TextKinds, Temporals
<1>6. DeserializeOption("str", c, ds) = VisitStr(c, ds)
  BY <1>3 DEF DeserializeOption, Deserialize, IntTypes, Bits
<1>7. QED BY <1>1, <1>2, <1>3, <1>4, <1>5, <1>6 DEF ds, p

\* Whatever else the native reader reads, serde's does, where the type is wide enough.
LEMMA SerdeSame ==
  ASSUME NEW type \in (NativeTypes \cap SerdeTypes) \ {"str"}, NEW c, CellLike(c), Sound(c),
         Success(FromSql(type, c, DecodedOf(c)))
  PROVE  /\ type \in IntTypes => Kind(c) \in Integers /\ Kind(c) \in Accepts[type]
         /\ type \in IntTypes /\ ~Fits(type, Payload(c)) => DeserializeOption(type, c, DecodedOf(c)) = Error
         /\ (type \in IntTypes => Fits(type, Payload(c)))
              => DeserializeOption(type, c, DecodedOf(c)) = FromSql(type, c, DecodedOf(c))
<1> DEFINE ds == DecodedOf(c)
           native == FromSql(type, c, ds)
           field == DeserializeOption(type, c, ds)
<1>1. /\ NativeTypes = {"bool", "u8", "i16", "i32", "i64", "f32", "f64", "String", "str", "Json", "Uuid",
           "bytes", "NaiveDate", "NaiveTime", "NaiveDateTime", "FixedOffset", "VectorValue", "Decimal"}
      /\ IntTypes = {"u8", "u16", "u32", "u64", "i8", "i16", "i32", "i64", "u128", "i128"}
  BY DEF NativeTypes, Accepts, IntTypes, Bits
<1>2. type \in {"bool", "u8", "i16", "i32", "i64", "f32", "f64", "bytes"}
  BY <1>1 DEF SerdeTypes
<1>3. native # None
  BY DEF Success, None
<1> DEFINE k == c[1]
           p == c[2]
<1>4. Kind(c) \in Accepts[type]
  <2> HIDE DEF k, p
  <2>1. QED BY <1>2, <1>3 DEF FromSql
<1>5. c # Null /\ Kind(c) = k /\ Payload(c) = p
  <2>1. "Null" \notin Accepts[type]
    BY <1>2 DEF Accepts
  <2>2. QED BY <1>4, <2>1, NullIs, CellIs
<1>6. field = Deserialize(type, c, ds)
  BY <1>5 DEF DeserializeOption
<1> HIDE DEF ds, native, field, k, p
<1>7. native = <<type, p>>
  BY <1>2, <1>4, <1>5 DEF FromSql, Some, native
<1>8. CASE type = "bool"
  <2>1. field = VisitBool(c) /\ k = "Bit"
    BY <1>1, <1>4, <1>5, <1>6, <1>8 DEF Deserialize, Accepts
  <2>2. field = <<type, p>>
    BY <1>5, <1>8, <2>1 DEF VisitBool, Some
  <2>3. QED BY <1>1, <1>7, <1>8, <2>2 DEF native, field, ds
<1>9. CASE type \in {"u8", "i16", "i32", "i64"}
  <2>1. field = VisitInt(type, c) /\ k \in Integers
    BY <1>1, <1>4, <1>5, <1>6, <1>9 DEF Deserialize, Accepts, Integers
  <2>2. field = IF Fits(type, p) THEN <<type, p>> ELSE Error
    BY <1>5, <2>1 DEF VisitInt, Some, Integers
  <2>3. Fits(type, p) => field = native
    BY <1>7, <2>2
  <2>4. ~Fits(type, p) => field = Error
    BY <2>2
  <2>5. Payload(c) = p /\ Kind(c) \in Integers
    BY <1>5, <2>1
  <2>6. /\ ~Fits(type, Payload(c)) => field = Error
        /\ Fits(type, Payload(c)) => field = native
    BY <2>3, <2>4, <2>5
  <2>7. QED BY <1>1, <1>4, <1>9, <2>5, <2>6 DEF native, field, ds
<1>10. CASE type \in {"f32", "f64"}
  <2>1. /\ field = VisitFloat(type, c)
        /\ k = "Real" \/ (k = "Float" /\ type = "f64")
    BY <1>1, <1>4, <1>5, <1>6, <1>10 DEF Deserialize, Accepts
  <2>2. p \in PayloadsIn(type)
    <3>1. c = <<k, p>>
      BY <1>5, CellIs DEF k, p
    <3>2. /\ k = "Real" => p \in PayloadsIn("f32")
          /\ k = "Float" => p \in PayloadsIn("f64")
      BY <3>1, FloatsFit
    <3>3. PayloadsIn("f32") \subseteq PayloadsIn("f64")
      BY FloatKept DEF FloatTypes
    <3>4. QED BY <1>10, <2>1, <3>2, <3>3
  <2>3. CastFloat(type, p) = p
    BY <1>10, <2>2, FloatKept DEF FloatTypes
  <2>4. field = <<type, p>>
    BY <1>5, <2>1, <2>3 DEF VisitFloat, Some, Integers
  <2>5. QED BY <1>1, <1>7, <1>10, <2>4 DEF native, field, ds
<1>11. CASE type = "bytes"
  <2>1. field = VisitBytes(c) /\ k = "Bytes"
    BY <1>1, <1>4, <1>5, <1>6, <1>11 DEF Deserialize, Accepts
  <2>2. field = <<type, p>>
    BY <1>5, <1>11, <2>1 DEF VisitBytes, Some
  <2>3. QED BY <1>1, <1>7, <1>11, <2>2 DEF native, field, ds
<1>12. QED BY <1>2, <1>8, <1>9, <1>10, <1>11

\* What the native reader reads of a cell, serde's does, or refuses.
LEMMA SerdeReads ==
  ASSUME NEW type \in NativeTypes \cap SerdeTypes, NEW c, CellLike(c), Sound(c),
         Success(FromSql(type, c, DecodedOf(c))),
         DeserializeOption(type, c, DecodedOf(c))[1] # "error"
  PROVE  DeserializeOption(type, c, DecodedOf(c))[2] = FromSql(type, c, DecodedOf(c))[2]
<1>1. CASE type = "str"
  <2>1. /\ FromSql(type, c, DecodedOf(c)) = <<"str", Payload(c)>>
        /\ DeserializeOption(type, c, DecodedOf(c)) = <<"text", Payload(c)>>
    BY <1>1, TextReads
  <2>2. QED BY <2>1
<1>2. CASE type # "str"
  <2>1. Error[1] = "error"
    BY DEF Error
  <2>2. QED BY <1>2, <2>1, SerdeSame
<1>3. QED BY <1>1, <1>2

Holds(x, i) ==
  /\ x = DeserializeOption(visit.type, values[i], Decoded(i))
  /\ x = None => values[i] = Null
  /\ visit.type \in NativeTypes /\ Success(TryGetIndex(visit.type, i)) =>
       x[2] = TryGetIndex(visit.type, i)[2]

\* A field holds what its column does.
LEMMA FieldHolds ==
  ASSUME VInv, NumbersInv, phase = "visited", NEW i \in DOMAIN values, Field(i)[1] # "error"
  PROVE  Holds(Field(i), i)
<1>1. CellLike(values[i]) /\ Decoded(i) = DecodedOf(values[i]) /\ Sound(values[i])
  BY DEF VInv, PathInv, RowTyped, Decoded, NumbersInv, AllSound
<1>2. visit.type \in SerdeTypes
  BY ValuePathAssumption DEF VInv, VisitInv
<1>3. Field(i) = None => values[i] = Null
  BY <1>2, ReadOutcome DEF Field
<1>4. TryGetIndex(visit.type, i) = FromSql(visit.type, values[i], DecodedOf(values[i]))
  BY <1>1 DEF TryGetIndex, TryGetAt
<1>5. visit.type \in NativeTypes /\ Success(TryGetIndex(visit.type, i)) =>
        Field(i)[2] = TryGetIndex(visit.type, i)[2]
  BY <1>1, <1>2, <1>4, SerdeReads DEF Field
<1>6. QED BY <1>3, <1>5 DEF Holds, Field

Valued(name) == {i \in Called(name) : i \in DOMAIN values}

\* The columns of a struct's name that have values, and its fields, are one or none.
LEMMA FieldOfName ==
  ASSUME VInv, phase = "visited", StructVisit, visit.idx = Len(values), NEW name \in visit.wanted
  PROVE  \/ Valued(name) = {} /\ Visited(name) = {}
         \/ \E i \in DOMAIN values, k \in DOMAIN visit.fields :
              /\ Valued(name) = {i} /\ Visited(name) = {k} /\ NameMap(name) = {i}
              /\ visit.fields[k] = <<name, Field(i)>> /\ Field(i)[1] # "error"
<1>1. /\ Len(values) \in Nat /\ Len(metadata) \in Nat /\ Len(values) <= Len(metadata)
      /\ DOMAIN values = 1..Len(values) /\ DOMAIN metadata = 1..Len(metadata)
  BY TupleIs DEF VInv, PathInv, RowTyped, StructVisit
<1>2. Valued(name) = {i \in 1..Len(values) : metadata[i].name = name}
  BY <1>1 DEF Valued, Called
<1>3. /\ \A k \in DOMAIN visit.fields : \E i \in 1..Len(values) :
           Wanted(i) /\ visit.fields[k] = FieldOf(i) /\ Field(i)[1] # "error"
      /\ \A i \in 1..Len(values) : Wanted(i) => \E k \in DOMAIN visit.fields : visit.fields[k] = FieldOf(i)
      /\ \A i, j \in 1..Len(values) : Wanted(i) /\ metadata[i].name = metadata[j].name => i = j
      /\ \A k, l \in DOMAIN visit.fields : visit.fields[k][1] = visit.fields[l][1] => k = l
  BY DEF StructVisit
<1>4. \A i : metadata[i].name = name => Wanted(i) /\ FieldOf(i) = <<name, Field(i)>>
  BY DEF Wanted, FieldOf
<1>5. CASE Valued(name) = {}
  <2>1. ASSUME NEW k \in DOMAIN visit.fields, visit.fields[k][1] = name PROVE FALSE
    <3>1. PICK i \in 1..Len(values) : visit.fields[k] = FieldOf(i)
      BY <1>3
    <3>2. metadata[i].name = name
      BY <2>1, <3>1 DEF FieldOf
    <3>3. QED BY <1>2, <1>5, <3>2
  <2>2. QED BY <1>5, <2>1 DEF Visited
<1>6. CASE Valued(name) # {}
  <2>1. PICK i \in 1..Len(values) : metadata[i].name = name
    BY <1>2, <1>6
  <2>2. Valued(name) = {i}
    BY <1>2, <1>3, <1>4, <2>1
  <2>3. PICK k \in DOMAIN visit.fields : visit.fields[k] = <<name, Field(i)>>
    <3>1. Wanted(i) /\ FieldOf(i) = <<name, Field(i)>>
      BY <1>4, <2>1
    <3>2. \E k \in DOMAIN visit.fields : visit.fields[k] = FieldOf(i)
      BY <1>3, <2>1, <3>1
    <3>3. QED BY <3>1, <3>2
  <2>4. Visited(name) = {k}
    BY <1>3, <2>3 DEF Visited
  <2>5. Field(i)[1] # "error"
    <3>1. PICK j \in 1..Len(values) : visit.fields[k] = FieldOf(j) /\ Field(j)[1] # "error"
      BY <1>3
    <3>2. metadata[j].name = name
      BY <2>3, <3>1 DEF FieldOf
    <3>3. QED BY <1>3, <1>4, <2>1, <3>1, <3>2
  <2>6. IsFirst(i, Called(name))
    <3>1. i \in Called(name)
      BY <1>1, <2>1 DEF Called
    <3>2. ASSUME NEW j \in Called(name) PROVE i <= j
      <4>1. j \in 1..Len(metadata) /\ metadata[j].name = name
        BY <1>1 DEF Called
      <4>2. CASE j \in 1..Len(values)
        BY <1>1, <1>2, <2>1, <2>2, <4>1, <4>2
      <4>3. CASE j \notin 1..Len(values)
        BY <1>1, <2>1, <4>1, <4>3
      <4>4. QED BY <4>2, <4>3
    <3>3. QED BY <3>1, <3>2 DEF IsFirst
  <2>7. NameMap(name) = {i}
    BY <2>6, NamesFound
  <2>8. QED BY <1>1, <2>1, <2>2, <2>3, <2>4, <2>5, <2>7
<1>7. QED BY <1>5, <1>6

LEMMA FieldsFound == ASSUME VInv, NumbersInv PROVE FieldsMatchColumns
<1> DEFINE StructFound ==
             \A name \in visit.wanted :
               /\ Cardinality(Valued(name)) = Cardinality(Visited(name))
               /\ Visited(name) # {} => \E k \in Visited(name) :
                    /\ Cardinality(Visited(name)) = 1
                    /\ Holds(visit.fields[k][2], CHOOSE i \in NameMap(name) : TRUE)
           TupleFound ==
             /\ Len(visit.fields) = visit.size
             /\ \A k \in DOMAIN visit.fields : Holds(visit.fields[k][2], k)
           Failed == \/ Len(metadata) < Len(values)
                     \/ \E i \in DOMAIN values : Field(i)[1] = "error"
<1> SUFFICES ASSUME phase = "visited"
             PROVE  CASE visit.shape = "struct" /\ visit.outcome = <<"ok">> -> StructFound
                      [] visit.shape = "tuple" /\ visit.outcome = <<"ok">> -> TupleFound
                      [] visit.outcome = <<"error", "duplicate">> ->
                           \E name \in visit.wanted : Cardinality(Valued(name)) > 1
                      [] visit.outcome = <<"error", "length">> -> Len(values) < visit.size
                      [] OTHER -> Failed
  BY DEF FieldsMatchColumns, Holds, Valued, Field
<1> HIDE DEF StructFound, TupleFound, Failed
<1>1. /\ Error # <<"ok">> /\ Error # <<"error", "duplicate">> /\ Error # <<"error", "length">>
      /\ OutOfBounds # <<"ok">> /\ OutOfBounds # <<"error", "duplicate">>
      /\ OutOfBounds # <<"error", "length">>
  BY DEF Error, OutOfBounds
<1>2. CASE StructVisit /\ StructEnd
  <2>1. visit.shape = "struct"
    BY <1>2 DEF StructVisit
  <2>2. CASE visit.outcome = <<"ok">>
    <3>1. visit.idx = Len(values)
      BY <1>1, <1>2, <2>2 DEF StructEnd
    <3>2. ASSUME NEW name \in visit.wanted
          PROVE  /\ Cardinality(Valued(name)) = Cardinality(Visited(name))
                 /\ Visited(name) # {} => \E k \in Visited(name) :
                      /\ Cardinality(Visited(name)) = 1
                      /\ Holds(visit.fields[k][2], CHOOSE i \in NameMap(name) : TRUE)
      <4>1. CASE Valued(name) = {} /\ Visited(name) = {}
        BY <4>1
      <4>2. ASSUME NEW i \in DOMAIN values, NEW k \in DOMAIN visit.fields,
                   Valued(name) = {i}, Visited(name) = {k}, NameMap(name) = {i},
                   visit.fields[k] = <<name, Field(i)>>, Field(i)[1] # "error"
            PROVE  /\ Cardinality(Valued(name)) = Cardinality(Visited(name))
                   /\ Visited(name) # {} => \E l \in Visited(name) :
                        /\ Cardinality(Visited(name)) = 1
                        /\ Holds(visit.fields[l][2], CHOOSE j \in NameMap(name) : TRUE)
        <5>1. Cardinality(Valued(name)) = 1 /\ Cardinality(Visited(name)) = 1
          BY <4>2, FS_Singleton
        <5>2. (CHOOSE j \in NameMap(name) : TRUE) = i
          BY <4>2
        <5>3. Holds(visit.fields[k][2], i)
          BY <4>2, FieldHolds
        <5>4. QED BY <4>2, <5>1, <5>2, <5>3
      <4>3. QED BY <1>2, <3>1, <4>1, <4>2, FieldOfName
    <3>3. StructFound
      BY <3>2 DEF StructFound
    <3>4. QED BY <2>1, <2>2, <3>3
  <2>3. CASE visit.outcome = <<"error", "duplicate">>
    <3> DEFINE i == visit.idx + 1
               name == metadata[i].name
    <3>1. /\ visit.idx \in Nat /\ visit.idx < Len(values) /\ visit.idx < Len(metadata) /\ Wanted(i)
          /\ Visited(name) # {}
      BY <1>1, <1>2, <2>3 DEF StructEnd, StructVisit
    <3>2. /\ Len(values) \in Nat /\ Len(metadata) \in Nat
          /\ DOMAIN values = 1..Len(values) /\ DOMAIN metadata = 1..Len(metadata)
      BY TupleIs DEF VInv, PathInv, RowTyped
    <3>3. PICK k \in DOMAIN visit.fields : visit.fields[k][1] = name
      BY <3>1 DEF Visited
    <3>4. PICK j \in 1..visit.idx : visit.fields[k] = FieldOf(j)
      BY <1>2 DEF StructVisit
    <3>5. metadata[j].name = name /\ name \in visit.wanted
      BY <3>1, <3>3, <3>4 DEF FieldOf, Wanted
    <3>6. i \in 1..Len(values) /\ i \in 1..Len(metadata) /\ j \in 1..Len(values) /\ j \in 1..Len(metadata)
          /\ i # j
      BY <3>1, <3>2
    <3> HIDE DEF i
    <3>7. i \in Valued(name) /\ j \in Valued(name)
      BY <3>2, <3>5, <3>6 DEF Valued, Called
    <3>8. IsFiniteSet(Valued(name)) /\ Cardinality(Valued(name)) \in Nat
      <4>1. Valued(name) \subseteq 1..Len(values)
        BY <3>2 DEF Valued
      <4>2. IsFiniteSet(1..Len(values))
        BY <3>2, FS_Interval
      <4>3. QED BY <4>1, <4>2, FS_Subset, FS_CardinalityType
    <3>9. Cardinality(Valued(name)) # 0 /\ Cardinality(Valued(name)) # 1
      <4>1. Valued(name) # {} /\ ~\E x : Valued(name) = {x}
        BY <3>6, <3>7
      <4>2. QED BY <3>8, <4>1, FS_EmptySet, FS_Singleton
    <3>10. Cardinality(Valued(name)) > 1
      BY <3>8, <3>9
    <3>11. QED BY <2>1, <2>3, <3>5, <3>10
  <2>4. CASE visit.outcome = OutOfBounds \/ visit.outcome = Error
    <3>1. Failed
      BY <1>1, <1>2, <2>4 DEF StructEnd, Failed, OutOfBounds, Error
    <3>2. QED BY <1>1, <2>4, <3>1
  <2>5. QED BY <1>2, <2>2, <2>3, <2>4 DEF StructEnd
<1>3. CASE TupleVisit /\ TupleEnd
  <2>1. visit.shape = "tuple"
    BY <1>3 DEF TupleVisit
  <2>2. CASE visit.outcome = <<"ok">>
    <3>1. visit.idx = visit.size
      BY <1>1, <1>3, <2>2 DEF TupleEnd
    <3>2. /\ Len(visit.fields) = visit.size /\ visit.idx \in 0..Len(values)
          /\ \A k \in 1..visit.size : visit.fields[k] = <<k, Field(k)>> /\ Field(k)[1] # "error"
      BY <1>3, <3>1 DEF TupleVisit
    <3>3. DOMAIN visit.fields = 1..visit.size
      BY <3>2, TupleIs DEF VInv, VisitInv
    <3>4. DOMAIN values = 1..Len(values) /\ Len(values) \in Nat
      BY TupleIs DEF VInv, PathInv, RowTyped
    <3>5. ASSUME NEW k \in DOMAIN visit.fields PROVE Holds(visit.fields[k][2], k)
      <4>1. k \in DOMAIN values
        BY <3>1, <3>2, <3>3, <3>4
      <4>2. visit.fields[k][2] = Field(k) /\ Field(k)[1] # "error"
        BY <3>2, <3>3
      <4>3. QED BY <4>1, <4>2, FieldHolds
    <3>6. TupleFound
      BY <3>2, <3>5 DEF TupleFound
    <3>7. QED BY <2>1, <2>2, <3>6
  <2>3. CASE visit.outcome = <<"error", "length">>
    <3>1. Len(values) < visit.size
      BY <1>1, <1>3, <2>3 DEF TupleEnd
    <3>2. QED BY <2>1, <2>3, <3>1
  <2>4. CASE visit.outcome = Error
    <3>1. Failed
      BY <1>1, <1>3, <2>4 DEF TupleEnd, Failed, Error
    <3>2. QED BY <1>1, <2>4, <3>1
  <2>5. QED BY <1>3, <2>2, <2>3, <2>4 DEF TupleEnd
<1>4. QED BY <1>2, <1>3 DEF VInv, VisitInv

-----------------------------------------------------------------------------
(* Declarations *)

KindOf(type) ==
  IF type = "Decimal" THEN "Numeric" ELSE IF type = "VectorValue" THEN "Vector" ELSE SqlOf[type]
SentAs(kind, u) == IF ~u /\ kind \in DOMAIN NonUnicode THEN NonUnicode[kind] ELSE kind

\* A type but Json has one variant, for a None and for every value.
LEMMA NativeKind ==
  ASSUME NEW type \in BoundTypes \ {"Json"}, NEW value \in RustValues(type)
  PROVE  ToSql(value) = <<KindOf(type)>> \/ \E p : ToSql(value) = <<KindOf(type), p>>
<1>1. CASE value = <<type>>
  <2>1. Kind(value) = type /\ IsNone(value) = TRUE
    BY <1>1, Tuples
  <2>2. type # "VectorValue"
    BY <1>1, RustIs DEF RustValues
  <2>3. ToSql(value) = <<KindOf(type)>>
    BY <2>1, <2>2 DEF ToSql, TypedNull, KindOf
  <2>4. QED BY <2>3
<1>2. ASSUME NEW p, value = <<type, p>>
      PROVE  ToSql(value) = <<KindOf(type)>> \/ \E q : ToSql(value) = <<KindOf(type), q>>
  <2>1. Kind(value) = type /\ IsNone(value) = FALSE /\ Payload(value) = p
    BY <1>2, Tuples
  <2>2. CASE type = "Decimal"
    <3>1. ToSql(value) = DecimalToSql(p) /\ KindOf(type) = "Numeric"
      BY <2>1, <2>2 DEF ToSql, KindOf
    <3>2. QED BY <3>1, DecimalIs
  <2>3. CASE type = "VectorValue"
    <3>1. ToSql(value) = VectorToSql(p) /\ KindOf(type) = "Vector"
      BY <2>1, <2>3 DEF ToSql, KindOf
    <3>2. QED BY <3>1 DEF VectorToSql
  <2>4. CASE type \notin {"Decimal", "VectorValue"}
    <3>1. ToSql(value) = <<SqlOf[type], p>> /\ KindOf(type) = SqlOf[type]
      BY <2>1, <2>4 DEF ToSql, KindOf
    <3>2. QED BY <3>1
  <2>5. QED BY <2>2, <2>3, <2>4
<1>3. QED BY <1>1, <1>2, RustIs

\* What is sent of a type has one variant, and one declaration but for decimals.
LEMMA NativeSent ==
  ASSUME NEW type \in BoundTypes \ {"Json"}, NEW value \in RustValues(type), NEW u \in BOOLEAN
  PROVE  LET sent == EncodeStringParameters(ToSql(value), u)
         IN /\ Kind(sent) = SentAs(KindOf(type), u)
            /\ Kind(sent) # "Numeric" =>
                 \A x : Kind(x) = Kind(sent) => Suffix(x) = Suffix(sent)
<1> DEFINE sent == EncodeStringParameters(ToSql(value), u)
<1>1. Kind(sent) = SentAs(KindOf(type), u)
  <2>1. CASE ToSql(value) = <<KindOf(type)>>
    BY <2>1, EchoNull DEF SentAs, Kind
  <2>2. ASSUME NEW p, ToSql(value) = <<KindOf(type), p>> PROVE Kind(sent) = SentAs(KindOf(type), u)
    <3> DEFINE k == KindOf(type)
    <3> HIDE DEF k
    <3>1. EncodeStringParameters(<<k, p>>, u)[1] = SentAs(k, u)
      BY EchoIs DEF SentAs
    <3>2. QED BY <2>2, <3>1 DEF k, Kind
  <2>3. QED BY <2>1, <2>2, NativeKind
<1> HIDE DEF sent
<1>2. Kind(sent) # "Decimal"
  <2>1. KindOf(type) # "Decimal"
    BY DEF KindOf, BoundTypes, SqlOf
  <2>2. QED BY <1>1, <2>1 DEF SentAs, NonUnicode
<1>3. ASSUME Kind(sent) # "Numeric", NEW x, Kind(x) = Kind(sent) PROVE Suffix(x) = Suffix(sent)
  BY <1>2, <1>3 DEF Suffix
<1>4. QED BY <1>1, <1>3 DEF sent

\* A parameter is bound by a call or is a cell that is bound again.
LEMMA AlwaysBound == Spec => []BoundSomehow
<1>1. Init => BoundSomehow
  BY DEF Init, BoundSomehow
<1>2. ASSUME BoundSomehow, [Next]_vars PROVE BoundSomehow'
  <2>1. CASE Bind
    <3>1. PICK api \in Apis : \E type \in Binds(api) : \E value \in RustValues(type) :
            bound' = <<api, value>>
      BY <2>1 DEF Bind
    <3>2. QED BY <3>1 DEF BoundSomehow
  <2>2. CASE Rebind
    <3>1. source' # <<>>
      BY <2>2 DEF Rebind
    <3>2. QED BY <3>1 DEF BoundSomehow
  <2>3. CASE Configure
    BY <2>3 DEF Configure, BoundSomehow
  <2>4. CASE WriteColumn \/ TakeRow \/ FromSchema \/ Login \/ Send \/ Select \/ StartVisit
    BY <2>4 DEF WriteColumn, TakeRow, FromSchema, Login, Send, Select, StartVisit, BoundSomehow
  <2>5. CASE NextKey
    <3>1. phase' \in {"visiting", "visited"}
      BY <2>5 DEF NextKey, Visiting, End
    <3>2. QED BY <3>1 DEF BoundSomehow
  <2>6. CASE NextValue
    <3>1. phase' \in {"visiting", "visited"}
      BY <2>6 DEF NextValue, Visiting, End
    <3>2. QED BY <3>1 DEF BoundSomehow
  <2>7. CASE NextElement
    <3>1. phase' \in {"visiting", "visited"}
      BY <2>7 DEF NextElement, Visiting, End
    <3>2. QED BY <3>1 DEF BoundSomehow
  <2>8. CASE UNCHANGED vars
    BY <1>2, <2>8 DEF vars, BoundSomehow
  <2>9. QED BY <1>2, <2>1, <2>2, <2>3, <2>4, <2>5, <2>6, <2>7, <2>8 DEF Next
<1>3. QED BY <1>1, <1>2, PTL DEF Spec

LEMMA DeclaredFits == ASSUME VInv, BoundSomehow PROVE DeclarationFits
<1> SUFFICES ASSUME phase = "bound" PROVE
    /\ bound # <<>> /\ bound[1] = "native" /\ Kind(BoundValue) # "Json" =>
         \A sample \in RustValues(Kind(BoundValue)) :
           LET declared == ParameterDeclaration(ToSql(sample), unicode)
               sent == EncodeStringParameters(params[1], unicode)
           IN /\ declared.name = Kind(sent)
              /\ Kind(sent) # "Numeric" => declared.suffix = Suffix(sent)
    /\ source # <<>> \/ bound[1] # "native" => \A i \in DOMAIN params : HasRoom(params[i])
  BY DEF DeclarationFits
<1>1. unicode \in BOOLEAN
  BY DEF VInv, PathInv
<1>2. ASSUME bound # <<>>, bound[1] = "native", Kind(BoundValue) # "Json",
             NEW sample \in RustValues(Kind(BoundValue))
      PROVE  LET declared == ParameterDeclaration(ToSql(sample), unicode)
                 sent == EncodeStringParameters(params[1], unicode)
             IN /\ declared.name = Kind(sent)
                /\ Kind(sent) # "Numeric" => declared.suffix = Suffix(sent)
  <2>1. PICK api \in Apis : \E type \in Binds(api) : \E value \in RustValues(type) :
          bound = <<api, value>> /\ params = <<Bound(api, value)>>
    BY <1>2 DEF VInv, BoundInv
  <2>2. PICK type \in Binds(api) : \E value \in RustValues(type) :
          bound = <<api, value>> /\ params = <<Bound(api, value)>>
    BY <2>1
  <2>3. PICK value \in RustValues(type) : bound = <<api, value>> /\ params = <<Bound(api, value)>>
    BY <2>2
  <2>4. api = "native" /\ BoundValue = value
    BY <1>2, <2>3 DEF BoundValue
  <2>5. Kind(value) = type
    BY <2>3, RustIs DEF Kind
  <2>6. type \in BoundTypes \ {"Json"} /\ sample \in RustValues(type)
    BY <1>2, <2>4, <2>5 DEF Binds
  <2>7. params[1] = ToSql(value)
    <3>1. Bound(api, value) = ToSql(value)
      BY <2>4 DEF Bound
    <3>2. QED BY <2>3, <3>1
  <2> DEFINE example == EncodeStringParameters(ToSql(sample), unicode)
             sent == EncodeStringParameters(params[1], unicode)
  <2>8. ParameterDeclaration(ToSql(sample), unicode) = SqlDeclaration(example)
    BY DEF ParameterDeclaration, EncodeStringParameters
  <2>9. Kind(example) = Kind(sent) /\ (Kind(sent) # "Numeric" => Suffix(example) = Suffix(sent))
    <3>1. Kind(example) = SentAs(KindOf(type), unicode)
      BY <1>1, <2>6, NativeSent
    <3>2. /\ Kind(sent) = SentAs(KindOf(type), unicode)
          /\ Kind(sent) # "Numeric" => \A x : Kind(x) = Kind(sent) => Suffix(x) = Suffix(sent)
      BY <1>1, <2>6, <2>7, NativeSent
    <3> HIDE DEF example, sent
    <3>3. QED BY <3>1, <3>2
  <2> HIDE DEF example, sent
  <2>10. SqlDeclaration(example).name = Kind(example) /\ SqlDeclaration(example).suffix = Suffix(example)
    BY DEF SqlDeclaration
  <2>11. QED BY <2>8, <2>9, <2>10 DEF sent
<1>3. ASSUME source # <<>>, NEW i \in DOMAIN params PROVE HasRoom(params[i])
  <2> DEFINE row == source[1]
             type == IF i \in DOMAIN row.metadata THEN row.metadata[i].type ELSE "Null"
  <2>1. /\ RowTyped(row.metadata, row.values, row.decoded) /\ i \in DOMAIN row.values
        /\ params[i] = DataToSql(ColumnDataRef(row.values[i], row.decoded[i], type))
    BY <1>3 DEF VInv, SourceInv, Rebound
  <2>2. /\ type \in ColumnTypes /\ CellLike(row.values[i])
        /\ row.decoded[i] = DecodedOf(row.values[i])
    BY <2>1 DEF RowTyped, ColumnTypes
  <2> HIDE DEF type, row
  <2>3. QED BY <2>1, <2>2, CellData, DataParam
<1>4. ASSUME source = <<>>, bound[1] # "native", NEW i \in DOMAIN params PROVE HasRoom(params[i])
  <2>1. bound # <<>>
    BY <1>4 DEF BoundSomehow
  <2>2. PICK api \in Apis : \E type \in Binds(api) : \E value \in RustValues(type) :
          bound = <<api, value>> /\ params = <<Bound(api, value)>>
    BY <2>1 DEF VInv, BoundInv
  <2>3. PICK type \in Binds(api) : \E value \in RustValues(type) :
          bound = <<api, value>> /\ params = <<Bound(api, value)>>
    BY <2>2
  <2>4. PICK value \in RustValues(type) : bound = <<api, value>> /\ params = <<Bound(api, value)>>
    BY <2>3
  <2>5. HasRoom(Bound(api, value))
    <3>1. api # "native"
      BY <1>4, <2>4
    <3>2. QED BY <3>1, BoundLike
  <2>6. i = 1 /\ params[1] = Bound(api, value)
    BY <1>4, <2>4, OneTuple
  <2>7. QED BY <2>5, <2>6
<1>5. QED BY <1>2, <1>3, <1>4

\* A statement that was prepared for a sample of a type (prepared.rs) is declared
\* for what any later value of the type is sent as, and text that is bound as
\* ColumnData has room, whether it comes from a caller or from a row.
THEOREM DeclarationsAlwaysFit == Spec => []DeclarationFits
<1>1. VInv /\ BoundSomehow => DeclarationFits
  BY DeclaredFits
<1>2. QED BY <1>1, PathInvariance, AlwaysBound, PTL

-----------------------------------------------------------------------------
(* Cells that are bound again *)

CopyKind(k) == IF k = "Decimal" THEN "Numeric" ELSE k

\* A cell with a payload comes back as it was, a decimal under its other name.
LEMMA CopyOfValue ==
  ASSUME NEW k \in CellKinds, NEW p, NEW ty, NEW ds, ds = IF k \in TextKinds THEN <<p>> ELSE <<>>,
         NEW u \in BOOLEAN
  PROVE  EchoCell(EncodeStringParameters(DataToSql(ColumnDataRef(<<k, p>>, ds, ty)), u)) = <<CopyKind(k), p>>
<1>1. PICK kind \in BindsAs(k) : DataToSql(ColumnDataRef(<<k, p>>, ds, ty)) = <<kind, p>>
  BY CellBoundAs
<1> DEFINE sent == EncodeStringParameters(<<kind, p>>, u)
           sk == SentAs(kind, u)
<1>2. sent = <<sk, p>> /\ EchoCell(sent) = IF sk \in DOMAIN EchoKind THEN <<EchoKind[sk], p>> ELSE sent
  <2>1. /\ sent = <<sent[1], p>> /\ sent[1] = sk
        /\ EchoCell(sent) = IF sent[1] \in DOMAIN EchoKind THEN <<EchoKind[sent[1]], p>> ELSE sent
    BY EchoIs DEF SentAs
  <2> HIDE DEF sent, sk
  <2>2. QED BY <2>1
<1>3. CASE k = "String"
  <2>1. kind \in {"NVarchar", "NVarcharMax"}
    BY <1>3 DEF BindsAs
  <2>2. sk \in {"NVarchar", "NVarcharMax", "Varchar", "VarcharMax"}
    BY <2>1 DEF SentAs, NonUnicode
  <2> HIDE DEF sent, sk
  <2>3. sk \in DOMAIN EchoKind /\ EchoKind[sk] = "String"
    BY <2>2 DEF EchoKind
  <2>4. QED BY <1>1, <1>2, <1>3, <2>3 DEF CopyKind, sent
<1>4. CASE k = "Bytes"
  <2>1. sk = "VarBinaryMax"
    BY <1>4 DEF BindsAs, SentAs, NonUnicode
  <2> HIDE DEF sent, sk
  <2>2. sk \in DOMAIN EchoKind /\ EchoKind[sk] = "Bytes"
    BY <2>1 DEF EchoKind
  <2>3. QED BY <1>1, <1>2, <1>4, <2>2 DEF CopyKind, sent
<1>5. CASE k \notin {"String", "Bytes"}
  <2>1. kind = CopyKind(k)
    BY <1>5 DEF BindsAs, CopyKind
  <2>2. CopyKind(k) \notin DOMAIN NonUnicode /\ CopyKind(k) \notin DOMAIN EchoKind
    BY <1>5 DEF CopyKind, CellKinds, NonUnicode, EchoKind
  <2>3. sk = CopyKind(k)
    BY <2>1, <2>2 DEF SentAs
  <2> HIDE DEF sent, sk
  <2>4. QED BY <1>1, <1>2, <2>2, <2>3 DEF sent
<1>6. QED BY <1>3, <1>4, <1>5

\* The parameter of a typed NULL, and the type of the column that echoes it.
NullAs(k) ==
  IF k = "String" THEN "NVarchar" ELSE IF k \in DOMAIN IntoNative THEN IntoNative[k] ELSE k
NullTds(k, u) == EchoTds[SentAs(NullAs(k), u)]

LEMMA NullKept ==
  ASSUME NEW k \in DataKinds, NEW u \in BOOLEAN
  PROVE  NullColumnData(SizedType(NullTds(k, u)[1], NullTds(k, u)[2]))
           = IF k = "SmallDateTime" THEN <<"DateTime">> ELSE <<k>>
<1> DEFINE tds == NullTds(k, u)[1]
           length == NullTds(k, u)[2]
<1>1. CASE k \in {"U8", "I16", "I32", "I64"}
  <2>1. tds = "IntN" /\ length = IF k = "U8" THEN 1 ELSE IF k = "I16" THEN 2 ELSE IF k = "I32" THEN 4 ELSE 8
    BY <1>1 DEF NullTds, SentAs, NullAs, IntoNative, NonUnicode, EchoTds
  <2> HIDE DEF tds, length
  <2>2. SizedType(tds, length) = IF k = "U8" THEN "Int1" ELSE IF k = "I16" THEN "Int2"
                                 ELSE IF k = "I32" THEN "Int4" ELSE "Int8"
    BY <1>1, <2>1 DEF SizedType, PlainType, TypeOf
  <2> HIDE DEF tds, length
  <2>3. QED BY <1>1, <2>2 DEF NullColumnData, tds, length
<1>2. CASE k \in {"F32", "F64", "Money", "SmallMoney"}
  <2>1. /\ tds = IF k \in {"F32", "F64"} THEN "FltN" ELSE "MoneyN"
        /\ length = IF k \in {"F32", "SmallMoney"} THEN 4 ELSE 8
    BY <1>2 DEF NullTds, SentAs, NullAs, IntoNative, NonUnicode, EchoTds
  <2> HIDE DEF tds, length
  <2>2. SizedType(tds, length) = IF k = "F32" THEN "Float4" ELSE IF k = "F64" THEN "Float8"
                                 ELSE IF k = "Money" THEN "Money" ELSE "Money4"
    BY <1>2, <2>1 DEF SizedType, PlainType, TypeOf
  <2>3. QED BY <1>2, <2>2 DEF NullColumnData, tds, length
<1>3. CASE k \in {"Bit", "Numeric", "String", "Binary", "Json", "Xml", "Guid"}
  <2>1. tds = IF k = "Bit" THEN "BitN" ELSE IF k = "Numeric" THEN "NumericN"
              ELSE IF k = "String" THEN (IF u THEN "NVarChar" ELSE "BigVarChar")
              ELSE IF k = "Binary" THEN "BigVarBinary" ELSE k
    BY <1>3 DEF NullTds, SentAs, NullAs, IntoNative, NonUnicode, EchoTds
  <2> HIDE DEF tds, length
  <2>2. SizedType(tds, length) = PlainType(tds)
    BY <1>3, <2>1 DEF SizedType
  <2>3. PlainType(tds) = IF k = "Bit" THEN "Bit" ELSE IF k = "Numeric" THEN "Numericn"
              ELSE IF k = "String" THEN (IF u THEN "NVarchar" ELSE "Varchar")
              ELSE IF k = "Binary" THEN "VarBinary" ELSE k
    BY <1>3, <2>1 DEF PlainType, TypeOf
  <2>4. QED BY <1>3, <2>2, <2>3 DEF NullColumnData, tds, length
<1>4. CASE k \in {"Time", "DateTime2", "DateTimeOffset", "SmallDateTime", "DateTime", "Date"}
  <2>1. tds = IF k = "Time" THEN "TimeN" ELSE IF k = "DateTime2" THEN "DateTime2N"
              ELSE IF k = "DateTimeOffset" THEN "DateTimeOffsetN"
              ELSE IF k = "Date" THEN "DateN" ELSE "DateTimeN"
    BY <1>4 DEF NullTds, SentAs, NullAs, IntoNative, NonUnicode, EchoTds
  <2> HIDE DEF tds, length
  <2>2. SizedType(tds, length) = PlainType(tds)
    BY <1>4, <2>1 DEF SizedType
  <2>3. PlainType(tds) = IF k = "Time" THEN "Time" ELSE IF k = "DateTime2" THEN "Datetime2"
              ELSE IF k = "DateTimeOffset" THEN "DatetimeOffset"
              ELSE IF k = "Date" THEN "Date" ELSE "Datetime"
    BY <1>4, <2>1 DEF PlainType, TypeOf
  <2>4. QED BY <1>4, <2>2, <2>3 DEF NullColumnData, tds, length
<1>5. QED BY <1>1, <1>2, <1>3, <1>4 DEF DataKinds

\* ColumnData without a value is a typed NULL.
LEMMA NullToSql ==
  ASSUME NEW k \in DataKinds
  PROVE  DataToSql(<<k>>) = <<NullAs(k)>>
<1>1. k # "Native"
  BY DEF DataKinds
<1>2. Kind(<<k>>) = k /\ IsNone(<<k>>) = TRUE
  BY Tuples
<1>3. Retag([String |-> "NVarchar"], <<k>>) = <<[String |-> "NVarchar"][k]>>
      /\ Retag(IntoNative, <<k>>) = <<IntoNative[k]>>
  BY Retagged
<1>4. CASE k = "String"
  BY <1>2, <1>3, <1>4 DEF DataToSql, NullAs, IntoNative
<1>5. CASE k # "String" /\ k \in DOMAIN IntoNative
  BY <1>1, <1>2, <1>3, <1>5 DEF DataToSql, NullAs
<1>6. CASE k # "String" /\ k \notin DOMAIN IntoNative
  BY <1>1, <1>2, <1>6 DEF DataToSql, NullAs
<1>7. QED BY <1>4, <1>5, <1>6

\* The column that echoes a typed NULL gives it its type again.
LEMMA NullEchoed ==
  ASSUME NEW k \in DataKinds, NEW u \in BOOLEAN
  PROVE  LET sent == EncodeStringParameters(<<NullAs(k)>>, u)
         IN /\ EchoCell(sent) = Null
            /\ NullColumnData(ColumnTypeOf(EchoColumn(sent)))
                 = IF k = "SmallDateTime" THEN <<"DateTime">> ELSE <<k>>
<1> DEFINE sent == EncodeStringParameters(<<NullAs(k)>>, u)
<1>1. Kind(sent) = SentAs(NullAs(k), u) /\ EchoCell(sent) = Null
  BY EchoNull DEF SentAs, Kind
<1> HIDE DEF sent
<1>2. ColumnTypeOf(EchoColumn(sent)) = SizedType(NullTds(k, u)[1], NullTds(k, u)[2])
  <2>1. EchoColumn(sent).tds = NullTds(k, u)[1] /\ EchoColumn(sent).length = NullTds(k, u)[2]
    BY <1>1 DEF EchoColumn, NullTds
  <2>2. EchoColumn(sent).udt = <<>>
    BY DEF EchoColumn
  <2>3. QED BY <2>1, <2>2 DEF ColumnTypeOf
<1>3. QED BY <1>1, <1>2, NullKept DEF sent

LEMMA CopyOfNull ==
  ASSUME NEW ty \in ColumnTypes, NEW u \in BOOLEAN
  PROVE  LET sent == EncodeStringParameters(DataToSql(NullColumnData(ty)), u)
             copy == NullColumnData(ColumnTypeOf(EchoColumn(sent)))
         IN /\ EchoCell(sent) = Null
            /\ copy = NullColumnData(ty) \/ (NullColumnData(ty) = <<"SmallDateTime">> /\ copy = <<"DateTime">>)
<1>1. PICK k \in DataKinds : NullColumnData(ty) = <<k>>
  BY NullData
<1>2. DataToSql(<<k>>) = <<NullAs(k)>>
  BY NullToSql
<1>3. QED BY <1>1, <1>2, NullEchoed

\* Every reader makes the same of a NULL of either type.
LEMMA NullReadOf ==
  ASSUME NEW type \in CompatTypes
  PROVE  FromColumnData(type, <<"DateTime">>) = FromColumnData(type, <<"SmallDateTime">>)
<1> DEFINE a == <<"DateTime">>
           b == <<"SmallDateTime">>
<1>1. Kind(a) = "DateTime" /\ Kind(b) = "SmallDateTime" /\ IsNone(a) = TRUE /\ IsNone(b) = TRUE
  BY Tuples
<1> HIDE DEF a, b
<1>2. CASE type = "Utc"
  <2>1. FromColumnDataUtc(a) = Error /\ FromColumnDataUtc(b) = Error
    BY <1>1 DEF FromColumnDataUtc
  <2>2. QED BY <1>2, <2>1 DEF FromColumnData, Lent, a, b
<1>3. CASE type \in Lent
  <2>1. FromBorrowed(type, a) = Error /\ FromBorrowed(type, b) = Error
    BY <1>1 DEF FromBorrowed
  <2>2. QED BY <1>3, <2>1 DEF FromColumnData, Lent, a, b
<1>4. CASE type # "Utc" /\ type \notin Lent
  <2>1. Matches(type, a) <=> Matches(type, b)
    <3>1. type \in DOMAIN Exact
      BY <1>4 DEF CompatTypes, Lent
    <3>2. "DateTime" \in Exact[type] <=> "SmallDateTime" \in Exact[type]
      BY <3>1 DEF Exact
    <3>3. type \in DOMAIN NullOnly => "DateTime" \notin NullOnly[type] /\ "SmallDateTime" \notin NullOnly[type]
      BY DEF NullOnly
    <3>4. QED BY <1>1, <3>2, <3>3 DEF Matches
  <2>2. DecodeOwned(type, a) = None /\ DecodeOwned(type, b) = None
    <3>1. IntoColumnValue(a) = Null /\ IntoColumnValue(b) = Null
      BY <1>1 DEF IntoColumnValue
    <3>2. QED BY <3>1 DEF DecodeOwned, Null, Error
  <2>3. FromColumnData(type, a) = FromColumnData(type, b)
    BY <1>4, <2>1, <2>2 DEF FromColumnData
  <2>4. QED BY <2>3 DEF a, b
<1>5. QED BY <1>2, <1>3, <1>4

\* A decimal reads the same under either of its names.
LEMMA DecimalReads ==
  ASSUME NEW p, NEW ty, NEW ty2
  PROVE  /\ \A type \in NativeTypes : FromSql(type, <<"Numeric", p>>, <<>>) = FromSql(type, <<"Decimal", p>>, <<>>)
         /\ ColumnDataRef(<<"Numeric", p>>, <<>>, ty) = ColumnDataRef(<<"Decimal", p>>, <<>>, ty2)
<1> DEFINE a == <<"Numeric", p>>
           b == <<"Decimal", p>>
<1>1. Kind(a) = "Numeric" /\ Kind(b) = "Decimal" /\ Payload(a) = p /\ Payload(b) = p
  BY Tuples
<1>2. /\ ColumnDataRef(a, <<>>, ty) = <<"Numeric", p>> /\ ColumnDataRef(b, <<>>, ty2) = <<"Numeric", p>>
  <2>1. "Numeric" \in CellKinds /\ "Decimal" \in CellKinds /\ "Numeric" \notin TextKinds /\ "Decimal" \notin TextKinds
    BY DEF CellKinds, TextKinds
  <2>2. "Numeric" \notin DOMAIN DataOf /\ "Decimal" \in DOMAIN DataOf /\ DataOf["Decimal"] = "Numeric"
    BY DEF DataOf
  <2>3. ColumnDataRef(a, <<>>, ty) = <<"Numeric", p>>
    BY <2>1, <2>2, DataIs
  <2>4. ColumnDataRef(b, <<>>, ty2) = <<"Numeric", p>>
    <3>1. b # Null /\ Kind(b) \in DOMAIN DataOf /\ Kind(b) # "Vector"
      BY <1>1, <2>2 DEF Null
    <3>2. ColumnDataRef(b, <<>>, ty2) = Retag(DataOf, b)
      BY <3>1 DEF ColumnDataRef
    <3>3. QED BY <2>2, <3>2, Retagged
  <2>5. QED BY <2>3, <2>4
<1> HIDE DEF a, b
<1>3. ASSUME NEW type \in NativeTypes PROVE FromSql(type, a, <<>>) = FromSql(type, b, <<>>)
  <2>1. CASE type = "str"
    BY <2>1 DEF FromSql
  <2>2. CASE type = "Decimal"
    <3>1. ReadDecimal(a) = ReadDecimal(b)
      BY <1>1 DEF ReadDecimal, DecimalsOf
    <3>2. "Numeric" \in Accepts["Decimal"] /\ "Decimal" \in Accepts["Decimal"]
      BY DEF Accepts
    <3>3. QED BY <1>1, <2>2, <3>1, <3>2 DEF FromSql
  <2>3. CASE type \notin {"str", "Decimal"}
    <3>1. "Numeric" \notin Accepts[type] /\ "Decimal" \notin Accepts[type]
      BY <2>3 DEF NativeTypes, Accepts, TextKinds
    <3>2. QED BY <1>1, <2>3, <3>1 DEF FromSql
  <2>4. QED BY <2>1, <2>2, <2>3
<1>4. QED BY <1>2, <1>3 DEF a, b

\* A cell that was bound again reads as it did, and is the same but for a decimal.
LEMMA CopyReads ==
  ASSUME NEW c, CellLike(c), NEW ty \in ColumnTypes, NEW u \in BOOLEAN
  PROVE  LET sent == EncodeStringParameters(DataToSql(ColumnDataRef(c, DecodedOf(c), ty)), u)
             copy == EchoCell(sent)
             now == ColumnTypeOf(EchoColumn(sent))
         IN /\ \A type \in NativeTypes : FromSql(type, copy, DecodedOf(copy)) = FromSql(type, c, DecodedOf(c))
            /\ \A type \in CompatTypes :
                 FromColumnData(type, ColumnDataRef(copy, DecodedOf(copy), now))
                   = FromColumnData(type, ColumnDataRef(c, DecodedOf(c), ty))
            /\ Kind(c) # "Decimal" => copy = c
<1> DEFINE sent == EncodeStringParameters(DataToSql(ColumnDataRef(c, DecodedOf(c), ty)), u)
           copy == EchoCell(sent)
           now == ColumnTypeOf(EchoColumn(sent))
<1>1. CASE c = Null
  <2>1. \A t : ColumnDataRef(Null, <<>>, t) = NullColumnData(t)
    BY NullIs DEF ColumnDataRef, TextKinds, DataOf
  <2>2. sent = EncodeStringParameters(DataToSql(NullColumnData(ty)), u)
    BY <1>1, <2>1, NullIs
  <2>3. /\ copy = Null
        /\ \/ NullColumnData(now) = NullColumnData(ty)
           \/ NullColumnData(ty) = <<"SmallDateTime">> /\ NullColumnData(now) = <<"DateTime">>
    <3>1. LET s == EncodeStringParameters(DataToSql(NullColumnData(ty)), u)
          IN /\ EchoCell(s) = Null
             /\ \/ NullColumnData(ColumnTypeOf(EchoColumn(s))) = NullColumnData(ty)
                \/ /\ NullColumnData(ty) = <<"SmallDateTime">>
                   /\ NullColumnData(ColumnTypeOf(EchoColumn(s))) = <<"DateTime">>
      BY CopyOfNull
    <3> HIDE DEF sent
    <3>2. QED BY <2>2, <3>1
  <2> HIDE DEF sent, copy, now
  <2>4. \A type \in CompatTypes :
          FromColumnData(type, NullColumnData(now)) = FromColumnData(type, NullColumnData(ty))
    BY <2>3, NullReadOf
  <2>5. QED BY <1>1, <2>1, <2>3, <2>4, NullIs DEF sent, copy, now
<1>2. CASE c # Null
  <2> DEFINE k == c[1]
             p == c[2]
             ds == DecodedOf(c)
  <2>1. c = <<k, p>> /\ k \in CellKinds /\ Kind(c) = k /\ ds = IF k \in TextKinds THEN <<p>> ELSE <<>>
    BY <1>2, CellIs
  <2> HIDE DEF k, p
  <2>2. copy = <<CopyKind(k), p>>
    <3>1. \A e : e = (IF k \in TextKinds THEN <<p>> ELSE <<>>) =>
            EchoCell(EncodeStringParameters(DataToSql(ColumnDataRef(<<k, p>>, e, ty)), u)) = <<CopyKind(k), p>>
      BY <2>1, CopyOfValue
    <3> HIDE DEF ds
    <3>2. EchoCell(EncodeStringParameters(DataToSql(ColumnDataRef(c, ds, ty)), u)) = <<CopyKind(k), p>>
      BY <2>1, <3>1
    <3>3. QED BY <3>2 DEF ds
  <2> HIDE DEF copy, now, sent
  <2>3. CASE k # "Decimal"
    <3>1. copy = c
      BY <2>1, <2>2, <2>3 DEF CopyKind
    <3>2. \A t : ColumnDataRef(c, ds, t) = ColumnDataRef(c, ds, ty)
      BY <1>2 DEF ColumnDataRef
    <3>3. QED BY <3>1, <3>2 DEF copy, sent, now, ds
  <2>4. CASE k = "Decimal"
    <3>1. copy = <<"Numeric", p>> /\ c = <<"Decimal", p>>
      BY <2>1, <2>2, <2>4 DEF CopyKind
    <3>2. DecodedOf(copy) = <<>> /\ DecodedOf(c) = <<>>
      BY <3>1 DEF DecodedOf, Kind, TextKinds
    <3>3. Kind(c) = "Decimal"
      BY <2>1, <2>4
    <3>4. ColumnDataRef(copy, <<>>, now) = ColumnDataRef(c, <<>>, ty)
      BY <3>1, DecimalReads
    <3>5. \A type \in NativeTypes : FromSql(type, copy, <<>>) = FromSql(type, c, <<>>)
      BY <3>1, DecimalReads
    <3>6. QED BY <3>2, <3>3, <3>4, <3>5 DEF copy, sent, now
  <2>5. QED BY <2>3, <2>4
<1>3. QED BY <1>1, <1>2

LEMMA CopiesFound == ASSUME VInv PROVE CopiesFaithful
<1> DEFINE row == source[1]
           TypeIn(i) == IF i \in DOMAIN row.metadata THEN row.metadata[i].type ELSE "Null"
<1> SUFFICES ASSUME phase = "row", source # <<>> PROVE
      /\ \A i \in DOMAIN values :
           /\ \A type \in NativeTypes :
                TryGetIndex(type, i) = FromSql(type, row.values[i], row.decoded[i])
           /\ \A type \in CompatTypes :
                TryGetCompat(type, i) =
                  FromColumnData(type, ColumnDataRef(row.values[i], row.decoded[i], TypeIn(i)))
      /\ \/ RowEq([metadata |-> metadata, values |-> values], row)
         \/ Len(metadata) # Len(row.metadata)
         \/ \E i \in DOMAIN values :
              metadata[i].type # TypeIn(i) \/ Kind(row.values[i]) = "Decimal"
  BY DEF CopiesFaithful, AtRow
<1>1. /\ RowTyped(row.metadata, row.values, row.decoded)
      /\ params # <<>> /\ DOMAIN params = DOMAIN row.values
      /\ \A i \in DOMAIN params : params[i] = Rebound(row, i)
  BY DEF VInv, SourceInv
<1> HIDE DEF row
<1>2. /\ unicode \in BOOLEAN /\ wire = <<>> /\ RowTyped(metadata, values, decoded) /\ IsTuple(params)
  BY DEF VInv, PathInv
<1>3. /\ DOMAIN metadata = DOMAIN params /\ Len(values) + Len(wire) = Len(params)
      /\ \A i \in DOMAIN params : metadata[i].type = ColumnTypeOf(EchoColumn(Sent(i)))
      /\ \A i \in DOMAIN values : values[i] = EchoCell(Sent(i))
  BY <1>1 DEF VInv, EchoInv
<1>4. /\ DOMAIN values = DOMAIN params /\ DOMAIN values = DOMAIN row.values
      /\ DOMAIN decoded = DOMAIN values
  <2>1. Len(values) \in Nat /\ DOMAIN values = 1..Len(values) /\ DOMAIN params = 1..Len(params)
    BY <1>2, TupleIs DEF RowTyped
  <2>2. Len(values) = Len(params)
    BY <1>2, <1>3, <2>1
  <2>3. QED BY <1>1, <1>2, <2>1, <2>2 DEF RowTyped
<1>5. ASSUME NEW i \in DOMAIN values
      PROVE  /\ \A type \in NativeTypes :
                  TryGetIndex(type, i) = FromSql(type, row.values[i], row.decoded[i])
             /\ \A type \in CompatTypes :
                  TryGetCompat(type, i) =
                    FromColumnData(type, ColumnDataRef(row.values[i], row.decoded[i], TypeIn(i)))
             /\ Kind(row.values[i]) # "Decimal" => values[i] = row.values[i]
  <2> DEFINE c == row.values[i]
             ty == TypeIn(i)
  <2>1. CellLike(c) /\ row.decoded[i] = DecodedOf(c) /\ ty \in ColumnTypes
    BY <1>1, <1>4 DEF RowTyped, ColumnTypes
  <2>2. decoded[i] = DecodedOf(values[i])
    BY <1>2 DEF RowTyped
  <2>3. Sent(i) = EncodeStringParameters(DataToSql(ColumnDataRef(c, DecodedOf(c), ty)), unicode)
    BY <1>1, <1>4, <2>1 DEF Sent, Rebound
  <2>4. values[i] = EchoCell(Sent(i)) /\ metadata[i].type = ColumnTypeOf(EchoColumn(Sent(i)))
    BY <1>3, <1>4
  <2> HIDE DEF c, ty
  <2>5. /\ \A type \in NativeTypes : FromSql(type, values[i], decoded[i]) = FromSql(type, c, DecodedOf(c))
        /\ \A type \in CompatTypes :
             FromColumnData(type, ColumnDataRef(values[i], decoded[i], metadata[i].type))
               = FromColumnData(type, ColumnDataRef(c, DecodedOf(c), ty))
        /\ Kind(c) # "Decimal" => values[i] = c
    BY <1>2, <2>1, <2>2, <2>3, <2>4, CopyReads
  <2>6. \A type \in NativeTypes : TryGetIndex(type, i) = FromSql(type, values[i], decoded[i])
    BY <1>4 DEF TryGetIndex, TryGetAt, Decoded
  <2>7. CompatValues[i] = ColumnDataRef(values[i], decoded[i], metadata[i].type) /\ i \in DOMAIN CompatValues
    BY <1>3, <1>4 DEF CompatValues
  <2>8. \A type \in CompatTypes : TryGetCompat(type, i) =
          FromColumnData(type, ColumnDataRef(values[i], decoded[i], metadata[i].type))
    BY <2>7 DEF TryGetCompat
  <2>9. /\ \A type \in NativeTypes : TryGetIndex(type, i) = FromSql(type, c, DecodedOf(c))
        /\ \A type \in CompatTypes :
             TryGetCompat(type, i) = FromColumnData(type, ColumnDataRef(c, DecodedOf(c), ty))
    BY <2>5, <2>6, <2>8
  <2>10. QED BY <2>1, <2>5, <2>9 DEF c, ty
<1>6. ASSUME Len(metadata) = Len(row.metadata),
             \A i \in DOMAIN values : metadata[i].type = TypeIn(i) /\ Kind(row.values[i]) # "Decimal"
      PROVE  RowEq([metadata |-> metadata, values |-> values], row)
  <2>1. values = row.values
    <3>1. \A i \in DOMAIN values : values[i] = row.values[i]
      BY <1>5, <1>6
    <3>2. /\ Len(values) \in Nat /\ values = [i \in 1..Len(values) |-> values[i]]
          /\ DOMAIN values = 1..Len(values)
      BY <1>2, TupleIs DEF RowTyped
    <3>3. /\ Len(row.values) \in Nat /\ row.values = [i \in 1..Len(row.values) |-> row.values[i]]
          /\ DOMAIN row.values = 1..Len(row.values)
      BY <1>1, TupleIs DEF RowTyped
    <3>4. row.values = [i \in DOMAIN values |-> row.values[i]] /\ values = [i \in DOMAIN values |-> values[i]]
      BY <1>4, <3>2, <3>3
    <3>5. QED BY <3>1, <3>4
  <2>2. DOMAIN metadata = DOMAIN row.metadata /\ DOMAIN metadata = DOMAIN values
    <3>1. DOMAIN metadata = 1..Len(metadata) /\ DOMAIN row.metadata = 1..Len(row.metadata)
      BY <1>1, <1>2, TupleIs DEF RowTyped
    <3>2. QED BY <1>3, <1>4, <1>6, <3>1
  <2>3. [i \in DOMAIN metadata |-> metadata[i].type] = [i \in DOMAIN row.metadata |-> row.metadata[i].type]
    <3>1. \A i \in DOMAIN metadata : metadata[i].type = row.metadata[i].type
      BY <1>6, <2>2
    <3>2. QED BY <2>2, <3>1
  <2>4. QED BY <2>1, <2>3 DEF RowEq
<1>7. QED BY <1>5, <1>6

\* The cells of a row (row.rs) that are bound again read from the echoed row as
\* they did, by every type, natively and by Tiberius' reader; and the rows are
\* equal unless a column changed its type or a decimal its name.
THEOREM CopiesAlwaysFaithful == Spec => []CopiesFaithful
<1>1. VInv => CopiesFaithful
  BY CopiesFound
<1>2. QED BY <1>1, PathInvariance, PTL

-----------------------------------------------------------------------------
(* What is echoed of a Rust value *)

CellKindOf == [bool |-> "Bit", u8 |-> "TinyInt", i16 |-> "SmallInt", i32 |-> "Int",
  i64 |-> "BigInt", f32 |-> "Real", f64 |-> "Float", str |-> "String", String |-> "String",
  Uuid |-> "Uuid", bytes |-> "Bytes", NaiveDate |-> "Date", NaiveTime |-> "Time",
  NaiveDateTime |-> "DateTime2", FixedOffset |-> "DateTimeOffset", Utc |-> "DateTimeOffset",
  Decimal |-> "Numeric", DecimalParts |-> "Numeric", Json |-> "String", VectorValue |-> "Vector"]
DataKindOf(type) ==
  IF CellKindOf[type] \in DOMAIN DataOf THEN DataOf[CellKindOf[type]] ELSE CellKindOf[type]
NativeKindOf(type) == IF type = "Json" THEN "NVarchar" ELSE KindOf(type)

\* What is left of a payload: a Decimal gains a precision, a JSON value is its text.
Carried(type, p) ==
  CASE type = "Decimal" -> <<p[1], p[2], Precision(p)>>
    [] type = "Json"    -> p[2]
    [] OTHER            -> p

\* Digits of a mantissa that a Rust Decimal has.
LEMMA DigitsFit ==
  ASSUME NEW m \in Int, Magnitude(m) <= MaxMantissa
  PROVE  Digits(m) \in 1..MaxDigits
<1> DEFINE S == {d \in Nat : d >= 1 /\ Magnitude(m) < 10^d}
           P(d) == Magnitude(m) < 10^d /\ (d = 1 \/ Magnitude(m) >= 10^(d - 1))
<1>1. /\ MaxDigits \in Nat /\ MaxDigits >= 1 /\ Magnitude(m) \in Int
      /\ \A d \in Nat : 10^d \in Int
  BY SqlValuesAssumption DEF Magnitude
<1>2. MaxDigits \in S
  BY <1>1, SqlValuesAssumption
<1>3. PICK d \in S : \A e \in S : d <= e
  <2>1. S \subseteq Nat /\ S # {}
    BY <1>2
  <2> HIDE DEF S
  <2>2. QED BY <2>1, LeastOf
<1>4. P(d) /\ d \in 1..(MaxDigits + 1)
  <2>1. d \in Nat /\ d >= 1 /\ d <= MaxDigits /\ Magnitude(m) < 10^d
    BY <1>1, <1>2, <1>3
  <2>2. d = 1 \/ Magnitude(m) >= 10^(d - 1)
    <3>1. CASE d # 1
      <4>1. d - 1 \in Nat /\ d - 1 >= 1 /\ d - 1 \notin S
        BY <1>3, <2>1, <3>1
      <4>2. ~(Magnitude(m) < 10^(d - 1)) /\ 10^(d - 1) \in Int
        BY <1>1, <4>1
      <4>3. QED BY <1>1, <4>2
    <3>2. QED BY <3>1
  <2>3. QED BY <1>1, <2>1, <2>2
<1>5. Digits(m) \in 1..(MaxDigits + 1) /\ P(Digits(m))
  <2>1. Digits(m) = CHOOSE e \in 1..(MaxDigits + 1) : P(e)
    BY DEF Digits
  <2> HIDE DEF P
  <2>2. QED BY <1>4, <2>1
<1>6. Digits(m) # MaxDigits + 1
  <2>1. ASSUME Digits(m) = MaxDigits + 1 PROVE FALSE
    <3>1. Magnitude(m) >= 10^MaxDigits
      <4>1. Digits(m) - 1 = MaxDigits /\ Digits(m) # 1
        BY <1>1, <2>1
      <4>2. QED BY <1>5, <4>1
    <3>2. MaxMantissa < 10^MaxDigits /\ 10^MaxDigits \in Int /\ MaxMantissa \in Int
      BY <1>1, SqlValuesAssumption
    <3>3. QED BY <1>1, <3>1, <3>2
  <2>2. QED BY <2>1
<1>7. QED BY <1>1, <1>5, <1>6

\* A Decimal is sent with its own mantissa and scale.
LEMMA DecimalCarried ==
  ASSUME NEW p \in PayloadsOf("Decimal")
  PROVE  /\ DecimalToSql(p) = <<"Numeric", Carried("Decimal", p)>>
         /\ p = <<p[1], p[2]>> /\ p[1] \in Int /\ p[2] \in Nat /\ Magnitude(p[1]) <= MaxMantissa
         /\ p[2] <= MaxScale
<1>1. /\ p = <<p[1], p[2]>> /\ p[1] \in Int /\ Magnitude(p[1]) <= MaxMantissa
      /\ p[2] \in 0..MaxDigits /\ p[2] <= MaxScale
  BY SqlValuesAssumption DEF PayloadsOf, IntTypes, Bits
<1>2. /\ Digits(p[1]) \in 1..MaxDigits /\ MaxDigits \in Nat
      /\ Precision(p) \in Nat /\ Precision(p) <= MaxDigits
      /\ Digits(p[1]) <= Precision(p) /\ p[2] <= Precision(p)
  <2>1. Digits(p[1]) \in 1..MaxDigits /\ MaxDigits \in Nat
    BY <1>1, DigitsFit, SqlValuesAssumption
  <2>2. QED BY <1>1, <2>1 DEF Precision
<1>3. FromString(p, Precision(p)) = <<"Numeric", <<p[1], p[2], Precision(p)>>>>
  BY <1>2 DEF FromString
<1>4. IsNone(FromString(p, Precision(p))) = FALSE
  BY <1>3 DEF IsNone
<1>5. DecimalToSql(p) = <<"Numeric", Carried("Decimal", p)>>
  BY <1>3, <1>4 DEF DecimalToSql, DecimalToSqlType, Carried
<1>6. QED BY <1>1, <1>5

\* A value that SQL has a place for.
Kept(type, p) == (type = "Json" => p[1] = "container") /\ (type = "VectorValue" => p # "refused")

LEMMA ContainerIs ==
  ASSUME NEW p \in PayloadsOf("Json"), p[1] = "container"
  PROVE  p = <<"container", p[2]>> /\ p[2] \in Containers /\ p[2] \in Texts
<1>1. p \in Json
  BY DEF PayloadsOf, IntTypes, Bits
<1>2. \E t \in Containers : p = <<"container", t>>
  BY <1>1 DEF Json
<1>3. QED BY <1>2, ValuePathAssumption

LEMMA NativeCarries ==
  ASSUME NEW type \in BoundTypes, NEW p \in PayloadsOf(type), Kept(type, p)
  PROVE  ToSql(<<type, p>>) = <<NativeKindOf(type), Carried(type, p)>>
<1>1. Kind(<<type, p>>) = type /\ IsNone(<<type, p>>) = FALSE /\ Payload(<<type, p>>) = p
  BY Tuples
<1>2. CASE type = "Json"
  <2>1. ToSql(<<type, p>>) = JsonToSql(p)
    BY <1>1, <1>2 DEF ToSql
  <2>2. p[1] = "container"
    BY <1>2 DEF Kept
  <2>3. JsonToSql(p) = <<"NVarchar", p[2]>>
    BY <2>2 DEF JsonToSql
  <2>4. QED BY <1>2, <2>1, <2>3 DEF NativeKindOf, Carried
<1>3. CASE type = "Decimal"
  <2>1. ToSql(<<type, p>>) = DecimalToSql(p)
    BY <1>1, <1>3 DEF ToSql
  <2>2. QED BY <1>3, <2>1, DecimalCarried DEF NativeKindOf, KindOf
<1>4. CASE type = "VectorValue"
  <2>1. ToSql(<<type, p>>) = VectorToSql(p) /\ p # "refused"
    BY <1>1, <1>4 DEF ToSql, Kept
  <2>2. QED BY <1>4, <2>1 DEF VectorToSql, NativeKindOf, KindOf, Carried
<1>5. CASE type \notin {"Json", "Decimal", "VectorValue"}
  <2>1. ToSql(<<type, p>>) = <<SqlOf[type], p>>
    BY <1>1, <1>5 DEF ToSql
  <2>2. QED BY <1>5, <2>1 DEF NativeKindOf, KindOf, Carried
<1>6. QED BY <1>2, <1>3, <1>4, <1>5

\* A payload as ColumnData is the cell it will be, as ColumnData.
LEMMA DataOfCell ==
  ASSUME NEW type \in DOMAIN CellKindOf \ {"VectorValue"}, NEW q, NEW ty, NEW ds,
         ds = IF CellKindOf[type] \in TextKinds THEN <<q>> ELSE <<>>
  PROVE  ColumnDataRef(<<CellKindOf[type], q>>, ds, ty) = <<DataKindOf(type), q>>
<1> DEFINE k == CellKindOf[type]
<1>1. k \in CellKinds /\ k # "Vector"
  BY DEF CellKindOf, CellKinds
<1>2. DataKindOf(type) = IF k \in DOMAIN DataOf THEN DataOf[k] ELSE k
  BY DEF DataKindOf
<1> HIDE DEF k
<1>3. ColumnDataRef(<<k, q>>, ds, ty)
        = CASE k = "Vector"        -> <<"Native", <<k, q>>>>
            [] k \in DOMAIN DataOf -> <<DataOf[k], q>>
            [] OTHER               -> <<k, q>>
  BY <1>1, DataIs DEF k
<1>4. QED BY <1>1, <1>2, <1>3 DEF k

LEMMA DataKindsOf ==
  ASSUME NEW type \in DOMAIN CellKindOf \ {"VectorValue"}
  PROVE  DataKindOf(type) \in DataKinds \ {"SmallDateTime"}
BY DEF CellKindOf, DataKindOf, DataOf, DataKinds

\* What was bound as ColumnData comes back as a cell of the value's type.
LEMMA DataEchoed ==
  ASSUME NEW type \in DOMAIN CellKindOf \ {"VectorValue"}, NEW q, NEW u \in BOOLEAN
  PROVE  EchoCell(EncodeStringParameters(DataToSql(<<DataKindOf(type), q>>), u))
           = <<CellKindOf[type], q>>
<1> DEFINE k == CellKindOf[type]
           ds == IF k \in TextKinds THEN <<q>> ELSE <<>>
<1>1. k \in CellKinds /\ CopyKind(k) = k
  BY DEF CellKindOf, CellKinds, CopyKind
<1>2. ColumnDataRef(<<k, q>>, ds, "Null") = <<DataKindOf(type), q>>
  BY DataOfCell
<1> HIDE DEF k
<1>3. EchoCell(EncodeStringParameters(DataToSql(ColumnDataRef(<<k, q>>, ds, "Null")), u))
        = <<CopyKind(k), q>>
  BY <1>1, CopyOfValue
<1>4. QED BY <1>1, <1>2, <1>3 DEF k

\* So does what was bound natively.
LEMMA NativeEchoed ==
  ASSUME NEW type \in BoundTypes, NEW q, NEW u \in BOOLEAN
  PROVE  EchoCell(EncodeStringParameters(<<NativeKindOf(type), q>>, u)) = <<CellKindOf[type], q>>
<1> DEFINE n == NativeKindOf(type)
           sk == SentAs(n, u)
           sent == EncodeStringParameters(<<n, q>>, u)
<1>1. /\ sk \in DOMAIN EchoKind => EchoKind[sk] = CellKindOf[type]
      /\ sk \notin DOMAIN EchoKind => sk = CellKindOf[type]
  <2>1. CASE type \in {"str", "String", "Json"}
    <3>1. n = "NVarchar" /\ CellKindOf[type] = "String"
      BY <2>1 DEF NativeKindOf, KindOf, SqlOf, CellKindOf
    <3>2. sk \in {"NVarchar", "Varchar"}
      BY <3>1 DEF SentAs, NonUnicode
    <3> HIDE DEF sk, n
    <3>3. QED BY <3>1, <3>2 DEF EchoKind
  <2>2. CASE type = "bytes"
    <3>1. n = "VarBinaryMax" /\ CellKindOf[type] = "Bytes"
      BY <2>2 DEF NativeKindOf, KindOf, SqlOf, CellKindOf
    <3>2. sk = "VarBinaryMax"
      BY <3>1 DEF SentAs, NonUnicode
    <3> HIDE DEF sk, n
    <3>3. QED BY <3>1, <3>2 DEF EchoKind
  <2>3. CASE type \notin {"str", "String", "Json", "bytes"}
    <3>1. n = CellKindOf[type]
      BY <2>3 DEF NativeKindOf, KindOf, SqlOf, CellKindOf, BoundTypes
    <3>2. n \notin DOMAIN NonUnicode /\ n \notin DOMAIN EchoKind
      BY <2>3, <3>1 DEF CellKindOf, BoundTypes, SqlOf, NonUnicode, EchoKind
    <3>3. sk = n
      BY <3>2 DEF SentAs
    <3> HIDE DEF sk, n
    <3>4. QED BY <3>1, <3>2, <3>3
  <2>4. QED BY <2>1, <2>2, <2>3
<1> HIDE DEF n
<1>2. /\ sent = <<sent[1], q>> /\ sent[1] = sk
      /\ EchoCell(sent) = IF sent[1] \in DOMAIN EchoKind THEN <<EchoKind[sent[1]], q>> ELSE sent
  BY EchoIs DEF SentAs
<1> HIDE DEF sent, sk
<1>3. QED BY <1>1, <1>2 DEF sent, n

\* FromNativeValue of what a value is natively is its ColumnData.
LEMMA DataOfNative ==
  ASSUME NEW type \in BoundTypes \ {"VectorValue"}
  PROVE  /\ \A q : FromNativeValue(<<NativeKindOf(type), q>>) = <<DataKindOf(type), q>>
         /\ FromNativeValue(<<NativeKindOf(type)>>) = <<DataKindOf(type)>>
<1> DEFINE n == NativeKindOf(type)
<1>1. n # "Vector" /\ FromNative[n] = DataKindOf(type)
  <2>1. CASE type = "Json"
    BY <2>1 DEF NativeKindOf, FromNative, DataKindOf, CellKindOf, DataOf
  <2>2. CASE type = "Decimal"
    BY <2>2 DEF NativeKindOf, KindOf, FromNative, DataKindOf, CellKindOf, DataOf
  <2>3. CASE type \in DOMAIN SqlOf
    <3>1. n = SqlOf[type]
      BY <2>3 DEF NativeKindOf, KindOf, SqlOf
    <3>2. SqlOf[type] # "Vector" /\ FromNative[SqlOf[type]] = DataKindOf(type)
      BY <2>3 DEF SqlOf, FromNative, DataKindOf, CellKindOf, DataOf
    <3>3. QED BY <3>1, <3>2
  <2>4. QED BY <2>1, <2>2, <2>3 DEF BoundTypes
<1> HIDE DEF n
<1>2. ASSUME NEW q PROVE FromNativeValue(<<n, q>>) = <<DataKindOf(type), q>>
                         /\ FromNativeValue(<<n>>) = <<DataKindOf(type)>>
  <2>1. Kind(<<n, q>>) = n /\ Kind(<<n>>) = n
    BY Tuples
  <2>2. Retag(FromNative, <<n, q>>) = <<FromNative[n], q>> /\ Retag(FromNative, <<n>>) = <<FromNative[n]>>
    BY Retagged
  <2>3. QED BY <1>1, <2>1, <2>2 DEF FromNativeValue
<1>3. FromNativeValue(<<n>>) = <<DataKindOf(type)>>
  BY <1>2
<1>4. QED BY <1>2, <1>3 DEF n

\* Through any API a value comes back as a cell of its type.
LEMMA ValueEchoed ==
  ASSUME NEW api \in Apis, NEW type \in Binds(api), NEW p \in PayloadsOf(type), Kept(type, p),
         NEW u \in BOOLEAN
  PROVE  EchoCell(EncodeStringParameters(Bound(api, <<type, p>>), u))
           = <<CellKindOf[type], Carried(type, p)>>
<1> DEFINE value == <<type, p>>
           q == Carried(type, p)
<1>1. Kind(value) = type /\ IsNone(value) = FALSE
  BY Tuples
<1>2. type \in DOMAIN CellKindOf
  BY DEF Binds, BoundTypes, SqlOf, CellKindOf, Apis
<1>3. type \in BoundTypes => ToSql(value) = <<NativeKindOf(type), q>>
  BY NativeCarries
<1>4. type = "DecimalParts" => q = p /\ DataKindOf(type) = "Numeric"
  BY DEF Carried, DataKindOf, CellKindOf, DataOf
<1> HIDE DEF q
<1>5. CASE api = "native"
  <2>1. type \in BoundTypes /\ Bound(api, value) = ToSql(value)
    BY <1>5 DEF Binds, Bound
  <2>2. QED BY <1>3, <2>1, NativeEchoed DEF q
<1>6. CASE type = "VectorValue" /\ api # "native"
  <2>1. api = "compat" /\ Bound(api, value) = DataToSql(CompatToSql(value)) /\ type \in BoundTypes
    BY <1>6 DEF Apis, Binds, Bound, BoundTypes, SqlOf
  <2>2. CompatToSql(value) = FromNativeValue(<<"Vector", q>>)
    BY <1>1, <1>3, <1>6, <2>1 DEF CompatToSql, NativeKindOf, KindOf
  <2>3. Kind(<<"Vector", q>>) = "Vector"
    BY Tuples
  <2>4. CompatToSql(value) = <<"Native", <<"Vector", q>>>>
    BY <2>2, <2>3 DEF FromNativeValue
  <2>5. Kind(CompatToSql(value)) = "Native" /\ Payload(CompatToSql(value)) = <<"Vector", q>>
    BY <2>4 DEF Kind, Payload
  <2>6. DataToSql(CompatToSql(value)) = <<"Vector", q>> /\ NativeKindOf(type) = "Vector"
    BY <1>6, <2>5 DEF DataToSql, IntoNative, NativeKindOf, KindOf
  <2>7. QED BY <2>1, <2>6, NativeEchoed DEF q
<1>7. CASE type # "VectorValue" /\ api # "native"
  <2>1. Bound(api, value) = DataToSql(<<DataKindOf(type), q>>)
    <3>1. type \in BoundTypes => FromNativeValue(ToSql(value)) = <<DataKindOf(type), q>>
      BY <1>3, <1>7, DataOfNative
    <3>2. CASE api = "compat"
      <4>1. type \in BoundTypes \cup {"DecimalParts"} /\ Bound(api, value) = DataToSql(CompatToSql(value))
        BY <3>2 DEF Binds, Bound
      <4>2. CASE type = "DecimalParts"
        <5>1. CompatToSql(value) = <<"Numeric">> \o Tail(value)
          BY <1>1, <4>2 DEF CompatToSql
        <5>2. Tail(value) = <<p>> /\ <<"Numeric">> \o <<p>> = <<"Numeric", p>>
          BY Joined
        <5>3. CompatToSql(value) = <<"Numeric", q>>
          BY <1>4, <4>2, <5>1, <5>2
        <5>4. QED BY <1>4, <4>1, <4>2, <5>3
      <4>3. CASE type # "DecimalParts"
        <5>1. CompatToSql(value) = FromNativeValue(ToSql(value))
          BY <1>1, <4>3 DEF CompatToSql
        <5>2. QED BY <3>1, <4>1, <4>3, <5>1
      <4>4. QED BY <4>2, <4>3
    <3>3. CASE api = "into"
      <4>1. type \in BoundTypes \cup {"DecimalParts"} /\ Bound(api, value) = DataToSql(IntoSql(value))
        BY <3>3 DEF Binds, Bound
      <4>2. CASE type \in DOMAIN IntoOther
        <5>1. IntoSql(value) = Retag(IntoOther, value)
          BY <1>1, <4>2 DEF IntoSql
        <5>2. Retag(IntoOther, value) = <<IntoOther[type], p>>
          BY Retagged
        <5>3. IntoOther[type] = DataKindOf(type) /\ q = p
          BY <4>2 DEF IntoOther, DataKindOf, CellKindOf, DataOf, Carried, q
        <5>4. QED BY <4>1, <5>1, <5>2, <5>3
      <4>3. CASE type \notin DOMAIN IntoOther
        <5>1. IntoSql(value) = FromNativeValue(ToSql(value)) /\ type # "DecimalParts"
          BY <1>1, <4>3 DEF IntoSql, IntoOther
        <5>2. QED BY <3>1, <4>1, <5>1
      <4>4. QED BY <4>2, <4>3
    <3>4. QED BY <1>7, <3>2, <3>3 DEF Apis
  <2>2. QED BY <1>2, <1>7, <2>1, DataEchoed DEF q
<1>8. QED BY <1>5, <1>6, <1>7

\* Through any API a None is sent as a typed NULL of its own type.
LEMMA NullSent ==
  ASSUME NEW api \in Apis, NEW type \in Binds(api), type # "VectorValue"
  PROVE  \E k \in {DataKindOf(type)} \cup (IF type = "Json" THEN {"Json"} ELSE {}) :
           Bound(api, <<type>>) = <<NullAs(k)>>
<1> DEFINE value == <<type>>
<1>1. Kind(value) = type /\ IsNone(value) = TRUE
  BY Tuples
<1>2. type \in DOMAIN CellKindOf
  BY DEF Binds, BoundTypes, SqlOf, CellKindOf, Apis
<1>3. DataToSql(<<DataKindOf(type)>>) = <<NullAs(DataKindOf(type))>>
      /\ DataToSql(<<"Json">>) = <<NullAs("Json")>>
  <2>1. DataKindOf(type) \in DataKinds /\ "Json" \in DataKinds
    BY <1>2, DataKindsOf DEF DataKinds
  <2>2. QED BY <2>1, NullToSql
<1>4. type \in BoundTypes => ToSql(value) = <<NativeKindOf(type)>>
  <2>1. ToSql(value) = TypedNull(type)
    BY <1>1 DEF ToSql
  <2>2. type \in BoundTypes => TypedNull(type) = <<NativeKindOf(type)>>
    BY DEF TypedNull, NativeKindOf, KindOf, BoundTypes, SqlOf
  <2>3. QED BY <2>1, <2>2
<1>5. type \in BoundTypes => FromNativeValue(ToSql(value)) = <<DataKindOf(type)>>
  BY <1>4, DataOfNative
<1> HIDE DEF value
<1>6. CASE api = "native"
  <2>1. type \in BoundTypes /\ Bound(api, value) = ToSql(value)
    BY <1>6 DEF Binds, Bound
  <2>2. NullAs(DataKindOf(type)) = NativeKindOf(type)
    <3>1. CASE type = "Json"
      BY <3>1 DEF NativeKindOf, DataKindOf, CellKindOf, DataOf, NullAs, IntoNative
    <3>2. CASE type = "Decimal"
      BY <3>2 DEF NativeKindOf, KindOf, DataKindOf, CellKindOf, DataOf, NullAs, IntoNative
    <3>3. CASE type \in DOMAIN SqlOf
      <4>1. NativeKindOf(type) = SqlOf[type]
        BY <3>3 DEF NativeKindOf, KindOf, SqlOf
      <4>2. NullAs(DataKindOf(type)) = SqlOf[type]
        BY <3>3 DEF SqlOf, DataKindOf, CellKindOf, DataOf, NullAs, IntoNative
      <4>3. QED BY <4>1, <4>2
    <3>4. QED BY <2>1, <3>1, <3>2, <3>3 DEF BoundTypes
  <2>3. Bound(api, <<type>>) = <<NullAs(DataKindOf(type))>>
    BY <1>4, <2>1, <2>2 DEF value
  <2>4. QED BY <2>3
<1>7. CASE api = "compat"
  <2>1. type \in BoundTypes \cup {"DecimalParts"} /\ Bound(api, value) = DataToSql(CompatToSql(value))
    BY <1>7 DEF Binds, Bound
  <2>2. CompatToSql(value) = <<DataKindOf(type)>>
    <3>1. CASE type = "DecimalParts"
      <4>1. CompatToSql(value) = <<"Numeric">> \o Tail(value)
        BY <1>1, <3>1 DEF CompatToSql
      <4>2. Tail(value) = <<>> /\ <<"Numeric">> \o <<>> = <<"Numeric">>
        BY Joined DEF value
      <4>3. DataKindOf(type) = "Numeric"
        BY <3>1 DEF DataKindOf, CellKindOf, DataOf
      <4>4. QED BY <4>1, <4>2, <4>3
    <3>2. CASE type # "DecimalParts"
      <4>1. CompatToSql(value) = FromNativeValue(ToSql(value))
        BY <1>1, <3>2 DEF CompatToSql
      <4>2. QED BY <1>5, <2>1, <3>2, <4>1
    <3>3. QED BY <3>1, <3>2
  <2>3. Bound(api, <<type>>) = <<NullAs(DataKindOf(type))>>
    BY <1>3, <2>1, <2>2 DEF value
  <2>4. QED BY <2>3
<1>8. CASE api = "into"
  <2>1. /\ type \in (BoundTypes \ {"VectorValue"}) \cup {"DecimalParts"}
        /\ Bound(api, value) = DataToSql(IntoSql(value))
    BY <1>8 DEF Binds, Bound
  <2>2. IntoSql(value) = <<IF type = "Json" THEN "Json" ELSE DataKindOf(type)>>
    <3>1. CASE type \in DOMAIN IntoOther
      <4>1. IntoSql(value) = Retag(IntoOther, value)
        BY <1>1, <3>1 DEF IntoSql
      <4>2. Retag(IntoOther, value) = <<IntoOther[type]>>
        BY Retagged DEF value
      <4>3. IntoOther[type] = DataKindOf(type) /\ type # "Json"
        BY <3>1 DEF IntoOther, DataKindOf, CellKindOf, DataOf
      <4>4. QED BY <4>1, <4>2, <4>3
    <3>2. CASE type \notin DOMAIN IntoOther
      <4>1. IntoSql(value) = Retag(IntoNull, value)
        BY <1>1, <3>2 DEF IntoSql
      <4>2. Retag(IntoNull, value) = <<IntoNull[type]>>
        BY Retagged DEF value
      <4>3. IntoNull[type] = IF type = "Json" THEN "Json" ELSE DataKindOf(type)
        BY <2>1, <3>2 DEF IntoOther, IntoNull, DataKindOf, CellKindOf, DataOf, BoundTypes, SqlOf
      <4>4. QED BY <4>1, <4>2, <4>3
    <3>3. QED BY <3>1, <3>2
  <2>3. Bound(api, <<type>>) = <<NullAs(IF type = "Json" THEN "Json" ELSE DataKindOf(type))>>
    BY <1>3, <2>1, <2>2 DEF value
  <2>4. QED BY <2>3
<1>9. QED BY <1>6, <1>7, <1>8 DEF Apis

-----------------------------------------------------------------------------
(* What the readers make of the echo *)

\* A NULL of a type is a None of that type, natively and for Tiberius.
LEMMA NullRead ==
  ASSUME NEW type \in CompatTypes \cup NativeTypes
  PROVE  /\ type \in NativeTypes => FromSql(type, Null, <<>>) = None
         /\ \A k \in {DataKindOf(type)} \cup (IF type = "Json" THEN {"Json"} ELSE {}) :
              type \in CompatTypes => FromColumnData(type, <<k>>) = None
<1>1. type \in NativeTypes => FromSql(type, Null, <<>>) = None
  <2>1. CASE type = "str"
    BY <2>1 DEF FromSql, ReadStr, Null, Kind, Accepts
  <2>2. CASE type \in NativeTypes \ {"str"}
    <3>1. Kind(Null) \notin Accepts[type]
      BY <2>2, NullIs DEF Accepts, NativeTypes, TextKinds
    <3>2. QED BY <2>2, <3>1 DEF FromSql
  <2>3. QED BY <2>1, <2>2
<1>2. ASSUME NEW k \in {DataKindOf(type)} \cup (IF type = "Json" THEN {"Json"} ELSE {}),
             type \in CompatTypes
      PROVE  FromColumnData(type, <<k>>) = None
  <2>1. Kind(<<k>>) = k /\ IsNone(<<k>>) = TRUE
    BY Tuples
  <2>2. k # "Native"
    BY <1>2 DEF DataKindOf, CellKindOf, DataOf, CompatTypes, Exact
  <2>3. IntoColumnValue(<<k>>) = Null
    BY <2>1, <2>2 DEF IntoColumnValue
  <2>4. Null # Error
    BY DEF Null, Error
  <2>5. \A t : DecodeOwned(t, <<k>>) = None
    BY <2>3, <2>4 DEF DecodeOwned
  <2>6. CASE type = "Utc"
    <3>1. k = "DateTimeOffset"
      BY <1>2, <2>6 DEF DataKindOf, CellKindOf, DataOf
    <3>2. Len(None) = 1
      BY DEF None
    <3>3. FromColumnDataUtc(<<k>>) = None
      BY <2>1, <2>5, <3>1, <3>2 DEF FromColumnDataUtc
    <3>4. QED BY <2>6, <3>3 DEF FromColumnData, Lent
  <2>7. CASE type \in Lent
    <3>1. k = IF type = "str" THEN "String" ELSE IF type = "bytes" THEN "Binary" ELSE "Numeric"
      BY <1>2, <2>7 DEF Lent, DataKindOf, CellKindOf, DataOf
    <3>2. FromBorrowed(type, <<k>>) = None
      BY <2>1, <3>1 DEF FromBorrowed
    <3>3. QED BY <2>7, <3>2 DEF FromColumnData, Lent
  <2>8. CASE type # "Utc" /\ type \notin Lent
    <3>1. type \in DOMAIN Exact /\ type # "Utc"
      BY <1>2, <2>8 DEF CompatTypes, Lent
    <3>2. k \in Exact[type]
      BY <1>2, <2>8, <3>1 DEF Exact, Lent, DataKindOf, CellKindOf, DataOf
    <3>3. Matches(type, <<k>>)
      BY <2>1, <3>2 DEF Matches
    <3>4. QED BY <2>5, <2>8, <3>3 DEF FromColumnData
  <2>9. QED BY <2>6, <2>7, <2>8
<1>3. QED BY <1>1, <1>2

\* What a type reads of its own value.
Expected(type, p) == IF type = "Json" THEN <<type>> \o ParseJson[p[2]] ELSE <<type, p>>

LEMMA ExpectedIs ==
  ASSUME NEW type, NEW p \in PayloadsOf(type), Kept(type, p)
  PROVE  Expected(type, p) # None /\ \E x : Expected(type, p) = <<type, x>>
<1>1. CASE type = "Json"
  <2>1. p[2] \in Containers /\ p[2] \in Texts
    BY <1>1, ContainerIs DEF Kept
  <2>2. ParseJson[p[2]] = <<ParseJson[p[2]][1]>>
    BY <2>1, ValuePathAssumption, ParseJsonAssumption
  <2> DEFINE x == ParseJson[p[2]][1]
  <2>3. Expected(type, p) = <<type>> \o <<x>>
    BY <1>1, <2>2 DEF Expected
  <2> HIDE DEF x
  <2>4. <<type>> \o <<x>> = <<type, x>>
    BY Joined
  <2>5. Expected(type, p) = <<type, x>>
    BY <2>3, <2>4
  <2>6. QED BY <2>5 DEF None
<1>2. CASE type # "Json"
  <2>1. Expected(type, p) = <<type, p>>
    BY <1>2 DEF Expected
  <2>2. QED BY <2>1 DEF None
<1>3. QED BY <1>1, <1>2

\* A Decimal is read back with its own mantissa and scale.
LEMMA DecimalRead ==
  ASSUME NEW p \in PayloadsOf("Decimal"), NEW x, x = <<p[1], p[2], x[3]>>
  PROVE  ReadDecimal(<<"Numeric", x>>) = <<"Decimal", p>>
<1> DEFINE m == p[1]
           s == p[2]
           enough == {k \in 0..s : s - k <= MaxScale /\ Magnitude(Rounded(m, k)) <= MaxMantissa}
<1>1. p = <<m, s>> /\ m \in Int /\ s \in Nat /\ Magnitude(m) <= MaxMantissa /\ s <= MaxScale
  BY DecimalCarried
<1> HIDE DEF m, s
<1>2. Rounded(m, 0) = m
  <2>1. 10^0 = 1
    OBVIOUS
  <2>2. Magnitude(m) \in Int /\ (Magnitude(m) + (1 \div 2)) \div 1 = Magnitude(m)
    <3>1. Magnitude(m) \in Int /\ 1 \div 2 = 0
      BY <1>1 DEF Magnitude
    <3>2. QED BY <3>1
  <2>3. Rounded(m, 0) = IF m < 0 THEN -Magnitude(m) ELSE Magnitude(m)
    BY <2>1, <2>2 DEF Rounded
  <2>4. QED BY <1>1, <2>3 DEF Magnitude
<1>3. 0 \in enough /\ \A k \in enough : k \in Nat
  BY <1>1, <1>2
<1> HIDE DEF enough
<1>4. {k \in enough : \A l \in enough : k <= l} = {0}
  BY <1>3
<1>5. ParseDecimal(m, s) = {<<m, s>>}
  <2>1. ParseDecimal(m, s) = {<<Rounded(m, k), s - k>> : k \in {k \in enough : \A l \in enough : k <= l}}
    BY DEF ParseDecimal, enough
  <2>2. ParseDecimal(m, s) = {<<Rounded(m, k), s - k>> : k \in {0}}
    BY <1>4, <2>1
  <2>3. s - 0 = s
    BY <1>1
  <2>4. QED BY <1>2, <2>2, <2>3
<1>6. DecimalsOf(<<"Numeric", x>>) = {<<m, s>>}
  <2>1. Kind(<<"Numeric", x>>) = "Numeric" /\ Payload(<<"Numeric", x>>)[1] = m
        /\ Payload(<<"Numeric", x>>)[2] = s
    BY DEF Kind, Payload, m, s
  <2>2. QED BY <1>5, <2>1 DEF DecimalsOf
<1>7. ReadDecimal(<<"Numeric", x>>) = <<"Decimal", <<m, s>>>>
  BY <1>6 DEF ReadDecimal, Some
<1>8. QED BY <1>1, <1>7

\* A cell that holds a value is read as that value.
LEMMA ValueRead ==
  ASSUME NEW type \in NativeTypes, NEW p \in PayloadsOf(type), Kept(type, p),
         NEW ds, type = "str" => ds = <<p>>
  PROVE  FromSql(type, <<CellKindOf[type], Carried(type, p)>>, ds) = Expected(type, p)
<1> DEFINE k == CellKindOf[type]
           q == Carried(type, p)
<1>1. Kind(<<k, q>>) = k /\ Payload(<<k, q>>) = q
  BY Tuples
<1>2. k \in Accepts[type]
  BY DEF CellKindOf, Accepts, NativeTypes, TextKinds
<1> HIDE DEF k, q
<1>3. CASE type = "str"
  <2>1. FromSql(type, <<k, q>>, ds) = ReadStr(ds)
    BY <1>1, <1>2, <1>3 DEF FromSql
  <2>2. ReadStr(ds) = <<"str", p>>
    <3>1. <<p>> # <<>> /\ ds = <<p>>
      BY <1>3
    <3>2. ReadStr(ds) = <<"str">> \o <<p>>
      BY <3>1 DEF ReadStr
    <3>3. QED BY <3>2, Joined
  <2>3. QED BY <1>3, <2>1, <2>2 DEF Expected, k, q
<1>4. CASE type = "Json"
  <2>1. FromSql(type, <<k, q>>, ds) = ReadJson(<<k, q>>)
    BY <1>1, <1>2, <1>4 DEF FromSql
  <2>2. q = p[2] /\ p[2] \in Containers
    BY <1>4, ContainerIs DEF q, Carried, Kept
  <2>3. ParseJson[q] # <<>>
    BY <2>2, ValuePathAssumption
  <2>4. ReadJson(<<k, q>>) = <<"Json">> \o ParseJson[q]
    BY <1>1, <2>3 DEF ReadJson
  <2>5. QED BY <1>4, <2>1, <2>2, <2>4 DEF Expected, k, q
<1>5. CASE type = "Decimal"
  <2>1. FromSql(type, <<k, q>>, ds) = ReadDecimal(<<k, q>>)
    BY <1>1, <1>2, <1>5 DEF FromSql
  <2>2. k = "Numeric" /\ q = <<p[1], p[2], Precision(p)>>
    BY <1>5 DEF k, q, CellKindOf, Carried
  <2>3. q = <<p[1], p[2], q[3]>>
    BY <2>2
  <2>4. QED BY <1>5, <2>1, <2>2, <2>3, DecimalRead DEF Expected, k, q
<1>6. CASE type \notin {"str", "Json", "Decimal"}
  <2>1. FromSql(type, <<k, q>>, ds) = Some(type, q)
    BY <1>1, <1>2, <1>6 DEF FromSql
  <2>2. q = p
    BY <1>6 DEF q, Carried
  <2>3. QED BY <1>6, <2>1, <2>2 DEF Some, Expected, k, q
<1>7. QED BY <1>3, <1>4, <1>5, <1>6

\* So it is by Tiberius' reader.
LEMMA DataRead ==
  ASSUME NEW type \in CompatTypes, NEW p \in PayloadsOf(type), Kept(type, p)
  PROVE  FromColumnData(type, <<DataKindOf(type), Carried(type, p)>>) = Expected(type, p)
<1> DEFINE dk == DataKindOf(type)
           ck == CellKindOf[type]
           q == Carried(type, p)
           data == <<dk, q>>
<1>1. Kind(data) = dk /\ Payload(data) = q /\ IsNone(data) = FALSE
  BY Tuples
<1>2. /\ dk # "Native"
      /\ dk \in DOMAIN CellOf => CellOf[dk] = ck
      /\ dk \notin DOMAIN CellOf => dk = ck
  BY DEF CompatTypes, Exact, DataKindOf, CellKindOf, DataOf, CellOf
<1>3. Retag(CellOf, data) = <<CellOf[dk], q>>
  BY Retagged
<1> HIDE DEF dk, ck, q
<1>4. IntoColumnValue(data) = <<ck, q>>
  BY <1>1, <1>2, <1>3 DEF IntoColumnValue
<1> HIDE DEF data
<1>5. <<ck, q>> # Null /\ <<ck, q>> # Error
  <2>1. ck \in CellKinds /\ "error" \notin CellKinds
    BY DEF ck, CompatTypes, Exact, CellKindOf, CellKinds
  <2>2. QED BY <2>1 DEF Null, Error
<1>6. \A t : FromSql(t, <<ck, q>>, <<>>) # None => DecodeOwned(t, data) = FromSql(t, <<ck, q>>, <<>>)
  BY <1>4, <1>5 DEF DecodeOwned
<1>7. CASE type = "Utc"
  <2>1. p \in PayloadsOf("FixedOffset") /\ Kept("FixedOffset", p)
    BY <1>7 DEF PayloadsOf, IntTypes, Bits, Kept
  <2>2. ck = CellKindOf["FixedOffset"] /\ q = Carried("FixedOffset", p) /\ q = p
        /\ dk = "DateTimeOffset"
    BY <1>7 DEF ck, q, dk, CellKindOf, Carried, DataKindOf, DataOf
  <2>3. FromSql("FixedOffset", <<ck, q>>, <<>>) = <<"FixedOffset", p>>
    <3>1. Expected("FixedOffset", p) = <<"FixedOffset", p>> /\ "FixedOffset" \in NativeTypes
      BY DEF Expected, NativeTypes, Accepts
    <3>2. QED BY <2>1, <2>2, <3>1, ValueRead
  <2>4. DecodeOwned("FixedOffset", data) = <<"FixedOffset", p>>
    BY <1>6, <2>3 DEF None
  <2>5. FromColumnDataUtc(data) = <<"Utc", p>>
    <3>1. Len(<<"FixedOffset", p>>) = 2 /\ <<"FixedOffset", p>> # Error /\ <<"FixedOffset", p>>[2] = p
      BY DEF Error
    <3>2. QED BY <1>1, <2>2, <2>4, <3>1 DEF FromColumnDataUtc, Some
  <2>6. FromColumnData(type, data) = FromColumnDataUtc(data)
    BY <1>7 DEF FromColumnData, Lent
  <2>7. QED BY <1>7, <2>5, <2>6 DEF Expected, data, dk, q
<1>8. CASE type \in Lent
  <2>1. dk = IF type = "str" THEN "String" ELSE IF type = "bytes" THEN "Binary" ELSE "Numeric"
    BY <1>8 DEF Lent, dk, DataKindOf, CellKindOf, DataOf
  <2>2. FromBorrowed(type, data) = Some(type, q)
    BY <1>1, <2>1 DEF FromBorrowed
  <2>3. q = p /\ type \notin {"Json", "Utc"}
    BY <1>8 DEF Lent, q, Carried
  <2>4. FromColumnData(type, data) = FromBorrowed(type, data)
    BY <1>8, <2>3 DEF FromColumnData
  <2>5. QED BY <2>2, <2>3, <2>4 DEF Some, Expected, data, dk, q
<1>9. CASE type # "Utc" /\ type \notin Lent
  <2>1. type \in NativeTypes /\ type # "str" /\ dk \in Exact[type]
    BY <1>9 DEF CompatTypes, Exact, Lent, NativeTypes, Accepts, dk, DataKindOf, CellKindOf, DataOf
  <2>2. FromSql(type, <<ck, q>>, <<>>) = Expected(type, p)
    BY <2>1, ValueRead DEF ck, q
  <2>3. DecodeOwned(type, data) = Expected(type, p)
    BY <1>6, <2>2, ExpectedIs
  <2>4. Matches(type, data)
    BY <1>1, <2>1 DEF Matches
  <2>5. FromColumnData(type, data) = DecodeOwned(type, data)
    BY <1>9, <2>4 DEF FromColumnData
  <2>6. QED BY <2>3, <2>5 DEF data, dk, q
<1>10. QED BY <1>7, <1>8, <1>9

-----------------------------------------------------------------------------
(* The length of a column of text *)

\* A column of sized text is as long as any text that has room in its parameter.
LEMMA TextFits ==
  ASSUME NEW x, ParamLike(x), HasRoom(x), NEW u \in BOOLEAN,
         Kind(EchoCell(EncodeStringParameters(x, u))) = "String"
  PROVE  LET sent == EncodeStringParameters(x, u)
             column == EchoColumn(sent)
         IN column.length # MaxLength =>
              Len(Payload(EchoCell(sent))) <= CharLength(ColumnTypeOf(column), column.length)[1]
<1> DEFINE sent == EncodeStringParameters(x, u)
           column == EchoColumn(sent)
           k == x[1]
           p == x[2]
           sk == SentAs(k, u)
<1>1. x = <<k, p>> /\ (k \in ParamTexts => p \in Texts)
  <2>1. x = <<k>> => EchoCell(sent) = Null
    BY EchoNull
  <2>2. x # <<k>>
    BY <2>1, NullIs
  <2>3. QED BY <2>2 DEF ParamLike
<1> HIDE DEF k, p
<1>2. sent = <<sk, p>> /\ EchoCell(sent) = IF sk \in DOMAIN EchoKind THEN <<EchoKind[sk], p>> ELSE <<sk, p>>
  <2>1. LET s == EncodeStringParameters(<<k, p>>, u)
        IN /\ s = <<s[1], p>> /\ s[1] = sk
           /\ EchoCell(s) = IF s[1] \in DOMAIN EchoKind THEN <<EchoKind[s[1]], p>> ELSE s
    BY EchoIs DEF SentAs
  <2> DEFINE s == EncodeStringParameters(<<k, p>>, u)
  <2>2. s = sent
    BY <1>1
  <2> HIDE DEF s, sent, sk
  <2>3. sent = <<sent[1], p>> /\ sent[1] = sk
        /\ EchoCell(sent) = IF sent[1] \in DOMAIN EchoKind THEN <<EchoKind[sent[1]], p>> ELSE sent
    BY <2>1, <2>2 DEF s
  <2>4. QED BY <2>3
<1>3. k \in DOMAIN EchoTds
  BY DEF k, ParamLike
<1>4. sk \in {"NVarchar", "NVarcharMax", "Varchar", "VarcharMax"} /\ Payload(EchoCell(sent)) = p
  <2>1. sk \in DOMAIN EchoTds
    BY <1>3 DEF SentAs, NonUnicode, EchoTds
  <2> HIDE DEF sent, sk
  <2>2. Kind(EchoCell(sent)) = IF sk \in DOMAIN EchoKind THEN EchoKind[sk] ELSE sk
    BY <1>2 DEF Kind
  <2>3. Kind(EchoCell(sent)) = "String"
    BY DEF sent
  <2>4. sk \in DOMAIN EchoKind /\ EchoKind[sk] = "String"
    BY <2>1, <2>2, <2>3 DEF EchoTds, EchoKind
  <2>5. sk \in {"NVarchar", "NVarcharMax", "Varchar", "VarcharMax"}
    BY <2>4 DEF EchoKind
  <2>6. EchoCell(sent) = <<EchoKind[sk], p>>
    BY <1>2, <2>4
  <2>7. QED BY <2>5, <2>6 DEF Payload
<1>5. /\ column.length = EchoTds[sk][2] /\ column.tds = EchoTds[sk][1] /\ column.udt = <<>>
  <2> HIDE DEF sent, sk
  <2>1. Kind(sent) = sk
    BY ONLY <1>2, Tuples
  <2>2. QED BY <2>1 DEF EchoColumn
<1>6. CASE sk \in {"NVarcharMax", "VarcharMax"}
  <2>1. EchoTds[sk][2] = MaxLength
    BY <1>6 DEF EchoTds
  <2>2. QED BY <1>5, <2>1
<1>7. CASE sk \in {"NVarchar", "Varchar"}
  <2>1. k \in {"NVarchar", "Varchar"}
    BY <1>3, <1>7 DEF SentAs, NonUnicode, EchoTds
  <2>2. p \in Texts /\ Len(p) \in Nat /\ MaxUnits \in Nat
    BY <1>1, <2>1, SqlValuesAssumption DEF ParamTexts
  <2>3. Len(p) <= MaxUnits
    <3>1. Kind(x) = k /\ IsNone(x) = FALSE /\ Payload(x) = p
      BY <1>1, Tuples
    <3>2. QED BY <2>1, <3>1 DEF HasRoom
  <2>4. CharLength(ColumnTypeOf(column), column.length)[1] = MaxUnits
    <3>1. CASE sk = "NVarchar"
      <4>1. column.length = 2 * MaxUnits /\ column.tds = "NVarChar"
        BY <1>5, <3>1 DEF EchoTds
      <4>2. ColumnTypeOf(column) = "NVarchar"
        BY <1>5, <4>1 DEF ColumnTypeOf, SizedType, PlainType, TypeOf
      <4>3. (2 * MaxUnits) \div 2 = MaxUnits
        BY <2>2
      <4> HIDE DEF column
      <4>4. CharLength(ColumnTypeOf(column), column.length) = <<MaxUnits>>
        BY <4>1, <4>2, <4>3 DEF CharLength
      <4>5. QED BY <4>4
    <3>2. CASE sk = "Varchar"
      <4>1. column.length = MaxUnits /\ column.tds = "BigVarChar"
        BY <1>5, <3>2 DEF EchoTds
      <4>2. ColumnTypeOf(column) = "Varchar"
        BY <1>5, <4>1 DEF ColumnTypeOf, SizedType, PlainType, TypeOf
      <4> HIDE DEF column
      <4>3. CharLength(ColumnTypeOf(column), column.length) = <<MaxUnits>>
        BY <4>1, <4>2 DEF CharLength
      <4>4. QED BY <4>3
    <3>3. QED BY <1>7, <3>1, <3>2
  <2>5. QED BY <1>4, <2>2, <2>3, <2>4
<1>8. QED BY <1>4, <1>6, <1>7

\* What was sent keeps its room, and its column its length.
LEMMA RoomKept == ASSUME VInv, RoomInv, [Next]_vars PROVE RoomInv'
<1>1. ASSUME UNCHANGED <<params, unicode, metadata>>, phase' # "bound" => phase # "bound"
      PROVE  RoomInv'
  <2>1. Sent(1)' = Sent(1) /\ \A i : Sent(i)' = Sent(i)
    BY <1>1 DEF Sent
  <2>2. QED BY <1>1, <2>1 DEF RoomInv
<1>2. CASE Bind \/ Rebind
  <2>1. phase' = "bound"
    BY <1>2 DEF Bind, Rebind
  <2>2. QED BY <2>1 DEF RoomInv
<1>3. CASE Send
  <2>1. /\ phase = "bound" /\ \A i \in DOMAIN params : HasRoom(params[i])
        /\ params' = params /\ unicode' = unicode
    BY <1>3 DEF Send
  <2>2. PICK names \in [DOMAIN params -> Columns_] :
          metadata' = [i \in DOMAIN params |->
                         Named(names[i], EchoColumn(EncodeStringParameters(params[i], unicode)))]
    BY <1>3 DEF Send
  <2>3. ASSUME NEW i \in DOMAIN params
        PROVE  metadata'[i].length = EchoColumn(Sent(i)).length /\ Sent(i)' = Sent(i)
    <3>1. metadata'[i] = Named(names[i], EchoColumn(Sent(i)))
      BY <2>2 DEF Sent
    <3>2. metadata'[i].length = EchoColumn(Sent(i)).length
      BY <3>1 DEF Named
    <3>3. QED BY <2>1, <3>2 DEF Sent
  <2>4. QED BY <2>1, <2>3 DEF RoomInv
<1>4. CASE Configure \/ Login \/ Select \/ FromSchema
  <2>1. params = <<>>
    <3>1. CASE Configure \/ Login \/ Select
      <4>1. phase \in {"config", "ready"}
        BY <3>1 DEF Configure, Login, Select
      <4>2. QED BY <4>1 DEF VInv, PathInv
    <3>2. CASE FromSchema
      BY <3>2 DEF FromSchema
    <3>3. QED BY <1>4, <3>1, <3>2
  <2>2. params' = params
    BY <1>4 DEF Configure, Login, Select, FromSchema
  <2>3. QED BY <2>1, <2>2 DEF RoomInv
<1>5. CASE WriteColumn \/ TakeRow \/ StartVisit
  BY <1>1, <1>5 DEF WriteColumn, TakeRow, StartVisit, rowVars
<1>6. CASE NextKey \/ NextValue \/ NextElement
  <2>1. UNCHANGED <<params, unicode, metadata>> /\ phase = "visiting"
    BY <1>6 DEF NextKey, NextValue, NextElement, Visiting, rowVars
  <2>2. QED BY <1>1, <2>1
<1>7. CASE UNCHANGED vars
  BY <1>1, <1>7 DEF vars, rowVars
<1>8. QED BY <1>2, <1>3, <1>4, <1>5, <1>6, <1>7 DEF Next

LEMMA AlwaysRoom == Spec => []RoomInv
<1>1. Init => RoomInv
  BY DEF Init, RoomInv
<1>2. VInv /\ RoomInv /\ [Next]_vars => RoomInv'
  BY RoomKept
<1>3. QED BY <1>1, <1>2, PathInvariance, PTL DEF Spec

LEMMA EchoFound == ASSUME VInv, RoomInv PROVE EchoReadsBack
<1> DEFINE value == BoundValue
           Expect(t) == IF IsNone(value) THEN None
                        ELSE IF t = "Json" THEN <<t>> \o ParseJson[Payload(value)[2]] ELSE value
           cell == values[1]
<1> SUFFICES ASSUME phase = "row", bound # <<>>, Len(values) = 1, Len(metadata) = 1,
                    ~JsonLost(value), ~RefusedVector(value)
             PROVE  /\ Kind(value) \in NativeTypes => TryGetIndex(Kind(value), 1) = Expect(Kind(value))
                    /\ Kind(value) \in CompatTypes => TryGetCompat(Kind(value), 1) = Expect(Kind(value))
                    /\ IsNone(value) => DeserializeOption("any", cell, Decoded(1)) = None
                    /\ Kind(cell) = "String" /\ metadata[1].length # MaxLength =>
                         Len(Payload(cell)) <= CharLength(metadata[1].type, metadata[1].length)[1]
  BY DEF EchoReadsBack, AtRow
<1>1. PICK api \in Apis : \E type \in Binds(api) : \E v \in RustValues(type) :
        bound = <<api, v>> /\ params = <<Bound(api, v)>> /\ source = <<>>
  BY DEF VInv, BoundInv
<1>2. PICK type \in Binds(api) : \E v \in RustValues(type) :
        bound = <<api, v>> /\ params = <<Bound(api, v)>> /\ source = <<>>
  BY <1>1
<1>3. value \in RustValues(type) /\ params = <<Bound(api, value)>>
  BY <1>2 DEF BoundValue
<1> HIDE DEF value
<1>4. /\ unicode \in BOOLEAN /\ RowTyped(metadata, values, decoded) /\ IsTuple(params)
      /\ ParamLike(params[1])
  <2>1. params[1] = Bound(api, value) /\ 1 \in DOMAIN params
    BY <1>3
  <2>2. QED BY <2>1 DEF VInv, PathInv
<1>5. /\ 1 \in DOMAIN values /\ 1 \in DOMAIN decoded /\ 1 \in DOMAIN metadata
      /\ decoded[1] = DecodedOf(cell)
  <2>1. DOMAIN values = 1..1 /\ DOMAIN metadata = 1..1
    BY <1>4, TupleIs DEF RowTyped
  <2>2. QED BY <1>4, <2>1 DEF RowTyped
<1>6. /\ metadata[1].type = ColumnTypeOf(EchoColumn(Sent(1))) /\ cell = EchoCell(Sent(1))
      /\ HasRoom(params[1]) /\ metadata[1].length = EchoColumn(Sent(1)).length
      /\ Sent(1) = EncodeStringParameters(Bound(api, value), unicode)
  <2>1. params # <<>> /\ 1 \in DOMAIN params /\ params[1] = Bound(api, value)
    BY <1>3
  <2>2. Sent(1) = EncodeStringParameters(Bound(api, value), unicode)
    BY <2>1 DEF Sent
  <2>3. QED BY <1>5, <2>1, <2>2 DEF VInv, EchoInv, RoomInv
<1>7. ASSUME NEW t
      PROVE  /\ TryGetIndex(t, 1) = FromSql(t, cell, DecodedOf(cell))
             /\ TryGetCompat(t, 1) = FromColumnData(t, ColumnDataRef(cell, DecodedOf(cell), metadata[1].type))
             /\ Decoded(1) = DecodedOf(cell)
  <2>1. CompatValues[1] = ColumnDataRef(cell, DecodedOf(cell), metadata[1].type) /\ 1 \in DOMAIN CompatValues
    BY <1>5 DEF CompatValues
  <2>2. QED BY <1>5, <2>1 DEF TryGetIndex, TryGetAt, TryGetCompat, Decoded
<1>8. Kind(cell) = "String" /\ metadata[1].length # MaxLength =>
        Len(Payload(cell)) <= CharLength(metadata[1].type, metadata[1].length)[1]
  <2>1. Sent(1) = EncodeStringParameters(params[1], unicode)
    BY DEF Sent
  <2> HIDE DEF cell
  <2>2. QED BY <1>4, <1>6, <2>1, TextFits
<1> HIDE DEF cell
<1>9. CASE value = <<type>>
  <2>1. Kind(value) = type /\ IsNone(value) = TRUE
    BY <1>9, Tuples
  <2>2. type # "VectorValue"
    BY <1>3, <1>9, RustIs DEF RustValues
  <2>3. PICK k \in {DataKindOf(type)} \cup (IF type = "Json" THEN {"Json"} ELSE {}) :
          Bound(api, value) = <<NullAs(k)>>
    BY <1>9, <2>2, NullSent
  <2>4. k \in DataKinds \ {"SmallDateTime"}
    <3>1. type \in DOMAIN CellKindOf
      BY DEF Binds, BoundTypes, SqlOf, CellKindOf, Apis
    <3>2. QED BY <2>2, <2>3, <3>1, DataKindsOf DEF DataKinds
  <2>5. cell = Null /\ NullColumnData(metadata[1].type) = <<k>>
    BY <1>4, <1>6, <2>3, <2>4, NullEchoed
  <2>6. DecodedOf(cell) = <<>> /\ ColumnDataRef(cell, <<>>, metadata[1].type) = <<k>>
    <3>1. DecodedOf(cell) = <<>> /\ Kind(cell) = "Null"
      BY <2>5, NullIs
    <3>2. ColumnDataRef(cell, <<>>, metadata[1].type) = NullColumnData(metadata[1].type)
      BY <2>5, <3>1 DEF ColumnDataRef, DataOf, TextKinds
    <3>3. QED BY <2>5, <3>1, <3>2
  <2>7. type \in NativeTypes => TryGetIndex(type, 1) = None
    BY <1>7, <2>5, <2>6, NullRead
  <2>8. type \in CompatTypes => TryGetCompat(type, 1) = None
    BY <1>7, <2>3, <2>6, NullRead
  <2>9. DeserializeOption("any", cell, Decoded(1)) = None
    BY <2>5 DEF DeserializeOption
  <2>10. QED BY <1>8, <2>1, <2>7, <2>8, <2>9
<1>10. ASSUME NEW p \in PayloadsOf(type), value = <<type, p>>
       PROVE  /\ Kind(value) \in NativeTypes => TryGetIndex(Kind(value), 1) = Expect(Kind(value))
              /\ Kind(value) \in CompatTypes => TryGetCompat(Kind(value), 1) = Expect(Kind(value))
              /\ IsNone(value) = FALSE
  <2>1. Kind(value) = type /\ IsNone(value) = FALSE /\ Payload(value) = p
    BY <1>10, Tuples
  <2>2. Kept(type, p)
    BY <1>10, <2>1 DEF JsonLost, RefusedVector, Kept
  <2>3. Expect(type) = Expected(type, p)
    BY <1>10, <2>1 DEF Expected
  <2> DEFINE q == Carried(type, p)
  <2>4. cell = <<CellKindOf[type], q>>
    BY <1>4, <1>6, <1>10, <2>2, ValueEchoed
  <2>5. CellKindOf[type] \in CellKinds
    BY DEF Binds, BoundTypes, SqlOf, CellKindOf, Apis, CellKinds
  <2>6. DecodedOf(cell) = IF CellKindOf[type] \in TextKinds THEN <<q>> ELSE <<>>
    <3> DEFINE k == CellKindOf[type]
    <3> HIDE DEF q, k
    <3>1. Kind(cell) = k /\ Payload(cell) = q
      BY <2>4, Tuples DEF k
    <3>2. QED BY <3>1 DEF DecodedOf, k
  <2>7. type \in NativeTypes => TryGetIndex(type, 1) = Expected(type, p)
    <3>1. type = "str" => DecodedOf(cell) = <<p>>
      BY <2>6 DEF CellKindOf, TextKinds, Carried
    <3>2. QED BY <1>7, <2>2, <2>4, <3>1, ValueRead
  <2>8. type \in CompatTypes => TryGetCompat(type, 1) = Expected(type, p)
    <3>1. type \in CompatTypes => type \in DOMAIN CellKindOf \ {"VectorValue"}
      BY DEF CompatTypes, Exact, CellKindOf
    <3> HIDE DEF q
    <3>2. type \in CompatTypes =>
            ColumnDataRef(cell, DecodedOf(cell), metadata[1].type) = <<DataKindOf(type), q>>
      BY <2>4, <2>6, <3>1, DataOfCell
    <3>3. QED BY <1>7, <2>2, <3>2, DataRead DEF q
  <2>9. QED BY <2>1, <2>3, <2>7, <2>8
<1>11. QED BY <1>3, <1>8, <1>9, <1>10, RustIs

\* A value that is bound through any of the APIs (query.rs, conversion.rs), under
\* either encoding of strings, reads back from the echoed row as itself by every
\* reader that knows its type, and a None as None of its own type.
THEOREM ValuesReadBack == Spec => []EchoReadsBack
<1>1. VInv /\ RoomInv => EchoReadsBack
  BY EchoFound
<1>2. QED BY <1>1, PathInvariance, AlwaysRoom, PTL

-----------------------------------------------------------------------------
(* Numbers stay those of their variants *)

LEMMA SoundTuple ==
  ASSUME NEW k, NEW p
  PROVE  /\ Sound(<<k>>)
         /\ Sound(<<k, p>>) <=> CanHold(k, p)
<1>1. IsNone(<<k>>) = TRUE /\ IsNone(<<k, p>>) = FALSE
  BY Tuples
<1>2. <<k, p>>[1] = k /\ <<k, p>>[2] = p
  OBVIOUS
<1>3. QED BY <1>1, <1>2 DEF Sound

Measured == Integers \cup {"Real", "Float", "Decimal", "Numeric", "Money", "SmallMoney"}

\* The other variants can hold anything, and a Numeric what a Decimal can.
LEMMA HeldAs ==
  ASSUME NEW j, NEW k, NEW p, CanHold(k, p),
         j = k \/ j \notin Measured \/ {j, k} \subseteq {"Decimal", "Numeric"}
  PROVE  CanHold(j, p)
BY Zenon DEF CanHold, Measured, Integers

LEMMA AnyHeld == \A k, p : k \notin Measured => CanHold(k, p)
BY DEF CanHold, Measured

LEMMA IntHeld ==
  ASSUME NEW k \in Integers, NEW p \in Int, Fits(WidthOf[k], p)
  PROVE  CanHold(k, p)
BY DEF CanHold, Integers

LEMMA FloatHeld ==
  /\ \A p \in PayloadsIn("f32") : CanHold("Real", p)
  /\ \A p \in PayloadsIn("f64") : CanHold("Float", p)
BY DEF CanHold, Integers

LEMMA DecimalHeld ==
  ASSUME NEW k \in {"Decimal", "Numeric"}, NEW d, d[1] \in Int, d[2] \in 0..MaxDigits
  PROVE  CanHold(k, d)
BY DEF CanHold, Integers

LEMMA PartsHeld ==
  ASSUME NEW k \in {"Decimal", "Numeric"}, NEW d \in Parts
  PROVE  CanHold(k, d)
<1>1. d[1] \in Mantissas /\ d[2] \in Scales
  BY DEF Parts
<1>2. d[1] \in Int /\ d[2] \in 0..MaxDigits
  BY <1>1, SqlValuesAssumption
<1>3. QED BY <1>2, DecimalHeld

LEMMA CellsSound ==
  ASSUME NEW c \in Cells \cup {Null}
  PROVE  Sound(c)
<1>1. CASE c = Null
  BY <1>1, SoundTuple DEF Null
<1>2. ASSUME NEW k, NEW p, c = <<k, p>>, CanHold(k, p) PROVE Sound(c)
  BY <1>2, SoundTuple
<1>3. ASSUME NEW k \in Integers, NEW p \in IntsOf(WidthOf[k]) PROVE CanHold(k, p)
  <2>1. p \in Int /\ Fits(WidthOf[k], p)
    BY SqlValuesAssumption DEF IntsOf
  <2>2. QED BY <2>1, IntHeld
<1>4. CASE c \in Cells
  <2>1. \/ \E b \in BOOLEAN : c = <<"Bit", b>>
        \/ \E n \in IntsOf("u8") : c = <<"TinyInt", n>>
        \/ \E n \in IntsOf("i16") : c = <<"SmallInt", n>>
        \/ \E n \in IntsOf("i32") : c = <<"Int", n>>
        \/ \E n \in IntsOf("i64") : c = <<"BigInt", n>>
        \/ \E p \in PayloadsIn("f32") : c = <<"Real", p>>
        \/ \E p \in PayloadsIn("f64") : c = <<"Float", p>>
        \/ \E kind \in {"Decimal", "Numeric"} : \E d \in Parts : c = <<kind, d>>
        \/ \E high \in Halves : \E low \in Halves : c = <<"Money", <<high, low>>>>
        \/ \E n \in IntsOf("i32") : c = <<"SmallMoney", n>>
        \/ \E kind \in TextKinds : \E t \in Texts : c = <<kind, t>>
        \/ c = <<"Bytes", "bytes">> \/ c = <<"Uuid", "uuid">> \/ c = <<"Vector", "vector">>
        \/ \E kind \in Temporals : c = <<kind, "time">>
    BY <1>4 DEF Cells
  <2>2. \/ \E k \in Integers : \E p \in IntsOf(WidthOf[k]) : c = <<k, p>>
        \/ \E p \in PayloadsIn("f32") : c = <<"Real", p>>
        \/ \E p \in PayloadsIn("f64") : c = <<"Float", p>>
        \/ \E k \in {"Decimal", "Numeric"} : \E d \in Parts : c = <<k, d>>
        \/ \E high \in Halves : \E low \in Halves : c = <<"Money", <<high, low>>>>
        \/ \E n \in IntsOf("i32") : c = <<"SmallMoney", n>>
        \/ \E k, p : c = <<k, p>> /\ k \notin Measured
    BY <2>1 DEF Integers, WidthOf, TextKinds, Temporals, Measured
  <2>3. ASSUME NEW high \in Halves, NEW low \in Halves PROVE CanHold("Money", <<high, low>>)
    <3>1. high \in Int /\ low \in -HalfRange..(HalfRange - 1)
      BY SqlValuesAssumption DEF HalfRange
    <3>2. QED BY <3>1 DEF CanHold, Integers
  <2>4. ASSUME NEW n \in IntsOf("i32") PROVE CanHold("SmallMoney", n)
    <3>1. n \in Int /\ n * 10^FloatScale \in Floats["f64"]
      BY SqlValuesAssumption, FloatsAssumption DEF IntsOf
    <3>2. QED BY <3>1 DEF CanHold, Integers
  <2>5. QED BY <1>2, <1>3, <2>2, <2>3, <2>4, FloatHeld, PartsHeld, AnyHeld
<1>5. QED BY <1>1, <1>4

\* A parameter is one that was bound as that number.
LEMMA ToSqlSound ==
  ASSUME NEW type \in BoundTypes, NEW value \in RustValues(type)
  PROVE  Sound(ToSql(value))
<1>1. CASE value = <<type>>
  <2>1. Kind(value) = type /\ IsNone(value) = TRUE
    BY <1>1, Tuples
  <2>2. \E k : ToSql(value) = <<k>>
    BY <2>1 DEF ToSql, TypedNull
  <2>3. QED BY <2>2, SoundTuple
<1>2. ASSUME NEW p \in PayloadsOf(type), value = <<type, p>> PROVE Sound(ToSql(value))
  <2>1. Kind(value) = type /\ IsNone(value) = FALSE /\ Payload(value) = p
    BY <1>2, Tuples
  <2>2. CASE type = "Json"
    <3>1. ToSql(value) = JsonToSql(p) /\ p \in Json
      BY <2>1, <2>2 DEF ToSql, PayloadsOf, IntTypes, Bits
    <3>2. CASE p[1] = "number"
      <4>1. p[2] \in Int /\ p[2] \in Ints
        BY <3>1, <3>2, SqlValuesAssumption DEF Json
      <4>2. JsonToSql(p) = IF Fits("i64", p[2]) THEN <<"BigInt", p[2]>>
                           ELSE <<"Float", CastInt("f64", p[2])>>
        BY <3>2 DEF JsonToSql
      <4>3. WidthOf["BigInt"] = "i64" /\ "BigInt" \in Integers
        BY DEF WidthOf, Integers
      <4>4. Fits("i64", p[2]) => Sound(<<"BigInt", p[2]>>)
        BY <4>1, <4>3, SoundTuple, IntHeld
      <4>5. Sound(<<"Float", CastInt("f64", p[2])>>)
        BY <4>1, IntCast, SoundTuple, FloatHeld
      <4>6. QED BY <3>1, <4>2, <4>4, <4>5
    <3>3. CASE p[1] # "number"
      <4>1. \/ JsonToSql(p) = <<"NVarchar">>
            \/ \E k \in {"Bit", "NVarchar"} : \E x : JsonToSql(p) = <<k, x>>
        BY <3>1, <3>3 DEF Json, JsonToSql
      <4>2. "Bit" \notin Measured /\ "NVarchar" \notin Measured
        BY DEF Measured, Integers
      <4>3. QED BY <3>1, <4>1, <4>2, SoundTuple, AnyHeld
    <3>4. QED BY <3>2, <3>3
  <2>3. CASE type = "Decimal"
    <3>1. ToSql(value) = DecimalToSql(p)
      BY <2>1, <2>3 DEF ToSql
    <3>2. p[1] \in Int /\ p[2] \in 0..MaxDigits
      BY <2>3, SqlValuesAssumption DEF PayloadsOf, IntTypes, Bits
    <3>3. DecimalToSql(p) = <<"Numeric", <<p[1], p[2], Precision(p)>>>>
      BY <2>3, DecimalCarried DEF Carried
    <3>4. CanHold("Numeric", <<p[1], p[2], Precision(p)>>)
      BY <3>2, DecimalHeld
    <3>5. QED BY <3>1, <3>3, <3>4, SoundTuple
  <2>4. CASE type = "VectorValue"
    <3>1. ToSql(value) = VectorToSql(p) /\ "Vector" \notin Measured
      BY <2>1, <2>4 DEF ToSql, Measured, Integers
    <3>2. QED BY <3>1, SoundTuple, AnyHeld DEF VectorToSql
  <2>5. CASE type \in DOMAIN SqlOf
    <3>1. type \notin {"Json", "Decimal", "VectorValue"}
      BY <2>5 DEF SqlOf
    <3>2. ToSql(value) = <<SqlOf[type], p>>
      BY <2>1, <3>1 DEF ToSql
    <3>3. CASE SqlOf[type] \in Integers
      <4>1. type \in {"u8", "i16", "i32", "i64"} /\ WidthOf[SqlOf[type]] = type
        BY <2>5, <3>3 DEF SqlOf, Integers, WidthOf
      <4>2. p \in IntsOf(type)
        BY <4>1 DEF PayloadsOf, IntTypes, Bits
      <4>3. p \in Int /\ Fits(type, p)
        BY <4>2, SqlValuesAssumption DEF IntsOf
      <4>4. QED BY <3>2, <3>3, <4>1, <4>3, SoundTuple, IntHeld
    <3>4. CASE SqlOf[type] \in {"Real", "Float"}
      <4>1. SqlOf[type] = (IF type = "f32" THEN "Real" ELSE "Float") /\ type \in {"f32", "f64"}
        BY <2>5, <3>4 DEF SqlOf
      <4>2. p \in PayloadsIn(type)
        BY <4>1 DEF PayloadsOf, IntTypes, Bits
      <4>3. CanHold(SqlOf[type], p)
        BY <4>1, <4>2, FloatHeld
      <4>4. QED BY <3>2, <4>3, SoundTuple
    <3>5. SqlOf[type] \in Measured => SqlOf[type] \in Integers \cup {"Real", "Float"}
      BY <2>5 DEF SqlOf, Measured, Integers
    <3>6. QED BY <3>2, <3>3, <3>4, <3>5, SoundTuple, AnyHeld
  <2>6. QED BY <2>2, <2>3, <2>4, <2>5 DEF BoundTypes
<1>3. QED BY <1>1, <1>2, RustIs

\* Through ColumnData and back a number keeps its variant, or is a Numeric.
LEMMA DataSound ==
  ASSUME NEW x, ParamLike(x), x[1] \in ToSqlKinds, Sound(x)
  PROVE  Sound(DataToSql(FromNativeValue(x)))
<1> DEFINE k == x[1]
           p == x[2]
           n == FromNative[k]
           d == FromNativeValue(x)
<1>1. x = <<k>> \/ x = <<k, p>>
  BY DEF ParamLike
<1>2. k \in ToSqlKinds /\ Kind(x) = k
  BY DEF Kind
<1> HIDE DEF k, p
<1>3. CASE k = "Vector"
  <2>1. Kind(x) = "Vector"
    BY <1>2, <1>3
  <2>2. d = <<"Native", x>>
    BY <2>1 DEF FromNativeValue
  <2> HIDE DEF d
  <2>3. Kind(d) = "Native" /\ Payload(d) = x
    BY <2>2, Tuples
  <2>4. DataToSql(d) = x
    BY <2>3 DEF DataToSql, IntoNative
  <2>5. QED BY <2>4 DEF d
<1>4. CASE k # "Vector"
  <2>1. Kind(x) = k
    BY DEF Kind, k
  <2>2. d = Retag(FromNative, x)
    BY <1>4, <2>1 DEF FromNativeValue
  <2>3. \/ x = <<k>> /\ d = <<n>>
        \/ x = <<k, p>> /\ d = <<n, p>>
    <3>1. Retag(FromNative, <<k>>) = <<n>> /\ Retag(FromNative, <<k, p>>) = <<n, p>>
      BY Retagged
    <3> HIDE DEF n, d
    <3>2. x = <<k>> => d = <<n>>
      BY <2>2, <3>1, Zenon
    <3>3. x = <<k, p>> => d = <<n, p>>
      BY <2>2, <3>1, Zenon
    <3>4. QED BY <1>1, <3>2, <3>3
  <2> HIDE DEF d
  <2>4. n # "Native" /\ n \in DataKinds
    BY <1>2, <1>4 DEF ToSqlKinds, FromNative, DataKinds
  <2>5. CASE d = <<n>>
    <3>1. DataToSql(d) = <<NullAs(n)>>
      BY <2>4, <2>5, NullToSql
    <3>2. Sound(DataToSql(d))
      BY <3>1, SoundTuple
    <3>3. QED BY <3>2 DEF d
  <2>6. CASE x = <<k, p>> /\ d = <<n, p>>
    <3>1. Kind(d) = n /\ Payload(d) = p /\ IsNone(d) = FALSE
      BY <2>6, Tuples
    <3>2. Retag(IntoNative, d) = <<IntoNative[n], p>>
          /\ Retag([String |-> "NVarchar"], d) = <<[String |-> "NVarchar"][n], p>>
      BY <2>6, Retagged
    <3>3. \E j : DataToSql(d) = <<j, p>> /\ (j \in Measured => j = k)
      <4>1. CASE n = "String"
        <5>0. Retag([String |-> "NVarchar"], d) = <<"NVarchar", p>>
          BY <3>2, <4>1
        <5>1. DataToSql(d) \in {<<"NVarcharMax", p>>, <<"NVarchar", p>>}
          BY <3>1, <4>1, <5>0 DEF DataToSql, IntoNative
        <5>2. "NVarchar" \notin Measured /\ "NVarcharMax" \notin Measured
          BY DEF Measured, Integers
        <5>3. QED BY <5>1, <5>2
      <4>2. CASE n # "String" /\ n \in DOMAIN IntoNative
        <5>1. DataToSql(d) = <<IntoNative[n], p>>
          BY <2>4, <3>1, <3>2, <4>2 DEF DataToSql
        <5>2. IntoNative[n] \in Measured => IntoNative[n] = k
          BY <1>2, <1>4, <4>2 DEF ToSqlKinds, FromNative, IntoNative, Measured, Integers
        <5>3. QED BY <5>1, <5>2
      <4>3. CASE n # "String" /\ n \notin DOMAIN IntoNative
        <5>1. DataToSql(d) = <<n, p>>
          BY <2>4, <2>6, <3>1, <4>3 DEF DataToSql
        <5>2. n \in Measured => n = k
          BY <1>2, <1>4, <4>3 DEF ToSqlKinds, FromNative, IntoNative, Measured, Integers
        <5>3. QED BY <5>1, <5>2
      <4>4. QED BY <4>1, <4>2, <4>3
    <3>4. CanHold(k, p)
      BY <2>6, SoundTuple
    <3>5. Sound(DataToSql(d))
      BY <3>3, <3>4, SoundTuple, HeldAs
    <3>6. QED BY <3>5 DEF d
  <2>7. QED BY <2>3, <2>5, <2>6
<1>5. QED BY <1>3, <1>4

\* What a caller binds is a number of its variant.
LEMMA BoundSound ==
  ASSUME NEW api \in Apis, NEW type \in Binds(api), NEW value \in RustValues(type)
  PROVE  Sound(Bound(api, value))
<1>1. CASE value = <<type>>
  <2>1. type # "VectorValue"
    BY <1>1, RustIs DEF RustValues
  <2>2. \E k : Bound(api, <<type>>) = <<NullAs(k)>>
    BY <2>1, NullSent
  <2>3. QED BY <1>1, <2>2, SoundTuple
<1>2. ASSUME NEW p, value = <<type, p>>, type \in BoundTypes
      PROVE  Sound(DataToSql(FromNativeValue(ToSql(value)))) /\ Sound(ToSql(value))
  BY <1>2, ToSqlLike, ToSqlSound, DataSound
<1>3. ASSUME NEW p, value = <<type, p>> PROVE Sound(Bound(api, value))
  <2>1. Kind(value) = type /\ IsNone(value) = FALSE
    BY <1>3, Tuples
  <2>2. CASE api = "native"
    <3>1. type \in BoundTypes /\ Bound(api, value) = ToSql(value)
      BY <2>2 DEF Binds, Bound
    <3>2. QED BY <1>2, <1>3, <3>1
  <2>3. ASSUME NEW k \in {"String", "Binary", "Numeric", "Guid"}, CanHold(k, p)
        PROVE  Sound(DataToSql(<<k, p>>))
    <3>1. Kind(<<k, p>>) = k /\ IsNone(<<k, p>>) = FALSE /\ Payload(<<k, p>>) = p
      BY Tuples
    <3>2. /\ Retag(IntoNative, <<k, p>>) = <<IntoNative[k], p>>
          /\ Retag([String |-> "NVarchar"], <<k, p>>) = <<[String |-> "NVarchar"][k], p>>
      BY Retagged
    <3>3. k = "String" => DataToSql(<<k, p>>) \in {<<"NVarcharMax", p>>, <<"NVarchar", p>>}
      <4>1. k = "String" => Retag([String |-> "NVarchar"], <<k, p>>) = <<"NVarchar", p>>
        BY <3>2
      <4>2. QED BY <3>1, <4>1 DEF DataToSql, IntoNative
    <3>4. k \in {"Binary", "Guid"} => DataToSql(<<k, p>>) \in {<<"VarBinaryMax", p>>, <<"Uuid", p>>}
      <4>1. k \in {"Binary", "Guid"} => k \in DOMAIN IntoNative /\ IntoNative[k] \in {"VarBinaryMax", "Uuid"}
        BY DEF IntoNative
      <4>2. k \in {"Binary", "Guid"} => DataToSql(<<k, p>>) = <<IntoNative[k], p>>
        BY <3>1, <3>2, <4>1 DEF DataToSql
      <4>3. QED BY <4>1, <4>2
    <3>5. k = "Numeric" => DataToSql(<<k, p>>) = <<"Numeric", p>>
      BY <3>1 DEF DataToSql, IntoNative
    <3>6. Measured \cap {"NVarcharMax", "NVarchar", "VarBinaryMax", "Uuid"} = {}
      BY DEF Measured, Integers
    <3>7. \A q : q \notin Measured => Sound(<<q, p>>)
      BY SoundTuple, AnyHeld
    <3>8. k = "Numeric" => Sound(<<"Numeric", p>>)
      BY <2>3, SoundTuple
    <3>9. QED BY <3>3, <3>4, <3>5, <3>6, <3>7, <3>8
  <2>7. type = "DecimalParts" => CanHold("Numeric", p)
    <3>1. type = "DecimalParts" => p \in Parts
      BY <1>3, RustIs, Tuples DEF PayloadsOf, IntTypes, Bits
    <3>2. QED BY <3>1, PartsHeld
  <2>4. CASE api = "compat"
    <3>1. type \in BoundTypes \cup {"DecimalParts"} /\ Bound(api, value) = DataToSql(CompatToSql(value))
      BY <2>4 DEF Binds, Bound
    <3>2. CASE type = "DecimalParts"
      <4>1. Tail(value) = <<p>> /\ <<"Numeric">> \o <<p>> = <<"Numeric", p>>
        BY <1>3, Joined
      <4>2. CompatToSql(value) = <<"Numeric", p>>
        BY <2>1, <3>2, <4>1 DEF CompatToSql
      <4>3. QED BY <2>3, <2>7, <3>1, <3>2, <4>2
    <3>3. CASE type # "DecimalParts"
      <4>1. CompatToSql(value) = FromNativeValue(ToSql(value))
        BY <2>1, <3>3 DEF CompatToSql
      <4>2. QED BY <1>2, <1>3, <3>1, <3>3, <4>1
    <3>4. QED BY <3>2, <3>3
  <2>5. CASE api = "into"
    <3>1. /\ type \in (BoundTypes \ {"VectorValue"}) \cup {"DecimalParts"}
          /\ Bound(api, value) = DataToSql(IntoSql(value))
      BY <2>5 DEF Binds, Bound
    <3>2. CASE type \in DOMAIN IntoOther
      <4>1. IntoSql(value) = Retag(IntoOther, value)
        BY <2>1, <3>2 DEF IntoSql
      <4>2. IntoOther[type] \in {"String", "Binary", "Numeric", "Guid"}
        BY <3>2 DEF IntoOther
      <4>3. IntoSql(value) = <<IntoOther[type], p>>
        BY <1>3, <4>1, Retagged
      <4>4. CanHold(IntoOther[type], p)
        <5>1. IntoOther[type] \in Measured => type = "DecimalParts" /\ IntoOther[type] = "Numeric"
          BY <3>2 DEF IntoOther, Measured, Integers
        <5>2. QED BY <2>7, <5>1, AnyHeld
      <4>5. QED BY <2>3, <3>1, <4>2, <4>3, <4>4
    <3>3. CASE type \notin DOMAIN IntoOther
      <4>1. IntoSql(value) = FromNativeValue(ToSql(value))
        BY <2>1, <3>3 DEF IntoSql
      <4>2. type \in BoundTypes
        BY <3>1, <3>3 DEF IntoOther
      <4>3. QED BY <1>2, <1>3, <3>1, <4>1, <4>2
    <3>4. QED BY <3>2, <3>3
  <2>6. QED BY <2>2, <2>4, <2>5 DEF Apis
<1>4. QED BY <1>1, <1>3, RustIs

\* The server keeps a number as it was sent.
LEMMA EchoSound ==
  ASSUME NEW x, ParamLike(x), Sound(x), NEW u \in BOOLEAN
  PROVE  Sound(EchoCell(EncodeStringParameters(x, u)))
<1> DEFINE k == x[1]
           p == x[2]
<1>1. x = <<k>> \/ x = <<k, p>>
  BY DEF ParamLike
<1> HIDE DEF k, p
<1>2. CASE x = <<k>>
  <2>1. EchoCell(EncodeStringParameters(x, u)) = <<"Null">>
    BY <1>2, EchoNull DEF Null
  <2>2. QED BY <2>1, SoundTuple
<1>3. CASE x = <<k, p>>
  <2> DEFINE sk == IF ~u /\ k \in DOMAIN NonUnicode THEN NonUnicode[k] ELSE k
             back == IF sk \in DOMAIN EchoKind THEN EchoKind[sk] ELSE sk
  <2>1. EchoCell(EncodeStringParameters(x, u)) = <<back, p>>
    <3> DEFINE s == EncodeStringParameters(<<k, p>>, u)
    <3>1. /\ s = <<s[1], p>> /\ s[1] = sk
          /\ EchoCell(s) = IF s[1] \in DOMAIN EchoKind THEN <<EchoKind[s[1]], p>> ELSE s
      BY EchoIs
    <3> HIDE DEF s, sk
    <3>2. EchoCell(s) = <<back, p>>
      BY <3>1
    <3>3. QED BY <1>3, <3>2 DEF s
  <2>2. back \in Measured => back = k
    BY DEF Measured, Integers, EchoKind, NonUnicode
  <2> HIDE DEF back
  <2>3. CanHold(k, p)
    BY <1>3, SoundTuple
  <2>4. QED BY <2>1, <2>2, <2>3, SoundTuple, HeldAs
<1>4. QED BY <1>1, <1>2, <1>3

\* A cell that is bound again is the number it was.
LEMMA ReboundSound ==
  ASSUME NEW c, CellLike(c), Sound(c), NEW ty \in ColumnTypes
  PROVE  Sound(DataToSql(ColumnDataRef(c, DecodedOf(c), ty)))
<1>1. CASE c = Null
  <2>1. ColumnDataRef(c, DecodedOf(c), ty) = NullColumnData(ty)
    BY <1>1, NullIs DEF ColumnDataRef, TextKinds, DataOf
  <2>2. \E k : DataToSql(NullColumnData(ty)) = <<NullAs(k)>>
    BY NullData, NullToSql
  <2>3. QED BY <2>1, <2>2, SoundTuple
<1>2. CASE c # Null
  <2> DEFINE k == c[1]
             p == c[2]
             ds == DecodedOf(c)
  <2>1. c = <<k, p>> /\ k \in CellKinds /\ ds = IF k \in TextKinds THEN <<p>> ELSE <<>>
    BY <1>2, CellIs
  <2> HIDE DEF k, p, ds
  <2>2. PICK kind \in BindsAs(k) : DataToSql(ColumnDataRef(<<k, p>>, ds, ty)) = <<kind, p>>
    BY <2>1, CellBoundAs
  <2>3. kind \in Measured => kind = k \/ {kind, k} \subseteq {"Decimal", "Numeric"}
    BY DEF BindsAs, Measured, Integers
  <2>4. CanHold(k, p)
    BY <2>1, SoundTuple
  <2>5. Sound(<<kind, p>>)
    BY <2>3, <2>4, SoundTuple, HeldAs
  <2>6. QED BY <2>1, <2>2, <2>5 DEF ds
<1>3. QED BY <1>1, <1>2

\* No step takes a number out of the range of its variant.
LEMMA NumbersKept == ASSUME VInv, NumbersInv, [Next]_vars PROVE NumbersInv'
<1>1. /\ RowTyped(metadata, values, decoded) /\ unicode \in BOOLEAN
      /\ IsTuple(wire) /\ \A i \in DOMAIN wire : CellLike(wire[i])
      /\ IsTuple(params) /\ \A i \in DOMAIN params : ParamLike(params[i])
      /\ IsTuple(metadata) /\ \A i \in DOMAIN metadata : metadata[i].type \in ColumnTypes
      /\ IsTuple(values) /\ DOMAIN decoded = DOMAIN values
      /\ \A i \in DOMAIN values : CellLike(values[i]) /\ decoded[i] = DecodedOf(values[i])
  BY DEF VInv, PathInv, RowTyped
<1>2. AllSound(<<>>)
  BY NoTuple DEF AllSound
<1>3. ASSUME UNCHANGED <<params, wire, values>> PROVE NumbersInv'
  BY <1>3 DEF NumbersInv, AllSound
<1>4. CASE Bind
  <2>1. UNCHANGED <<wire, values>>
    BY <1>4 DEF Bind, rowVars
  <2>2. PICK api \in Apis : \E type \in Binds(api) : \E value \in RustValues(type) :
          params' = <<Bound(api, value)>>
    BY <1>4 DEF Bind
  <2>3. PICK x : params' = <<x>> /\ Sound(x)
    BY <2>2, BoundSound
  <2>4. AllSound(params')
    BY <2>3, OneTuple DEF AllSound
  <2>5. QED BY <2>1, <2>4 DEF NumbersInv
<1>5. CASE Send
  <2>1. /\ UNCHANGED <<params, values>>
        /\ wire' = [i \in DOMAIN params |-> EchoCell(EncodeStringParameters(params[i], unicode))]
    BY <1>5 DEF Send
  <2>2. ASSUME NEW i \in DOMAIN params PROVE Sound(wire'[i])
    <3>1. ParamLike(params[i]) /\ Sound(params[i])
      BY <1>1 DEF NumbersInv, AllSound
    <3>2. wire'[i] = EchoCell(EncodeStringParameters(params[i], unicode))
      BY <2>1
    <3>3. QED BY <1>1, <3>1, <3>2, EchoSound
  <2>3. AllSound(wire')
    BY <2>1, <2>2 DEF AllSound
  <2>4. QED BY <2>1, <2>3 DEF NumbersInv
<1>6. CASE Select
  <2>1. UNCHANGED <<params, values>>
    BY <1>6 DEF Select
  <2>2. \E column \in Elsewhere : \E cell \in CellsOf(column) :
          wire' = <<cell>> \/ \E other \in Beside : wire' = <<cell, other[2]>>
    BY <1>6 DEF Select
  <2>3. PICK cell \in Cells \cup {Null} :
          wire' = <<cell>> \/ \E other \in Beside : wire' = <<cell, other[2]>>
    BY <2>2 DEF CellsOf
  <2>4. Sound(cell) /\ \A other \in Beside : Sound(other[2])
    BY CellsSound, ValuePathAssumption
  <2>5. ASSUME wire' = <<cell>> PROVE AllSound(wire')
    BY <2>4, <2>5, OneTuple DEF AllSound
  <2>6. ASSUME NEW e, wire' = <<cell, e>>, Sound(e) PROVE AllSound(wire')
    <3>1. DOMAIN <<cell, e>> = {1, 2} /\ <<cell, e>>[1] = cell /\ <<cell, e>>[2] = e
      BY TwoTuple
    <3>2. QED BY <2>4, <2>6, <3>1 DEF AllSound
  <2>7. AllSound(wire')
    BY <2>3, <2>4, <2>5, <2>6
  <2>8. QED BY <2>1, <2>7 DEF NumbersInv
<1>7. CASE WriteColumn
  <2>1. /\ UNCHANGED params /\ wire # <<>> /\ wire' = Tail(wire)
        /\ values' = Append(values, Head(wire))
    BY <1>7 DEF WriteColumn
  <2>2. /\ Head(wire) = wire[1] /\ 1 \in DOMAIN wire
        /\ \A i \in DOMAIN wire' : i + 1 \in DOMAIN wire /\ wire'[i] = wire[i + 1]
    BY <1>1, <2>1, TupleTail
  <2>3. AllSound(wire') /\ Sound(wire[1])
    BY <2>2 DEF NumbersInv, AllSound
  <2>4. /\ DOMAIN values' = 1..(Len(values) + 1) /\ values'[Len(values) + 1] = wire[1]
        /\ \A i \in DOMAIN values : values'[i] = values[i]
        /\ DOMAIN values = 1..Len(values) /\ Len(values) \in Nat
    BY <1>1, <2>1, <2>2, TupleAppend, TupleIs
  <2>5. AllSound(values')
    <3>1. ASSUME NEW i \in DOMAIN values' PROVE Sound(values'[i])
      <4>1. i \in DOMAIN values \/ i = Len(values) + 1
        BY <2>4
      <4>2. QED BY <2>3, <2>4, <4>1 DEF NumbersInv, AllSound
    <3>2. QED BY <3>1 DEF AllSound
  <2>6. QED BY <2>1, <2>3, <2>5 DEF NumbersInv, AllSound
<1>8. CASE FromSchema
  <2>1. /\ UNCHANGED params /\ wire' = <<>>
        /\ values' = wire \/ values' = SubSeq(wire, 1, Len(wire) - 1)
    BY <1>8 DEF FromSchema
  <2>2. LET f == SubSeq(wire, 1, Len(wire) - 1)
        IN DOMAIN f \subseteq DOMAIN wire /\ \A i \in DOMAIN f : f[i] = wire[i]
    BY <1>1, TupleFront
  <2>3. AllSound(values')
    BY <2>1, <2>2 DEF NumbersInv, AllSound
  <2>4. QED BY <1>2, <2>1, <2>3 DEF NumbersInv
<1>9. CASE Rebind
  <2>1. /\ wire' = wire /\ values' = <<>>
        /\ params' = [i \in DOMAIN CompatValues |-> DataToSql(CompatValues[i])]
    BY <1>9 DEF Rebind
  <2>2. ASSUME NEW i \in DOMAIN CompatValues PROVE Sound(params'[i])
    <3> DEFINE ty == IF i \in DOMAIN metadata THEN metadata[i].type ELSE "Null"
    <3>1. i \in DOMAIN values /\ CompatValues[i] = ColumnDataRef(values[i], decoded[i], ty)
      BY DEF CompatValues
    <3>2. ty \in ColumnTypes
      BY <1>1 DEF ColumnTypes
    <3> HIDE DEF ty
    <3>3. CellLike(values[i]) /\ Sound(values[i]) /\ decoded[i] = DecodedOf(values[i])
      BY <1>1, <3>1 DEF NumbersInv, AllSound
    <3>4. params'[i] = DataToSql(ColumnDataRef(values[i], DecodedOf(values[i]), ty))
      BY <2>1, <3>1, <3>3
    <3>5. QED BY <3>2, <3>3, <3>4, ReboundSound
  <2>3. AllSound(params')
    BY <2>1, <2>2 DEF AllSound
  <2>4. QED BY <1>2, <2>1, <2>3 DEF NumbersInv, AllSound
<1>10. CASE Configure \/ Login \/ TakeRow \/ StartVisit
  BY <1>3, <1>10 DEF Configure, Login, TakeRow, StartVisit, rowVars
<1>11. CASE NextKey \/ NextValue \/ NextElement
  <2>1. UNCHANGED <<params, rowVars>>
    BY <1>11 DEF NextKey, NextValue, NextElement, Visiting
  <2>2. QED BY <1>3, <2>1 DEF rowVars
<1>12. CASE UNCHANGED vars
  BY <1>3, <1>12 DEF vars, rowVars
<1>13. QED BY <1>4, <1>5, <1>6, <1>7, <1>8, <1>9, <1>10, <1>11, <1>12 DEF Next

-----------------------------------------------------------------------------
(* The cells of a column *)

\* The typed NULL of a column is what a cell of that column becomes.
LEMMA NullOfColumn ==
  ASSUME NEW meta, NEW k \in KindsHeld(meta.tds, meta.length)
  PROVE  NullFits(ColumnTypeOf(meta), k)
<1> DEFINE tds == meta.tds
           length == meta.length
           type == ColumnTypeOf(meta)
           dk == IF k \in DOMAIN DataOf THEN DataOf[k] ELSE k
<1>1. CASE tds \notin DOMAIN HeldBy
  <2>1. PICK h \in HeldBySize : h[1] = tds /\ h[2] = length /\ h[3] = k
    BY <1>1 DEF KindsHeld
  <2>2. type = SizedType(tds, length)
    BY <1>1 DEF ColumnTypeOf, HeldBy
  <2>3. \/ tds = "IntN" /\ length = 1 /\ k = "TinyInt" /\ type = "Int1"
        \/ tds = "IntN" /\ length = 2 /\ k = "SmallInt" /\ type = "Int2"
        \/ tds = "IntN" /\ length = 4 /\ k = "Int" /\ type = "Int4"
        \/ tds = "IntN" /\ length = 8 /\ k = "BigInt" /\ type = "Int8"
        \/ tds = "FltN" /\ length = 4 /\ k = "Real" /\ type = "Float4"
        \/ tds = "FltN" /\ length = 8 /\ k = "Float" /\ type = "Float8"
        \/ tds = "MoneyN" /\ length = 4 /\ k = "SmallMoney" /\ type = "Money4"
        \/ tds = "MoneyN" /\ length = 8 /\ k = "Money" /\ type = "Money"
        \/ tds = "DateTimeN" /\ k = "SmallDateTime" /\ type = "Datetime"
        \/ tds = "DateTimeN" /\ k = "DateTime" /\ type = "Datetime"
    BY <2>1, <2>2 DEF HeldBySize, SizedType, PlainType, TypeOf
  <2>4. NullColumnData(type) = <<dk>> \/ (NullColumnData(type) = <<"DateTime">> /\ k = "SmallDateTime")
    <3> HIDE DEF tds, length, type
    <3>1. QED BY <2>3 DEF NullColumnData, DataOf
  <2>5. QED BY <2>4 DEF NullFits
<1>2. CASE tds = "Udt"
  <2>1. type \in {"Geography", "Geometry", "Udt"}
    BY <1>2 DEF ColumnTypeOf, SizedType, PlainType, TypeOf
  <2>2. k = "Bytes"
    BY <1>2 DEF KindsHeld, HeldBy
  <2> HIDE DEF tds, length, type
  <2>3. NullColumnData(type) = <<"Binary">>
    BY <2>1 DEF NullColumnData
  <2>4. QED BY <2>2, <2>3 DEF NullFits, DataOf, type
<1>3. CASE tds \in {"BigBinary", "BigChar", "Money4"}
  BY <1>3 DEF ColumnTypeOf, SizedType, PlainType, TypeOf, NullFits
<1>4. CASE tds \in DOMAIN HeldBy \ {"Udt", "BigBinary", "BigChar", "Money4"}
  <2>1. type = TypeOf[tds] /\ tds \in DOMAIN TypeOf
    BY <1>4 DEF ColumnTypeOf, SizedType, PlainType, TypeOf, HeldBy
  <2>2. k \in HeldBy[tds]
    BY <1>4 DEF KindsHeld
  <2> HIDE DEF length, type
  <2>3. CASE tds \in {"Bit", "BitN", "DateN", "TimeN", "Money", "Guid", "Xml", "Json", "Vector",
                      "SsVariant"}
    <3>1. \/ type = "Ssvariant" \/ k = "Vector"
          \/ /\ type \in {"Bit", "Date", "Time", "Money", "Guid", "Xml", "Json"}
             /\ type = IF k \in DOMAIN DataOf THEN DataOf[k] ELSE k
      BY <2>1, <2>2, <2>3 DEF TypeOf, HeldBy, DataOf
    <3>2. type \in {"Bit", "Date", "Time", "Money", "Guid", "Xml", "Json"} => NullColumnData(type) = <<type>>
      BY DEF NullColumnData
    <3>3. QED BY <3>1, <3>2 DEF NullFits, type
  <2>4. CASE tds \in {"Int1", "Int2", "Int4", "Int8", "Flt4", "Flt8"}
    <3>1. \/ type = "Int1" /\ k = "TinyInt"
          \/ type = "Int2" /\ k = "SmallInt"
          \/ type = "Int4" /\ k = "Int"
          \/ type = "Int8" /\ k = "BigInt"
          \/ type = "Float4" /\ k = "Real"
          \/ type = "Float8" /\ k = "Float"
      BY <2>1, <2>2, <2>4 DEF TypeOf, HeldBy
    <3>2. NullColumnData(type) = <<dk>>
      BY <3>1 DEF NullColumnData, DataOf
    <3>3. QED BY <3>2 DEF NullFits, type
  <2>5. CASE tds \in {"DateTime", "DateTim4", "DateTime2N", "DateTimeOffsetN", "Decimal", "DecimalN",
                      "Numeric", "NumericN"}
    <3>1. \/ type = "Datetime" /\ k = "DateTime"
          \/ type = "Datetime4" /\ k = "SmallDateTime"
          \/ type = "Datetime2" /\ k = "DateTime2"
          \/ type = "DatetimeOffset" /\ k = "DateTimeOffset"
          \/ type = "Decimaln" /\ k = "Decimal"
          \/ type = "Numericn" /\ k = "Numeric"
      BY <2>1, <2>2, <2>5 DEF TypeOf, HeldBy
    <3>2. NullColumnData(type) = <<dk>>
      BY <3>1 DEF NullColumnData, DataOf
    <3>3. QED BY <3>2 DEF NullFits, type
  <2>6. CASE tds \in {"NVarChar", "VarChar", "BigVarChar", "NChar", "Char", "NText", "Text",
                      "Binary", "VarBinary", "BigVarBinary", "Image"}
    <3>1. \/ type \in {"NVarchar", "Varchar", "NChar", "Char", "NText", "Text"} /\ k = "String"
          \/ type \in {"Binary", "VarBinary", "Image"} /\ k = "Bytes"
      BY <2>1, <2>2, <2>6 DEF TypeOf, HeldBy
    <3>2. NullColumnData(type) = <<dk>>
      BY <3>1 DEF NullColumnData, DataOf
    <3>3. QED BY <3>2 DEF NullFits, type
  <2>7. QED BY <1>4, <2>3, <2>4, <2>5, <2>6 DEF HeldBy
<1>5. QED BY <1>1, <1>2, <1>3, <1>4

\* The columns of a row keep their cells.
LEMMA KindsKept == ASSUME VInv, KindsInv, [Next]_vars PROVE KindsInv'
<1> DEFINE Fit(m) == \A k \in m.kinds : NullFits(m.type, k)
           AllFit(s) == \A i \in DOMAIN s : Fit(s[i])
<1>1. KindsInv <=> AllFit(metadata)
  BY DEF KindsInv, Of
<1>2. KindsInv' <=> AllFit(metadata')
  BY DEF KindsInv, Of
<1>3. \A name, column : Fit(Named(name, column))
  BY NullOfColumn DEF Named
<1> HIDE DEF Fit
<1>4. CASE Send
  <2>1. PICK names : metadata' = [i \in DOMAIN params |->
              Named(names[i], EchoColumn(EncodeStringParameters(params[i], unicode)))]
    BY <1>4 DEF Send
  <2>2. QED BY <1>2, <1>3, <2>1
<1>5. CASE Select
  <2>1. \/ \E name, column : metadata' = <<Named(name, column)>>
        \/ \E first, second, column, other : metadata' = <<Named(first, column), Named(second, other)>>
    BY <1>5 DEF Select
  <2>2. \A m : Fit(m) => AllFit(<<m>>)
    BY OneTuple
  <2>3. \A m, n : Fit(m) /\ Fit(n) => AllFit(<<m, n>>)
    BY TwoTuple
  <2> HIDE DEF AllFit
  <2>4. QED BY <1>2, <1>3, <2>1, <2>2, <2>3
<1>6. CASE FromSchema
  <2>1. metadata' = metadata \/ metadata' = SubSeq(metadata, 1, Len(metadata) - 1)
    BY <1>6 DEF FromSchema
  <2>2. IsTuple(metadata)
    BY DEF VInv, PathInv, RowTyped
  <2>3. LET f == SubSeq(metadata, 1, Len(metadata) - 1)
        IN DOMAIN f \subseteq DOMAIN metadata /\ \A i \in DOMAIN f : f[i] = metadata[i]
    BY <2>2, TupleFront
  <2>4. AllFit(metadata')
    BY <1>1, <2>1, <2>3
  <2>5. QED BY <1>2, <2>4
<1>7. CASE Rebind
  <2>1. metadata' = <<>>
    BY <1>7 DEF Rebind
  <2>2. QED BY <1>2, <2>1, NoTuple
<1>8. CASE UNCHANGED metadata
  BY <1>1, <1>2, <1>8
<1>9. CASE Configure \/ Login \/ Bind \/ WriteColumn \/ TakeRow \/ StartVisit
  BY <1>8, <1>9 DEF Configure, Login, Bind, WriteColumn, TakeRow, StartVisit, rowVars
<1>10. CASE NextKey \/ NextValue \/ NextElement
  BY <1>8, <1>10 DEF NextKey, NextValue, NextElement, Visiting, rowVars
<1>11. CASE UNCHANGED vars
  BY <1>8, <1>11 DEF vars, rowVars
<1>12. QED BY <1>4, <1>5, <1>6, <1>7, <1>9, <1>10, <1>11 DEF Next

LEMMA AlwaysSound == Spec => []NumbersInv
<1>1. Init => NumbersInv
  BY NoTuple DEF Init, NoRow, NumbersInv, AllSound
<1>2. VInv /\ NumbersInv /\ [Next]_vars => NumbersInv'
  BY NumbersKept
<1>3. QED BY <1>1, <1>2, PathInvariance, PTL DEF Spec

LEMMA AlwaysFitting == Spec => []KindsInv
<1>1. Init => KindsInv
  BY NoTuple DEF Init, NoRow, KindsInv
<1>2. VInv /\ KindsInv /\ [Next]_vars => KindsInv'
  BY KindsKept
<1>3. QED BY <1>1, <1>2, PathInvariance, PTL DEF Spec

\* The ways to a column of a row agree (row.rs, serde_de.rs): by name, ignoring
\* case, by index and as a field of a struct or an element of a tuple, whichever
\* names two columns share.
THEOREM NamesAlwaysAgree == Spec => []NamesAgree
<1>1. VInv /\ NumbersInv => NamesAgree
  BY LookupsFound, FieldsFound DEF NamesAgree
<1>2. QED BY <1>1, PathInvariance, AlwaysSound, PTL

-----------------------------------------------------------------------------
(* The readers of one cell *)

DataKind(k) == IF k \in DOMAIN DataOf THEN DataOf[k] ELSE k

LEMMA NotRead == ~Success(Error) /\ ~Success(None) /\ Error # None /\ Null # Error
BY DEF Success, Error, None, Null

\* Tiberius' reader returns what the native one does, or refuses.
LEMMA CompatOfValue ==
  ASSUME NEW k \in CellKinds, NEW p, NEW ds, ds = IF k \in TextKinds THEN <<p>> ELSE <<>>, NEW ty,
         NEW type \in NativeTypes \cap CompatTypes
  PROVE  LET compat == FromColumnData(type, ColumnDataRef(<<k, p>>, ds, ty))
             native == FromSql(type, <<k, p>>, ds)
         IN compat = Error \/ (compat = native /\ native # None)
<1> DEFINE data == ColumnDataRef(<<k, p>>, ds, ty)
           native == FromSql(type, <<k, p>>, ds)
           compat == FromColumnData(type, data)
<1>1. data = IF k = "Vector" THEN <<"Native", <<k, p>>>> ELSE <<DataKind(k), p>>
  <2>1. data = CASE k = "Vector"        -> <<"Native", <<k, p>>>>
                 [] k \in DOMAIN DataOf -> <<DataOf[k], p>>
                 [] OTHER               -> <<k, p>>
    BY DataIs
  <2> HIDE DEF data
  <2>2. "Vector" \notin DOMAIN DataOf
    BY DEF DataOf
  <2>3. QED BY <2>1, <2>2 DEF DataKind
<1>2. Kind(<<k, p>>) = k /\ Payload(<<k, p>>) = p
  BY Tuples
<1>3. Kind(data) = (IF k = "Vector" THEN "Native" ELSE DataKind(k)) /\ IsNone(data) = FALSE
      /\ (k # "Vector" => Payload(data) = p)
  <2> HIDE DEF data
  <2>1. CASE k = "Vector"
    <3>1. data = <<"Native", <<k, p>>>>
      BY <1>1, <2>1
    <3>2. QED BY <2>1, <3>1, Tuples
  <2>2. CASE k # "Vector"
    <3>1. data = <<DataKind(k), p>>
      BY <1>1, <2>2
    <3>2. QED BY <2>2, <3>1, Tuples
  <2>3. QED BY <2>1, <2>2
<1> HIDE DEF data
<1>4. CASE type = "str"
  <2>1. compat = FromBorrowed("str", data)
    BY <1>4 DEF FromColumnData, Lent
  <2>2. CASE Kind(data) = "String"
    <3>1. k = "String" /\ ds = <<p>>
      BY <1>3, <2>2 DEF DataKind, DataOf, TextKinds
    <3>2. compat = <<"str", p>>
      BY <1>3, <2>1, <2>2, <3>1 DEF FromBorrowed, Some
    <3>3. native = <<"str">> \o <<p>>
      <4>1. <<p>> # <<>> /\ native = ReadStr(ds)
        BY <1>4 DEF FromSql
      <4>2. QED BY <3>1, <4>1 DEF ReadStr
    <3>4. <<"str">> \o <<p>> = <<"str", p>>
      BY Joined
    <3>5. QED BY <3>2, <3>3, <3>4 DEF None, data
  <2>3. CASE Kind(data) # "String"
    BY <2>1, <2>3 DEF FromBorrowed, data
  <2>4. QED BY <2>2, <2>3
<1>5. CASE type = "bytes"
  <2>1. compat = FromBorrowed("bytes", data)
    BY <1>5 DEF FromColumnData, Lent
  <2>2. CASE Kind(data) = "Binary"
    <3>1. k = "Bytes"
      BY <1>3, <2>2 DEF DataKind, DataOf, CellKinds
    <3>2. compat = <<"bytes", p>>
      BY <1>3, <2>1, <2>2, <3>1 DEF FromBorrowed, Some
    <3>3. native = <<"bytes", p>>
      BY <1>2, <1>5, <3>1 DEF FromSql, Some, Accepts
    <3>4. QED BY <3>2, <3>3 DEF None, data
  <2>3. CASE Kind(data) # "Binary"
    BY <2>1, <2>3 DEF FromBorrowed, data
  <2>4. QED BY <2>2, <2>3
<1>6. CASE type \notin {"str", "bytes"}
  <2>1. type \in DOMAIN Exact /\ type \notin Lent /\ type # "Utc"
    BY <1>6 DEF CompatTypes, NativeTypes, Accepts, Lent
  <2>2. compat = IF Matches(type, data) THEN DecodeOwned(type, data) ELSE Error
    BY <2>1 DEF FromColumnData
  <2>3. CASE ~Matches(type, data)
    BY <2>2, <2>3 DEF data
  <2>4. CASE Matches(type, data)
    <3>1. Kind(data) \in Exact[type] /\ k # "Vector"
      BY <1>3, <2>1, <2>4 DEF Matches, Exact
    <3>2. IntoColumnValue(data) = <<CopyKind(k), p>>
      <4> DEFINE dk == DataKind(k)
      <4>1. /\ dk # "Native" /\ Kind(data) = dk
            /\ CopyKind(k) = IF dk \in DOMAIN CellOf THEN CellOf[dk] ELSE dk
        BY <1>3, <3>1 DEF DataKind, DataOf, CellOf, CopyKind, CellKinds
      <4>2. data = <<dk, p>>
        BY <1>1, <3>1
      <4> HIDE DEF dk
      <4>3. Retag(CellOf, data) = <<CellOf[dk], p>>
        BY <4>2, Retagged
      <4>4. QED BY <1>3, <4>1, <4>2, <4>3 DEF IntoColumnValue
    <3>3. FromSql(type, <<CopyKind(k), p>>, <<>>) = native
      <4>1. \A c, d, e : FromSql(type, c, d) = FromSql(type, c, e)
        BY <1>6 DEF FromSql
      <4>2. FromSql(type, <<CopyKind(k), p>>, <<>>) = FromSql(type, <<k, p>>, <<>>)
        BY DecimalReads DEF CopyKind
      <4>3. QED BY <4>1, <4>2
    <3>4. <<CopyKind(k), p>> # Error /\ <<CopyKind(k), p>> # Null
      BY DEF CopyKind, CellKinds, Error, Null
    <3>5. DecodeOwned(type, data) = IF native = None THEN Error ELSE native
      <4> HIDE DEF native
      <4>1. QED BY <3>2, <3>3, <3>4 DEF DecodeOwned
    <3>6. QED BY <2>2, <2>4, <3>5 DEF data
  <2>5. QED BY <2>3, <2>4
<1>7. QED BY <1>4, <1>5, <1>6

\* Of a NULL it makes a None or an error.
LEMMA CompatOfNull ==
  ASSUME NEW ty \in ColumnTypes, NEW type \in CompatTypes \ {"Utc"}
  PROVE  FromColumnData(type, NullColumnData(ty)) \in {None, Error}
<1>1. PICK k \in DataKinds : NullColumnData(ty) = <<k>>
  BY NullData
<1> DEFINE data == <<k>>
<1>2. Kind(data) = k /\ IsNone(data) = TRUE /\ k # "Native"
  BY Tuples DEF DataKinds
<1> HIDE DEF data
<1>3. DecodeOwned(type, data) = None
  <2>1. IntoColumnValue(data) = Null
    BY <1>2 DEF IntoColumnValue
  <2>2. QED BY <2>1, NotRead DEF DecodeOwned
<1>4. FromBorrowed(type, data) \in {None, Error}
  BY <1>2 DEF FromBorrowed
<1>5. FromColumnData(type, data) \in {None, Error}
  BY <1>3, <1>4 DEF FromColumnData
<1>6. QED BY <1>1, <1>5 DEF data

\* A type that reads a variant reads its NULL.
LEMMA NullOfRead ==
  ASSUME NEW k \in CellKinds \ {"Vector"}, NEW p, NEW type \in CompatTypes,
         Success(FromColumnData(type, <<DataKind(k), p>>))
  PROVE  FromColumnData(type, <<DataKind(k)>>) = None
<1> DEFINE dk == DataKind(k)
           data == <<dk, p>>
           null == <<dk>>
<1>1. Kind(data) = dk /\ IsNone(data) = FALSE /\ Kind(null) = dk /\ IsNone(null) = TRUE
  BY Tuples
<1>2. dk # "Native"
  BY DEF DataKind, DataOf, CellKinds
<1> HIDE DEF dk, data, null
<1>3. \A t : DecodeOwned(t, null) = None
  <2>1. IntoColumnValue(null) = Null
    BY <1>1, <1>2 DEF IntoColumnValue
  <2>2. QED BY <2>1, NotRead DEF DecodeOwned
<1>4. FromColumnData(type, data) # Error
  BY NotRead DEF data, dk
<1>5. CASE type = "Utc"
  <2>1. FromColumnData(type, data) = FromColumnDataUtc(data)
        /\ FromColumnData(type, null) = FromColumnDataUtc(null)
    BY <1>5 DEF FromColumnData, Lent
  <2>2. dk \in {"DateTimeOffset", "DateTime2"}
    BY <1>1, <1>4, <2>1 DEF FromColumnDataUtc
  <2>3. Len(None) = 1
    BY DEF None
  <2>4. FromColumnDataUtc(null) = None
    BY <1>1, <1>3, <2>2, <2>3 DEF FromColumnDataUtc
  <2>5. QED BY <2>1, <2>4 DEF null, dk
<1>6. CASE type \in Lent
  <2>1. FromColumnData(type, data) = FromBorrowed(type, data)
        /\ FromColumnData(type, null) = FromBorrowed(type, null)
    BY <1>6 DEF FromColumnData, Lent
  <2>2. dk = IF type = "str" THEN "String" ELSE IF type = "bytes" THEN "Binary" ELSE "Numeric"
    BY <1>1, <1>4, <2>1 DEF FromBorrowed
  <2>3. FromBorrowed(type, null) = None
    BY <1>1, <2>2 DEF FromBorrowed
  <2>4. QED BY <2>1, <2>3 DEF null, dk
<1>7. CASE type # "Utc" /\ type \notin Lent
  <2>1. /\ FromColumnData(type, data) = IF Matches(type, data) THEN DecodeOwned(type, data) ELSE Error
        /\ FromColumnData(type, null) = IF Matches(type, null) THEN DecodeOwned(type, null) ELSE Error
    BY <1>7 DEF FromColumnData
  <2>2. Matches(type, null)
    BY <1>1, <1>4, <2>1 DEF Matches
  <2>3. QED BY <1>3, <2>1, <2>2 DEF null, dk
<1>8. QED BY <1>5, <1>6, <1>7

\* An integer fits every type that reads it.
LEMMA WideReads ==
  ASSUME NEW type \in NativeTypes \cap IntTypes, NEW c, CellLike(c), c # Null, Sound(c),
         Kind(c) \in Integers, Kind(c) \in Accepts[type]
  PROVE  Fits(type, Payload(c))
<1> DEFINE k == c[1]
           p == c[2]
           a == 2^ByteBits
           b == 2^(2 * ByteBits - 1)
           d == 2^(4 * ByteBits - 1)
           e == 2^(8 * ByteBits - 1)
<1>1. Kind(c) = k /\ Payload(c) = p /\ p \in Int /\ Fits(WidthOf[k], p)
  <2>1. c = <<k, p>> /\ Kind(c) = k /\ Payload(c) = p
    BY CellIs
  <2>2. Sound(<<k, p>>) /\ k \in Integers
    BY <2>1
  <2> HIDE DEF k, p
  <2>3. QED BY <2>1, <2>2, SoundTuple DEF CanHold
<1> HIDE DEF k, p
<1>2. /\ a \in Int /\ b \in Int /\ d \in Int /\ e \in Int
      /\ a <= b /\ b <= d /\ d <= e
  BY SqlValuesAssumption, WidthsNest
<1>3. /\ Fits("u8", p) <=> p >= 0 /\ p < a
      /\ Fits("i16", p) <=> p >= -b /\ p < b
      /\ Fits("i32", p) <=> p >= -d /\ p < d
      /\ Fits("i64", p) <=> p >= -e /\ p < e
  BY DEF Fits, Bits, Unsigned
<1> HIDE DEF a, b, d, e
<1>4. \/ type = "u8" /\ k = "TinyInt"
      \/ type = "i16" /\ k \in {"SmallInt", "TinyInt"}
      \/ type = "i32" /\ k \in {"Int", "SmallInt", "TinyInt"}
      \/ type = "i64" /\ k \in {"BigInt", "Int", "SmallInt", "TinyInt"}
  BY <1>1 DEF NativeTypes, Accepts, IntTypes, Bits
<1>5. /\ k = "TinyInt" => Fits("u8", p)
      /\ k = "SmallInt" => Fits("i16", p)
      /\ k = "Int" => Fits("i32", p)
      /\ k = "BigInt" => Fits("i64", p)
  BY <1>1 DEF WidthOf
<1>6. /\ Fits("u8", p) => Fits("i16", p)
      /\ Fits("i16", p) => Fits("i32", p)
      /\ Fits("i32", p) => Fits("i64", p)
  BY <1>1, <1>2, <1>3
<1>7. Fits(type, p)
  BY <1>4, <1>5, <1>6
<1>8. QED BY <1>1, <1>7

\* Natively an optional value is the value, and owned text is the text that is lent.
LEMMA NativeAgrees ==
  ASSUME NEW c, CellLike(c)
  PROVE  /\ \A type \in NativeTypes : c = Null => FromSql(type, c, DecodedOf(c)) = None
         /\ \A type \in NativeTypes : FromSqlOption(type, c, DecodedOf(c)) = FromSql(type, c, DecodedOf(c))
         /\ Tail(FromSql("str", c, DecodedOf(c))) = Tail(FromSql("String", c, DecodedOf(c)))
<1>1. c = Null => \A type \in NativeTypes : FromSql(type, c, DecodedOf(c)) = None
  BY NullRead, NullIs
<1>2. Tail(FromSql("str", c, DecodedOf(c))) = Tail(FromSql("String", c, DecodedOf(c)))
  <2>1. "str" \in NativeTypes /\ "String" \in NativeTypes /\ Accepts["String"] = TextKinds
    BY DEF NativeTypes, Accepts
  <2>2. CASE c = Null
    BY <1>1, <2>1, <2>2
  <2>3. CASE c # Null
    <3> DEFINE p == c[2]
               ds == DecodedOf(c)
    <3>1. /\ Kind(c) \in TextKinds => ds = <<p>>
          /\ Kind(c) \notin TextKinds => ds = <<>>
          /\ Payload(c) = p
      BY <2>3, CellIs
    <3> HIDE DEF p, ds
    <3>2. FromSql("str", c, ds) = ReadStr(ds)
      BY DEF FromSql
    <3>3. FromSql("String", c, ds) = IF Kind(c) \in TextKinds THEN <<"String", p>> ELSE None
      BY <2>1, <3>1 DEF FromSql, Some
    <3>4. ReadStr(<<p>>) = <<"str", p>> /\ ReadStr(<<>>) = None
      BY Joined DEF ReadStr
    <3>5. Tail(<<"str", p>>) = <<p>> /\ Tail(<<"String", p>>) = <<p>>
      BY Joined
    <3>6. Tail(FromSql("str", c, ds)) = Tail(FromSql("String", c, ds))
      BY <3>1, <3>2, <3>3, <3>4, <3>5
    <3>7. QED BY <3>6 DEF ds
  <2>4. QED BY <2>2, <2>3
<1>3. QED BY <1>1, <1>2 DEF FromSqlOption

LEMMA ReadersFound == ASSUME VInv, NumbersInv, KindsInv PROVE ReadersAgree
<1> SUFFICES ASSUME AtRow, NEW i \in DOMAIN values
    PROVE LET cell == values[i]
              text == Decoded(i)
          IN /\ \A type \in NativeTypes \cap CompatTypes :
                  LET native == TryGetIndex(type, i)  compat == TryGetCompat(type, i)
                  IN /\ Success(compat) => native = compat
                     /\ compat = None => cell = Null
                     /\ cell # Null /\ native = None => compat = Error
             /\ \A type \in NativeTypes : FromSqlOption(type, cell, text) = TryGetIndex(type, i)
             /\ Tail(TryGetIndex("str", i)) = Tail(TryGetIndex("String", i))
             /\ \A type \in NativeTypes \cap (SerdeTypes \ {"str"}) :
                  Success(TryGetIndex(type, i)) =>
                    DeserializeOption(type, cell, text) = TryGetIndex(type, i)
             /\ Success(TryGetIndex("str", i)) =>
                  /\ DeserializeOption("str", cell, text) = <<"text">> \o Tail(TryGetIndex("str", i))
                  /\ VisitAny(cell, text) = DeserializeOption("str", cell, text)
                  /\ VisitEnum(cell, text, Texts) = <<"variant">> \o Tail(TryGetIndex("str", i))
             /\ cell = Null /\ i \in DOMAIN metadata
                  /\ metadata[i].type \notin {"Ssvariant", "Null"} =>
                  \A type \in CompatTypes : \A other \in {c \in Cells : Kind(c) \in Of(i)} :
                    Kind(other) # "Vector"
                        /\ Success(FromColumnData(type, ColumnDataRef(other, DecodedOf(other), "Null")))
                      => TryGetCompat(type, i) = None
  BY DEF ReadersAgree, NullReads
<1> DEFINE cell == values[i]
           text == DecodedOf(cell)
           ty == IF i \in DOMAIN metadata THEN metadata[i].type ELSE "Null"
<1>1. /\ CellLike(cell) /\ Sound(cell) /\ ty \in ColumnTypes /\ i \in DOMAIN decoded
      /\ Decoded(i) = text /\ decoded[i] = text
  <2>1. RowTyped(metadata, values, decoded)
    BY DEF VInv, PathInv
  <2>2. QED BY <2>1 DEF RowTyped, NumbersInv, AllSound, Decoded, ColumnTypes
<1>2. ASSUME NEW type
      PROVE  /\ TryGetIndex(type, i) = FromSql(type, cell, text)
             /\ TryGetCompat(type, i) = FromColumnData(type, ColumnDataRef(cell, text, ty))
  <2>1. CompatValues[i] = ColumnDataRef(cell, text, ty) /\ i \in DOMAIN CompatValues
    BY <1>1 DEF CompatValues
  <2>2. QED BY <1>1, <2>1 DEF TryGetIndex, TryGetAt, TryGetCompat
<1> HIDE DEF cell, text, ty
<1>3. \A e, t : ColumnDataRef(Null, e, t) = NullColumnData(t)
  BY NullIs DEF ColumnDataRef, TextKinds, DataOf
<1>4. ASSUME NEW type \in NativeTypes \cap CompatTypes
      PROVE  /\ Success(TryGetCompat(type, i)) => TryGetIndex(type, i) = TryGetCompat(type, i)
             /\ TryGetCompat(type, i) = None => cell = Null
             /\ cell # Null /\ TryGetIndex(type, i) = None => TryGetCompat(type, i) = Error
  <2>1. CASE cell = Null
    <3>1. ColumnDataRef(cell, text, ty) = NullColumnData(ty)
      BY <1>3, <2>1
    <3>2. type # "Utc"
      BY DEF NativeTypes, Accepts
    <3>3. TryGetCompat(type, i) \in {None, Error}
      BY <1>1, <1>2, <3>1, <3>2, CompatOfNull
    <3>4. QED BY <2>1, <3>3, NotRead
  <2>2. CASE cell # Null
    <3> DEFINE k == cell[1]
               p == cell[2]
    <3>1. cell = <<k, p>> /\ k \in CellKinds /\ text = IF k \in TextKinds THEN <<p>> ELSE <<>>
      BY <1>1, <2>2, CellIs DEF text
    <3> HIDE DEF k, p
    <3>2. \/ FromColumnData(type, ColumnDataRef(cell, text, ty)) = Error
          \/ /\ FromColumnData(type, ColumnDataRef(cell, text, ty)) = FromSql(type, cell, text)
             /\ FromSql(type, cell, text) # None
      BY <3>1, CompatOfValue
    <3>3. QED BY <1>2, <2>2, <3>2, NotRead
  <2>3. QED BY <2>1, <2>2
<1>5. /\ \A type \in NativeTypes : FromSqlOption(type, cell, text) = TryGetIndex(type, i)
      /\ Tail(TryGetIndex("str", i)) = Tail(TryGetIndex("String", i))
  BY <1>1, <1>2, NativeAgrees DEF text
<1>6. ASSUME NEW type \in NativeTypes \cap (SerdeTypes \ {"str"}), Success(TryGetIndex(type, i))
      PROVE  DeserializeOption(type, cell, text) = TryGetIndex(type, i)
  <2>1. Success(FromSql(type, cell, text))
    BY <1>2, <1>6
  <2>2. cell # Null
    <3>1. cell = Null => FromSql(type, cell, text) = None
      BY <1>1, NativeAgrees DEF text
    <3>2. QED BY <2>1, <3>1, NotRead
  <2>3. type \in IntTypes => Fits(type, Payload(cell))
    BY <1>1, <2>1, <2>2, SerdeSame, WideReads DEF text
  <2>4. DeserializeOption(type, cell, text) = FromSql(type, cell, text)
    BY <1>1, <2>1, <2>3, SerdeSame DEF text
  <2>5. QED BY <1>2, <2>4
<1>7. ASSUME Success(TryGetIndex("str", i))
      PROVE  /\ DeserializeOption("str", cell, text) = <<"text">> \o Tail(TryGetIndex("str", i))
             /\ VisitAny(cell, text) = DeserializeOption("str", cell, text)
             /\ VisitEnum(cell, text, Texts) = <<"variant">> \o Tail(TryGetIndex("str", i))
  <2> DEFINE p == Payload(cell)
  <2>1. /\ cell # Null /\ Kind(cell) \in TextKinds /\ p \in Texts
        /\ TryGetIndex("str", i) = <<"str", p>>
        /\ VisitStr(cell, text) = <<"text", p>>
        /\ DeserializeOption("str", cell, text) = <<"text", p>>
    BY <1>1, <1>2, <1>7, TextReads DEF text
  <2> HIDE DEF p
  <2>2. Tail(<<"str", p>>) = <<p>>
    BY ONLY Joined
  <2>3. <<"text">> \o <<p>> = <<"text", p>>
    BY ONLY Joined
  <2>4. <<"variant">> \o <<p>> = <<"variant", p>>
    BY ONLY Joined
  <2>5. VisitAny(cell, text) = VisitStr(cell, text)
    BY <2>1 DEF VisitAny, TextKinds, Integers
  <2>6. VisitEnum(cell, text, Texts) = <<"variant", p>>
    <3>1. Kind(<<"text", p>>) = "text" /\ <<"text", p>>[2] = p
      BY DEF Kind
    <3>2. QED BY <2>1, <3>1 DEF VisitEnum, Some
  <2>7. QED BY <2>1, <2>2, <2>3, <2>4, <2>5, <2>6
<1>8. ASSUME cell = Null, i \in DOMAIN metadata, metadata[i].type \notin {"Ssvariant", "Null"},
             NEW type \in CompatTypes, NEW other \in Cells, Kind(other) \in Of(i), Kind(other) # "Vector",
             Success(FromColumnData(type, ColumnDataRef(other, DecodedOf(other), "Null")))
      PROVE  TryGetCompat(type, i) = None
  <2> DEFINE k == other[1]
             p == other[2]
  <2>1. /\ other = <<k, p>> /\ Kind(other) = k /\ k \in CellKinds /\ k # "Vector"
        /\ DecodedOf(other) = IF k \in TextKinds THEN <<p>> ELSE <<>>
    <3>1. CellLike(other)
      BY CellsLike
    <3>2. other # Null
      <4>1. \A c \in Cells : c[1] # "Null"
        BY DEF Cells, TextKinds, Temporals
      <4>2. QED BY <4>1 DEF Null
    <3>3. QED BY <1>8, <3>1, <3>2, CellIs
  <2> HIDE DEF k, p
  <2>2. ColumnDataRef(other, DecodedOf(other), "Null") = <<DataKind(k), p>>
    BY <2>1, DataIs DEF DataKind
  <2>3. FromColumnData(type, <<DataKind(k)>>) = None
    BY <1>8, <2>1, <2>2, NullOfRead
  <2>4. TryGetCompat(type, i) = FromColumnData(type, NullColumnData(metadata[i].type))
    <3>1. ty = metadata[i].type
      BY <1>8 DEF ty
    <3>2. QED BY <1>2, <1>8, <1>3, <3>1
  <2>5. \/ NullColumnData(metadata[i].type) = <<DataKind(k)>>
        \/ NullColumnData(metadata[i].type) = <<"DateTime">> /\ DataKind(k) = "SmallDateTime"
    <3>1. NullFits(metadata[i].type, k)
      BY <1>8, <2>1 DEF KindsInv
    <3>2. k = "SmallDateTime" => DataKind(k) = "SmallDateTime"
      BY DEF DataKind, DataOf
    <3>3. QED BY <1>8, <2>1, <3>1, <3>2 DEF NullFits, DataKind
  <2>6. QED BY <2>3, <2>4, <2>5, NullReadOf
<1>9. QED BY <1>1, <1>4, <1>5, <1>6, <1>7, <1>8 DEF cell

\* What the readers of one cell make of it agrees, for all values and columns
\* that a row can hold: Tiberius' reader returns what the native one does or an
\* error, serde reads what the native one reads, and a NULL of a column that
\* ColumnType names is None for every type that reads the column (row.rs,
\* compat/conversion.rs, serde_de.rs).
THEOREM ReadersAlwaysAgree == Spec => []ReadersAgree
<1>1. VInv /\ NumbersInv /\ KindsInv => ReadersAgree
  BY ReadersFound
<1>2. QED BY <1>1, PathInvariance, AlwaysSound, AlwaysFitting, PTL

-----------------------------------------------------------------------------
(* Numbers are read exactly *)

\* What ReadsAreExact says of one reader of one cell.
ReadExactly(type, cell, x) ==
  /\ Kind(cell) \in Numeric /\ type \in IntTypes \cup {"Decimal"} /\ Success(x) =>
       /\ \/ Number(type, x[2]) = CellNumber(cell)
          \/ type = "Decimal" /\ HasNoRoom(CellNumber(cell)) /\ Nearest(x[2], CellNumber(cell))
       /\ type \in IntTypes => Fits(type, x[2])
  /\ Kind(cell) \in Numeric /\ type \in {"f32", "f64"} /\ Success(x) /\ Divided(cell) =>
       Faithful(type, x[2], CellNumber(cell))
  /\ Kind(cell) \in TextKinds /\ type \in {"str", "String", "char"} /\ Success(x) =>
       x[2] = Payload(cell)

\* The halves of Money make the number they are halves of.
LEMMA MoneyIs ==
  ASSUME NEW msb \in Int, NEW lsb \in -HalfRange..(HalfRange - 1)
  PROVE  Raw(msb, lsb) = (msb * 2^(4 * ByteBits)) + (lsb % 2^(4 * ByteBits))
<1> DEFINE half == 2^(4 * ByteBits)
           h == HalfRange
<1>1. half = 2 * h /\ h \in Int /\ h > 0 /\ half \in Nat \ {0}
  <2>1. 4 * ByteBits - 1 \in Nat \ {0} /\ 4 * ByteBits - 1 \in Nat
    BY SqlValuesAssumption
  <2>2. half = 2 * h
    BY WidthsNest DEF HalfRange
  <2>3. h > 1
    BY <2>1, WidthsNest DEF HalfRange
  <2>4. h \in Nat
    BY <2>1, TwoIs DEF HalfRange
  <2> HIDE DEF half, h
  <2>5. QED BY <2>2, <2>3, <2>4
<1>2. Raw(msb, lsb) = msb * half + (IF lsb < 0 THEN lsb + half ELSE lsb)
  BY DEF Raw, Bits
<1>3. lsb \in Int /\ lsb >= -h /\ lsb < h
  BY <1>1
<1> HIDE DEF half, h
<1>4. ASSUME NEW q \in Int, NEW r \in 0..(half - 1), lsb = q * half + r PROVE lsb % half = r
  BY <1>1, <1>4
<1>5. lsb % half = IF lsb < 0 THEN lsb + half ELSE lsb
  <2>1. CASE lsb < 0
    <3>1. lsb + half \in 0..(half - 1) /\ lsb = (-1) * half + (lsb + half)
      BY <1>1, <1>3, <2>1
    <3>2. lsb % half = lsb + half
      BY <1>4, <3>1
    <3>3. QED BY <2>1, <3>2
  <2>2. CASE ~(lsb < 0)
    <3>1. lsb \in 0..(half - 1) /\ lsb = 0 * half + lsb
      BY <1>1, <1>3, <2>2
    <3>2. lsb % half = lsb
      BY <1>4, <3>1
    <3>3. QED BY <2>2, <3>2
  <2>3. QED BY <2>1, <2>2
<1>6. QED BY <1>2, <1>5 DEF half

\* Rounding at a digit is right to half of it.
LEMMA RoundedNear ==
  ASSUME NEW m \in Int, NEW u \in Nat \ {0}
  PROVE  LET up == (Magnitude(m) + (u \div 2)) \div u
             r == IF m < 0 THEN -up ELSE up
         IN /\ r \in Int /\ 2 * Magnitude((r * u) - m) <= u
            /\ u = 1 => r = m
<1> DEFINE a == Magnitude(m)
           h == u \div 2
           q == (a + h) \div u
           r == IF m < 0 THEN -q ELSE q
<1>1. a \in Nat /\ (m < 0 => m = -a) /\ (~(m < 0) => m = a)
  BY DEF Magnitude
<1>2. h \in Nat /\ 2 * h <= u /\ u <= 2 * h + 1 /\ (u = 1 => h = 0)
  OBVIOUS
<1> HIDE DEF a, h
<1>3. q \in Int /\ q * u <= a + h /\ a + h < q * u + u /\ q * u \in Int
  <2> DEFINE b == a + h
  <2>1. b \in Int
    BY <1>1, <1>2
  <2> HIDE DEF b
  <2>2. b \div u \in Int /\ b % u \in 0..(u - 1)
    <3>1. b \div u \in Int
      BY <2>1
    <3>2. b % u \in 0..(u - 1)
      BY <2>1
    <3>3. QED BY <3>1, <3>2
  <2>3. b = u * (b \div u) + (b % u)
    BY <2>1
  <2>4. u * (b \div u) = (b \div u) * u /\ (b \div u) * u \in Int
    BY <2>2
  <2>5. (b \div u) * u <= b /\ b < (b \div u) * u + u
    <3> DEFINE v == (b \div u) * u
               w == b % u
    <3>1. v \in Int /\ w \in 0..(u - 1) /\ b = v + w
      BY <2>2, <2>3, <2>4
    <3> HIDE DEF v, w
    <3>2. v <= b /\ b < v + u
      BY <2>1, <3>1
    <3>3. QED BY <3>2 DEF v
  <2>6. QED BY <2>1, <2>2, <2>4, <2>5 DEF b
<1> HIDE DEF q
<1>4. ASSUME u = 1 PROVE q = a
  <2>1. q * u = q
    BY <1>3, <1>4
  <2>2. QED BY <1>1, <1>2, <1>3, <1>4, <2>1
<1>5. (-q) * u = -(q * u)
  BY <1>3
<1>6. Magnitude((r * u) - m) = Magnitude(q * u - a)
  <2> DEFINE v == q * u
  <2>1. v \in Int
    BY <1>3
  <2>2. r * u = IF m < 0 THEN -v ELSE v
    BY <1>5
  <2> HIDE DEF v, r
  <2>3. (r * u) - m = IF m < 0 THEN a - v ELSE v - a
    BY <1>1, <2>1, <2>2
  <2>4. Magnitude(a - v) = Magnitude(v - a)
    BY <1>1, <2>1 DEF Magnitude
  <2>5. QED BY <2>3, <2>4 DEF v
<1>7. 2 * Magnitude(q * u - a) <= u
  <2> DEFINE v == q * u
  <2>1. v \in Int /\ v <= a + h /\ a + h < v + u
    BY <1>3
  <2> HIDE DEF v
  <2>2. 2 * Magnitude(v - a) <= u
    BY <1>1, <1>2, <2>1 DEF Magnitude
  <2>3. QED BY <2>2 DEF v
<1>8. r \in Int /\ (u = 1 => r = m)
  BY <1>1, <1>3, <1>4
<1>9. QED BY <1>6, <1>7, <1>8 DEF a, h, q

\* A decimal is read as it is, or rounded at the last digit that is kept.
LEMMA ParsedNear ==
  ASSUME NEW m \in Int, NEW s \in 0..MaxDigits, NEW d \in ParseDecimal(m, s)
  PROVE  d = <<m, s>> \/ (HasNoRoom(<<m, s>>) /\ Nearest(d, <<m, s>>))
<1> DEFINE enough == {k \in 0..s : s - k <= MaxScale /\ Magnitude(Rounded(m, k)) <= MaxMantissa}
<1>1. PICK k \in enough : d = <<Rounded(m, k), s - k>> /\ \A l \in enough : k <= l
  BY DEF ParseDecimal
<1>2. k \in 0..s /\ s \in Int /\ MaxDigits \in Nat /\ MaxMantissa \in Nat
  BY SqlValuesAssumption
<1>3. \A n \in 0..MaxDigits : 10^n \in Nat \ {0}
  BY <1>2, PowersOfTen
<1>4. Rounded(m, 0) = m
  <2>1. 10^0 = 1 /\ 1 \in Nat \ {0}
    OBVIOUS
  <2>2. QED BY <2>1, RoundedNear DEF Rounded
<1>5. CASE Magnitude(m) <= MaxMantissa /\ s <= MaxScale
  <2>1. 0 \in enough
    <3>1. 0 \in 0..s /\ s - 0 = s
      BY <1>2
    <3>2. QED BY <1>4, <1>5, <3>1
  <2>2. k = 0
    BY <1>1, <1>2, <2>1
  <2>3. QED BY <1>1, <1>2, <1>4, <2>2
<1>6. CASE ~(Magnitude(m) <= MaxMantissa /\ s <= MaxScale)
  <2> DEFINE u == 10^k
             r == Rounded(m, k)
  <2>1. u \in Nat \ {0}
    BY <1>2, <1>3
  <2>2. 2 * Magnitude((r * u) - m) <= u /\ r \in Int
    BY <2>1, RoundedNear DEF Rounded
  <2> HIDE DEF u, r
  <2>3. s - (s - k) = k /\ s >= s - k
    BY <1>2
  <2>4. d[1] = r /\ d[2] = s - k
    BY <1>1 DEF r
  <2>5. <<m, s>>[1] = m /\ <<m, s>>[2] = s
    OBVIOUS
  <2>6. 10^(s - (s - k)) = u
    BY <2>3 DEF u
  <2>7. Nearest(d, <<m, s>>)
    BY <2>2, <2>3, <2>4, <2>5, <2>6 DEF Nearest
  <2>8. HasNoRoom(<<m, s>>)
    <3>1. Magnitude(m) \in Int /\ MaxScale \in Int
      BY SqlValuesAssumption DEF Magnitude
    <3>2. QED BY <1>2, <1>6, <2>5, <3>1 DEF HasNoRoom
  <2>9. QED BY <2>7, <2>8
<1>7. QED BY <1>5, <1>6

\* What a cell's number is, by its variant.
LEMMA NumberIs ==
  ASSUME NEW c, CellLike(c), c # Null, Sound(c)
  PROVE  /\ Kind(c) \in Integers => CellNumber(c) = <<Payload(c), 0>> /\ Payload(c) \in Int
         /\ Kind(c) = "Bit" => CellNumber(c) = <<IF Payload(c) THEN 1 ELSE 0, 0>>
         /\ Kind(c) \in {"SmallMoney", "Money"} =>
              CellNumber(c) = <<RawMoney(c), MoneyScale>> /\ RawMoney(c) \in Int
         /\ Kind(c) = "SmallMoney" => RawMoney(c) * 10^FloatScale \in Floats["f64"]
         /\ Kind(c) \in {"Real", "Float"} =>
              /\ CellNumber(c) = <<Payload(c)[1], FloatScale>>
              /\ Payload(c) \in PayloadsIn("f64")
         /\ Kind(c) = "Real" => Payload(c) \in PayloadsIn("f32")
         /\ Kind(c) \in {"Decimal", "Numeric"} =>
              /\ CellNumber(c) = <<Payload(c)[1], Payload(c)[2]>>
              /\ Payload(c)[1] \in Int /\ Payload(c)[2] \in 0..MaxDigits
<1> DEFINE k == Kind(c)
           p == Payload(c)
<1>1. CanHold(k, p)
  <2>1. c = <<c[1], c[2]>> /\ k = c[1] /\ p = c[2]
    BY CellIs
  <2> HIDE DEF k, p
  <2>2. c = <<k, p>>
    BY <2>1
  <2>3. QED BY <2>2, SoundTuple
<1> HIDE DEF k, p
<1>2. CASE k \in Integers
  <2>1. p \in Int
    BY <1>1, <1>2 DEF CanHold
  <2>2. CellNumber(c) = <<p, 0>>
    BY <1>2 DEF CellNumber, Integers, k, p
  <2>3. QED BY <1>2, <2>1, <2>2 DEF Integers, k, p
<1>3. CASE k = "Money"
  <2>1. p[1] \in Int /\ p[2] \in -HalfRange..(HalfRange - 1)
    BY <1>1, <1>3 DEF CanHold
  <2>2. CellNumber(c) = <<(p[1] * 2^(4 * ByteBits)) + (p[2] % 2^(4 * ByteBits)), MoneyScale>>
    BY <1>3 DEF CellNumber, Integers, k, p
  <2>3. RawMoney(c) = Raw(p[1], p[2])
    BY <1>3 DEF RawMoney, k, p
  <2>4. CellNumber(c) = <<RawMoney(c), MoneyScale>>
    BY <2>1, <2>2, <2>3, MoneyIs
  <2>5. RawMoney(c) \in Int
    <3>1. HalfRange \in Int /\ 2^(4 * ByteBits) \in Int
      <4>1. 4 * ByteBits - 1 \in Nat /\ 4 * ByteBits \in Nat
        BY SqlValuesAssumption
      <4>2. QED BY <4>1, TwoIs DEF HalfRange
    <3>2. p[2] \in Int
      BY <2>1, <3>1
    <3>3. QED BY <2>1, <2>3, <3>1, <3>2 DEF Raw, Bits
  <2>6. QED BY <1>3, <2>4, <2>5 DEF Integers, k, p
<1>4. CASE k \in {"Bit", "SmallMoney"}
  <2>1. /\ k = "Bit" => CellNumber(c) = <<IF p THEN 1 ELSE 0, 0>>
        /\ k = "SmallMoney" => CellNumber(c) = <<p, MoneyScale>> /\ RawMoney(c) = p
    BY <1>4 DEF CellNumber, RawMoney, Integers, k, p
  <2>2. k = "SmallMoney" => p \in Int /\ p * 10^FloatScale \in Floats["f64"]
    BY <1>1 DEF CanHold
  <2>3. QED BY <1>4, <2>1, <2>2 DEF Integers, k, p
<1>5. CASE k \in {"Real", "Float", "Decimal", "Numeric"}
  <2>1. CellNumber(c) = <<p[1], p[2]>>
    BY <1>5 DEF CellNumber, Integers, k, p
  <2>2. /\ k \in {"Real", "Float"} => p = <<p[1], FloatScale>> /\ p \in PayloadsIn("f64")
        /\ k = "Real" => p \in PayloadsIn("f32")
    <3>1. (k = "Real" => p \in PayloadsIn("f32")) /\ (k = "Float" => p \in PayloadsIn("f64"))
      BY <1>1 DEF CanHold
    <3>2. k \in {"Real", "Float"} => p \in PayloadsIn("f64")
      BY <3>1, FloatKept DEF FloatTypes
    <3>3. p \in PayloadsIn("f64") => p = <<p[1], FloatScale>>
      BY FloatKept DEF FloatTypes
    <3>4. QED BY <3>1, <3>2, <3>3
  <2>3. k \in {"Decimal", "Numeric"} => p[1] \in Int /\ p[2] \in 0..MaxDigits
    BY <1>1 DEF CanHold
  <2>4. k \in {"Real", "Float"} => p[2] = FloatScale
    BY <2>2
  <2>5. QED BY <1>5, <2>1, <2>2, <2>3, <2>4 DEF Integers, k, p
<1>6. CASE k \notin Integers \cup {"Bit", "SmallMoney", "Money", "Real", "Float", "Decimal", "Numeric"}
  BY <1>6 DEF k
<1>7. QED BY <1>2, <1>3, <1>4, <1>5, <1>6

\* A NULL is neither a number nor a text.
LEMMA NullExact == \A type, x : ReadExactly(type, Null, x)
BY NullIs DEF ReadExactly, Numeric, Integers, TextKinds

LEMMA NativeExact ==
  ASSUME NEW type \in NativeTypes, NEW c, CellLike(c), c # Null, Sound(c),
         Success(FromSql(type, c, DecodedOf(c)))
  PROVE  ReadExactly(type, c, FromSql(type, c, DecodedOf(c)))
<1> DEFINE x == FromSql(type, c, DecodedOf(c))
<1>1. /\ c = <<c[1], c[2]>> /\ Kind(c) = c[1] /\ Payload(c) = c[2]
      /\ Kind(c) \in TextKinds => DecodedOf(c) = <<Payload(c)>>
      /\ Kind(c) \notin TextKinds => DecodedOf(c) = <<>>
  BY CellIs
<1>2. CASE type = "str"
  <2>1. x = <<"str", Payload(c)>> /\ Kind(c) \in TextKinds
    BY <1>2, TextReads
  <2>2. Kind(c) \notin Numeric
    BY <2>1 DEF Numeric, Integers, TextKinds
  <2>3. QED BY <1>2, <2>1, <2>2 DEF ReadExactly
<1>3. CASE type # "str"
  <2>1. Kind(c) \in Accepts[type]
    BY <1>3, NotRead DEF FromSql
  <2>2. CASE type \in IntTypes
    <3>1. Kind(c) \in Integers
      BY <2>1, <2>2 DEF NativeTypes, Accepts, IntTypes, Bits, Integers
    <3>2. type \notin {"str", "Json", "Decimal"}
      BY <2>2 DEF IntTypes, Bits
    <3>3. x = <<type, Payload(c)>>
      BY <2>1, <3>2 DEF FromSql, Some
    <3>4. Fits(type, Payload(c))
      BY <2>1, <2>2, <3>1, WideReads
    <3>5. Number(type, x[2]) = CellNumber(c)
      BY <2>2, <3>1, <3>3, NumberIs DEF Number
    <3>6. Kind(c) \notin TextKinds
      BY <3>1 DEF Integers, TextKinds
    <3>7. QED BY <2>2, <3>3, <3>4, <3>5, <3>6 DEF ReadExactly, IntTypes, Bits
  <2>3. CASE type \in {"f32", "f64"}
    <3>1. Kind(c) \in {"Real", "Float"}
      BY <2>1, <2>3 DEF NativeTypes, Accepts
    <3>2. x = <<type, Payload(c)>> /\ type \notin IntTypes \cup {"Decimal"}
      BY <2>1, <2>3 DEF FromSql, Some, IntTypes, Bits
    <3>3. Faithful(type, x[2], CellNumber(c))
      <4> DEFINE p == Payload(c)
      <4>1. CellNumber(c) = <<p[1], FloatScale>> /\ p \in PayloadsIn(type) /\ type \in FloatTypes
        BY <2>1, <2>3, <3>1, NumberIs DEF FloatTypes, NativeTypes, Accepts
      <4>2. p[1] \in Int /\ Near(type, p, p[1], 1)
        BY <4>1, FloatKept
      <4> HIDE DEF p
      <4>3. p[1] * 10^(FloatScale - FloatScale) = p[1]
        BY <4>2, TenIs
      <4>4. Faithful(type, p, <<p[1], FloatScale>>)
        BY <4>1, <4>2, <4>3, FaithfulIs
      <4>5. QED BY <3>2, <4>1, <4>4 DEF p
    <3>4. Kind(c) \notin TextKinds
      BY <3>1 DEF TextKinds
    <3>5. QED BY <3>2, <3>3, <3>4 DEF ReadExactly
  <2>4. CASE type = "Decimal"
    <3>1. Kind(c) \in {"Decimal", "Numeric", "SmallMoney", "Money"} /\ type \notin IntTypes
      BY <2>1, <2>4 DEF NativeTypes, Accepts, IntTypes, Bits
    <3>2. x = ReadDecimal(c)
      BY <2>1, <2>4 DEF FromSql
    <3>3. PICK d \in DecimalsOf(c) : x = <<"Decimal", d>>
      <4>1. DecimalsOf(c) # {}
        BY <3>2, NotRead DEF ReadDecimal
      <4>2. QED BY <3>2, <4>1 DEF ReadDecimal, Some
    <3>4. \/ d = CellNumber(c)
          \/ HasNoRoom(CellNumber(c)) /\ Nearest(d, CellNumber(c))
      <4>1. CASE Kind(c) \in {"SmallMoney", "Money"}
        BY <3>3, <4>1, NumberIs DEF DecimalsOf
      <4>2. CASE Kind(c) \in {"Decimal", "Numeric"}
        <5> DEFINE m == Payload(c)[1]
                   s == Payload(c)[2]
        <5>1. CellNumber(c) = <<m, s>> /\ m \in Int /\ s \in 0..MaxDigits
          BY <4>2, NumberIs
        <5>2. d \in ParseDecimal(m, s)
          BY <3>3, <4>2 DEF DecimalsOf
        <5> HIDE DEF m, s
        <5>3. d = <<m, s>> \/ (HasNoRoom(<<m, s>>) /\ Nearest(d, <<m, s>>))
          BY <5>1, <5>2, ParsedNear
        <5>4. QED BY <5>1, <5>3
      <4>3. QED BY <3>1, <4>1, <4>2
    <3>5. Number(type, x[2]) = d /\ x[2] = d
      BY <3>1, <3>3 DEF Number
    <3>6. Kind(c) \notin TextKinds
      BY <3>1 DEF TextKinds
    <3>7. QED BY <2>4, <3>1, <3>4, <3>5, <3>6 DEF ReadExactly
  <2>5. CASE type = "String"
    <3>1. x = <<type, Payload(c)>> /\ Kind(c) \in TextKinds
      BY <2>1, <2>5 DEF FromSql, Some, Accepts
    <3>2. Kind(c) \notin Numeric
      BY <3>1 DEF Numeric, Integers, TextKinds
    <3>3. QED BY <3>1, <3>2 DEF ReadExactly
  <2>6. CASE type \notin IntTypes \cup {"f32", "f64", "Decimal", "str", "String"}
    <3>1. type # "char"
      BY DEF NativeTypes, Accepts
    <3>2. QED BY <2>6, <3>1 DEF ReadExactly
  <2>7. QED BY <1>3, <2>2, <2>3, <2>4, <2>5, <2>6
<1>4. QED BY <1>2, <1>3

\* A bit fits every integer.
LEMMA BitFits ==
  ASSUME NEW type \in IntTypes
  PROVE  Fits(type, 0) /\ Fits(type, 1)
<1>1. /\ ByteBits \in Nat \ {0} /\ 2 * ByteBits \in Nat \ {0} /\ 4 * ByteBits \in Nat \ {0}
      /\ 8 * ByteBits \in Nat \ {0} /\ ByteBits - 1 \in Nat \ {0} /\ 2 * ByteBits - 1 \in Nat \ {0}
      /\ 4 * ByteBits - 1 \in Nat \ {0} /\ 8 * ByteBits - 1 \in Nat \ {0}
  BY SqlValuesAssumption
<1>2. /\ \A n \in Nat \ {0} : 2^n > 1 /\ 2^n \in Int
  BY WidthsNest, TwoIs
<1>3. CASE type \in {"u8", "u16", "u32", "u64"}
  <2>1. Bits[type] \in Nat \ {0}
    BY <1>1, <1>3 DEF Bits
  <2>2. \A n : Fits(type, n) <=> n >= 0 /\ n < 2^Bits[type]
    BY <1>3 DEF Fits, Unsigned
  <2>3. 2^Bits[type] > 1 /\ 2^Bits[type] \in Int
    BY <1>2, <2>1
  <2>4. QED BY <2>2, <2>3
<1>4. CASE type \in {"i8", "i16", "i32", "i64"}
  <2>1. Bits[type] - 1 \in Nat \ {0}
    BY <1>1, <1>4 DEF Bits
  <2>2. \A n : Fits(type, n) <=> n >= -(2^(Bits[type] - 1)) /\ n < 2^(Bits[type] - 1)
    BY <1>4 DEF Fits, Unsigned
  <2>3. 2^(Bits[type] - 1) > 1 /\ 2^(Bits[type] - 1) \in Int
    BY <1>2, <2>1
  <2>4. QED BY <2>2, <2>3
<1>5. CASE type \in {"u128", "i128"}
  <2>1. \A n \in Nat : Fits("u128", n) /\ Fits("i128", n)
    BY DEF Fits, Unsigned
  <2>2. QED BY <1>5, <2>1
<1>6. QED BY <1>3, <1>4, <1>5 DEF IntTypes, Bits

\* serde's casts: of a float, of an integer and of Money's quotient.
LEMMA VisitFaithful ==
  ASSUME NEW type \in FloatTypes, NEW c, CellLike(c), c # Null, Sound(c), Divided(c),
         Kind(c) \in {"Real", "Float", "SmallMoney", "Money"} \cup Integers
  PROVE  Faithful(type, VisitFloat(type, c)[2], CellNumber(c))
<1> DEFINE p == Payload(c)
<1>1. CASE Kind(c) \in {"Real", "Float"}
  <2>1. VisitFloat(type, c) = <<type, CastFloat(type, p)>>
    BY <1>1 DEF VisitFloat, Some, Integers
  <2>2. CellNumber(c) = <<p[1], FloatScale>> /\ p \in PayloadsIn("f64")
    BY <1>1, NumberIs
  <2> HIDE DEF p
  <2>3. p[1] \in Int /\ Near("f64", p, p[1], 1)
    BY <2>2, FloatKept DEF FloatTypes
  <2>4. Near(type, CastFloat(type, p), p[1], 1)
    BY <2>3, NearTwice
  <2>5. p[1] * 10^(FloatScale - FloatScale) = p[1]
    BY <2>3, TenIs
  <2>6. Faithful(type, CastFloat(type, p), <<p[1], FloatScale>>)
    BY <2>4, <2>5, FaithfulIs
  <2>7. QED BY <2>1, <2>2, <2>6
<1>2. CASE Kind(c) \in Integers
  <2>1. VisitFloat(type, c) = <<type, CastInt(type, p)>>
    BY <1>2 DEF VisitFloat, Some, Integers
  <2>2. CellNumber(c) = <<p, 0>> /\ p \in Int
    BY <1>2, NumberIs
  <2> HIDE DEF p
  <2>3. p * 10^FloatScale \in Int /\ FloatScale - 0 = FloatScale
    BY <2>2, TenIs, SqlValuesAssumption
  <2>4. Near(type, CastInt(type, p), p * 10^FloatScale, 1)
    <3>1. 1 \in Int /\ 1 > 0
      OBVIOUS
    <3>2. QED BY <2>3, <3>1, CastNear DEF CastInt
  <2>5. Faithful(type, CastInt(type, p), <<p, 0>>)
    BY <2>3, <2>4, FaithfulIs
  <2>6. QED BY <2>1, <2>2, <2>5
<1>3. CASE Kind(c) \in {"SmallMoney", "Money"}
  <2> DEFINE raw == RawMoney(c)
             u == 10^(FloatScale - MoneyScale)
             q == MoneyAsF64(c)
  <2>1. VisitFloat(type, c) = <<type, CastFloat(type, q)>>
    BY <1>3 DEF VisitFloat, Some, Integers
  <2>2. CellNumber(c) = <<raw, MoneyScale>> /\ raw \in Int /\ raw * 10^FloatScale \in Floats["f64"]
    BY <1>3, NumberIs DEF Divided
  <2>3. Near("f64", q, raw * u, 1)
    BY <2>2, MoneyNear
  <2>4. raw * u \in Int
    BY <2>2, TenIs
  <2> HIDE DEF raw, u, q
  <2>5. Near(type, CastFloat(type, q), raw * u, 1)
    BY <2>3, <2>4, NearTwice
  <2>6. Faithful(type, CastFloat(type, q), <<raw, MoneyScale>>)
    BY <2>5, FaithfulIs DEF u
  <2>7. QED BY <2>1, <2>2, <2>6
<1>4. QED BY <1>1, <1>2, <1>3

LEMMA SerdeExact ==
  ASSUME NEW type \in SerdeTypes, NEW c, CellLike(c), c # Null, Sound(c),
         Success(DeserializeOption(type, c, DecodedOf(c)))
  PROVE  ReadExactly(type, c, DeserializeOption(type, c, DecodedOf(c)))
<1> DEFINE x == DeserializeOption(type, c, DecodedOf(c))
<1>1. /\ c = <<c[1], c[2]>> /\ Kind(c) = c[1] /\ Payload(c) = c[2]
      /\ Kind(c) \in TextKinds => DecodedOf(c) = <<Payload(c)>>
      /\ Kind(c) \notin TextKinds => DecodedOf(c) = <<>>
      /\ x = Deserialize(type, c, DecodedOf(c))
  BY CellIs DEF DeserializeOption
<1>2. CASE type \in IntTypes
  <2>1. x = VisitInt(type, c)
    BY <1>1, <1>2 DEF Deserialize, IntTypes, Bits
  <2>2. Kind(c) \in Integers \cup {"Bit"} /\ Kind(c) \notin TextKinds
    <3>1. Kind(c) \in Integers \cup {"Bit"}
      BY <2>1, NotRead DEF VisitInt
    <3>2. QED BY <3>1 DEF Integers, TextKinds
  <2>3. CASE Kind(c) \in Integers
    <3>0. VisitInt(type, c) = IF Fits(type, Payload(c)) THEN <<type, Payload(c)>> ELSE Error
      BY <2>3 DEF VisitInt, Some, Integers
    <3>1. x = <<type, Payload(c)>> /\ Fits(type, Payload(c))
      BY <2>1, <3>0, NotRead
    <3>2. Number(type, x[2]) = CellNumber(c)
      BY <1>2, <2>3, <3>1, NumberIs DEF Number
    <3>3. QED BY <1>2, <2>2, <3>1, <3>2 DEF ReadExactly, IntTypes, Bits
  <2>4. CASE Kind(c) = "Bit"
    <3> DEFINE n == IF Payload(c) THEN 1 ELSE 0
    <3>1. x = <<type, n>>
      BY <2>1, <2>4 DEF VisitInt, Some, Integers
    <3>2. n \in {0, 1}
      OBVIOUS
    <3>3. CellNumber(c) = <<n, 0>>
      BY <2>4, NumberIs
    <3> HIDE DEF n
    <3>4. Fits(type, n)
      BY <1>2, <3>2, BitFits
    <3>5. Number(type, x[2]) = CellNumber(c)
      BY <1>2, <3>1, <3>3 DEF Number
    <3>6. QED BY <1>2, <2>2, <3>1, <3>4, <3>5 DEF ReadExactly, IntTypes, Bits
  <2>5. QED BY <2>2, <2>3, <2>4
<1>3. CASE type \in FloatTypes
  <2>1. x = VisitFloat(type, c) /\ type \notin IntTypes
    BY <1>1, <1>3 DEF Deserialize, IntTypes, Bits, FloatTypes
  <2>2. Kind(c) \in {"Real", "Float", "SmallMoney", "Money"} \cup Integers
    BY <2>1, NotRead DEF VisitFloat
  <2>3. Kind(c) \notin TextKinds
    BY <2>2 DEF Integers, TextKinds
  <2>4. Divided(c) => Faithful(type, x[2], CellNumber(c))
    BY <1>3, <2>1, <2>2, VisitFaithful
  <2>5. type \notin {"Decimal"} \cup IntTypes
    BY <1>3 DEF FloatTypes, IntTypes, Bits
  <2>6. QED BY <2>1, <2>3, <2>4, <2>5 DEF ReadExactly
<1>4. CASE type \in {"str", "char"} /\ Kind(c) \in TextKinds
  <2>1. DecodedText(DecodedOf(c)) = Payload(c) /\ DecodedOf(c)[1] = Payload(c)
    BY <1>1, <1>4 DEF DecodedText
  <2>2. CASE type = "str"
    <3>1. x = VisitStr(c, DecodedOf(c))
      BY <1>1, <2>2 DEF Deserialize, IntTypes, Bits
    <3>2. x = <<"text", Payload(c)>>
      BY <1>4, <2>1, <3>1 DEF VisitStr, Some, TextKinds, Temporals
    <3>3. QED BY <2>2, <3>2 DEF ReadExactly, IntTypes, Bits
  <2>3. CASE type = "char"
    <3>1. x = VisitChar(DecodedOf(c))
      BY <1>1, <2>3 DEF Deserialize, IntTypes, Bits
    <3>2. x[2] = Payload(c)
      BY <2>1, <3>1, NotRead DEF VisitChar, Some
    <3>3. QED BY <2>3, <3>2 DEF ReadExactly, IntTypes, Bits
  <2>4. QED BY <1>4, <2>2, <2>3
<1>5. CASE type \in {"str", "char"} /\ Kind(c) \notin TextKinds
  BY <1>5 DEF ReadExactly, IntTypes, Bits
<1>6. CASE type \notin IntTypes \cup {"f32", "f64", "str", "char"}
  <2>1. type \notin {"Decimal", "String"}
    BY DEF SerdeTypes, IntTypes, Bits
  <2>2. QED BY <1>6, <2>1 DEF ReadExactly
<1>7. QED BY <1>2, <1>3, <1>4, <1>5, <1>6 DEF FloatTypes

LEMMA ExactFound == ASSUME VInv, NumbersInv, ReadersAgree PROVE ReadsAreExact
<1> SUFFICES ASSUME AtRow, NEW i \in DOMAIN values
    PROVE  /\ \A type \in NativeTypes : ReadExactly(type, values[i], TryGetIndex(type, i))
           /\ \A type \in CompatTypes : ReadExactly(type, values[i], TryGetCompat(type, i))
           /\ \A type \in SerdeTypes :
                ReadExactly(type, values[i], DeserializeOption(type, values[i], Decoded(i)))
  BY DEF ReadsAreExact, ReadExactly
<1> DEFINE c == values[i]
<1>1. CellLike(c) /\ Sound(c) /\ Decoded(i) = DecodedOf(c)
  <2>1. RowTyped(metadata, values, decoded)
    BY DEF VInv, PathInv
  <2>2. QED BY <2>1 DEF RowTyped, NumbersInv, AllSound, Decoded
<1>2. \A type : TryGetIndex(type, i) = FromSql(type, c, DecodedOf(c))
  BY <1>1 DEF TryGetIndex, TryGetAt
<1>3. \A type \in NativeTypes \cap CompatTypes :
        Success(TryGetCompat(type, i)) => TryGetIndex(type, i) = TryGetCompat(type, i)
  BY DEF ReadersAgree
<1>4. \A type, x : ~Success(x) => ReadExactly(type, c, x)
  BY DEF ReadExactly
<1> HIDE DEF c
<1>5. CASE c = Null
  BY <1>5, NullExact DEF c
<1>6. CASE c # Null
  <2>1. ASSUME NEW type \in NativeTypes PROVE ReadExactly(type, c, TryGetIndex(type, i))
    BY <1>1, <1>2, <1>4, <1>6, NativeExact
  <2>2. ASSUME NEW type \in CompatTypes PROVE ReadExactly(type, c, TryGetCompat(type, i))
    <3>1. CASE type \in NativeTypes
      BY <1>3, <1>4, <2>1, <3>1
    <3>2. CASE type \notin NativeTypes
      <4>1. type \in {"Utc", "DecimalParts"}
        BY <3>2 DEF CompatTypes, Exact, NativeTypes, Accepts
      <4>2. QED BY <4>1 DEF ReadExactly, IntTypes, Bits
    <3>3. QED BY <3>1, <3>2
  <2>3. ASSUME NEW type \in SerdeTypes
        PROVE  ReadExactly(type, c, DeserializeOption(type, c, Decoded(i)))
    BY <1>1, <1>4, <1>6, SerdeExact
  <2>4. QED BY <2>1, <2>2, <2>3 DEF c
<1>7. QED BY <1>5, <1>6

\* No reader of a row returns another text than its cell holds, or another
\* number where the type asked for has that number, for all values that a row
\* can hold, any widths and any floats: Money's halves, integers read as narrower
\* or wider ones and bits among them.  A decimal is rounded only where a Rust
\* Decimal has no room for its digits or its scale, and then to the nearest; a
\* float, cast from whatever number serde finds, is that number or a neighbour
\* of it, and infinite only past every float of its type, except of Money whose
\* count of ten-thousandths no f64 is (row.rs, compat/conversion.rs,
\* serde_de.rs).
THEOREM ReadsAlwaysExact == Spec => []ReadsAreExact
<1>1. VInv /\ NumbersInv /\ ReadersAgree => ReadsAreExact
  BY ExactFound
<1>2. QED BY <1>1, PathInvariance, AlwaysSound, ReadersAlwaysAgree, PTL

=============================================================================
