# A TLA+ development of mssql-tiberius-bridge

The bridge gives the native `mssql-tds` driver a tiberius-style API: a `Client`
over one connection, prepared statements, streams, bulk insert and a deadpool
manager.  Its own logic is small and sits where tests reach least: what a
connection may be used for after a future was dropped in the middle of its I/O,
a reset failed halfway, a prepared statement outlived its session, a stream was
abandoned or a pooled client changed hands.  Around it lie the conversions between
Rust values, parameters, cells and rows, three readers wide.  This directory
models both, checks them with TLC on small instances, and proves the safety of
the client, the pool, the readers of a response, the bulk load and the dates and
times for every instance with TLAPS.

Line references are to the repository: `client.rs` is `src/client.rs` there.

## 1. Inventory

| Part | State it keeps | Operations | Hard behaviour |
|---|---|---|---|
| `Client` (client.rs) | native client with its dead flag and unread response, session token `Arc<()>` | connect, simple_query, query, execute, query_compat / query_streamed, prepare, query_prepared, execute_prepared, unprepare, reset_session, ping, bulk_insert, inner_mut | cancellation at every await, leftovers of an abandoned stream, half-done reset |
| drop guards (operation.rs, `SessionReset` in client.rs) | armed flag | new, complete, drop | one guard per await in a stream, one per call elsewhere; `complete` disarms on errors too, `SessionReset` does not |
| `PreparedStatement` (prepared.rs) | handle number, clone of the session token | prepare, validate_session, query, execute, close, drop | stale after reset, on another client, after reuse of a number or an address |
| `TdsManager` (pool.rs) | recycling method | create, recycle | recycle dropped or failed, dead clients in the queue, max_size |
| `QueryStream` (compat.rs) over the `query_compat` generator | look-ahead item, current columns, generator position | poll_next, columns, into_results, into_row_stream | dropped polls, errors met by the look-ahead, empty sets |
| buffering loops (client.rs) | rows, sets, counts | collect_results, collect_execute_results | statements with rows, with counts, with neither; errors while skipping |
| `BulkInsert`, `BulkLoadRequest` (bulk.rs) | options, retained rows, row width | builder, send, finalize, send_arrow_batches | no close_query before the native bulk copy; a rejected row; a copy that fails or is dropped after some batches |
| dates and times: query.rs (`ToSql`), row.rs (`FromSql`) | none | conversions for chrono, time, jiff | units of 100 ns, leap seconds, ends of ranges, three epochs |
| Arrow values (bulk_arrow.rs) | none | arrow_value_to_column_value | nulls, units, instants before 1970, far instants, decimal padding |
| parameters: query.rs, compat/conversion.rs, vector.rs, prepared.rs | none | ToSql, IntoSql, typed NULLs, encoding of strings, declarations | values bound as others, sizes of text, a sample that decides for later values |
| rows: `RowSchema`, `BridgeRowWriter`, `Row` (row.rs) | names, values, decoded texts, compatibility values | write_..., from_schema, lookup by index and name, cells, equality | two vectors in step, shared names, rows of the wrong length |
| readers of a cell: row.rs, compat/conversion.rs, serde_de.rs | index of the visited column (serde) | FromSql, Tiberius' FromSql, Deserializer | three answers for one cell: None, an error, a value; widths and rounding |
| column types (column.rs) | none | from_tds, char_length, typed NULLs | the type decides what a NULL reads as |
| `Config` (config.rs) | builder fields | setters, datasource_string, to_client_context | order of setters, settings that exclude each other |
| error.rs, lib.rs | none | Display, re-exports | none |

How they interact: every call of `Client` borrows the native client through a
guard; a `PreparedStatement` reaches the server only through a `Client` that
accepts its token; the pool owns idle clients, lends each to one task, and calls
`ensure_usable` and `reset_session` (or `ping`) on checkout; `QueryStream` drives
the generator, which drives the driver; the driver writes cells into a row, which
the readers share; a `Config` decides how a client sends strings.  The driver, SQL
Server, tokio and deadpool are external.

What makes each part correct is listed with the runs in section 4.

## 2. Modules

| Module | Role |
|---|---|
| `BridgeClient` | Client, guards, statements, bulk send: one action per call start and per await that resolves |
| `ClientPromise` | the contract of client.rs and prepared.rs as a caller knows it, with no guards, tokens, handles or wire |
| `BridgeClientRefines` | the refinement mapping, `KeepsPromise` |
| `BridgeClientInv` | the inductive invariant `IInv`, in named parts |
| `BridgeClientProofs` | the proofs about the client, and that it keeps `ClientPromise` |
| `TdsPool` | the pool: composes an instance of `BridgeClient` with deadpool's checkout |
| `TdsPoolInv`, `TdsPoolProofs` | the pool's inductive invariant `PInv` and the proofs |
| `NativeResponse` | the driver's cursor over a response (external) and the reference reading of it |
| `QueryStream` | the generator of query_compat under `QueryStream` |
| `BufferedResults` | collect_results, collect_execute_results, and `RowStream` over a result |
| `ResponseReaders` | composes the two over one response; what is checked and proved of either is stated here |
| `QueryStreamInv`, `ResponseReadersInv` | the invariants of the stream and of the buffering loops, in named parts |
| `QueryStreamProofs`, `ReaderProofs` | the lemmas about the stream's steps, and the theorems about both readers |
| `BulkLoad` | `BulkLoadRequest` and `BulkInsert::send` over one client and one table |
| `BulkLoadInv`, `BulkLoadProofs` | the load's inductive invariant `BInv` and the proofs |
| `TemporalUnits` | times of day in units of 100 ns, used by the next two |
| `Temporal` | a date or time bound, stored and read back |
| `TemporalInv`, `TemporalProofs` | the invariant `TInv` of that journey, and the proofs for all units, days and offsets |
| `ArrowValues` | a cell of an Arrow array on its way into a bulk copy |
| `ArrowProofs` | its invariant and the proofs for all units and coefficients |
| `SqlValues` | how values are written down: variants, typed NULLs, widths, decimals, money |
| `Parameters` | Rust values to parameters, by the native, the Tiberius and the owned API |
| `Columns` | column types, typed NULLs, cells to `ColumnData` and back |
| `Readers` | the native reader, Tiberius' reader and serde's, for every type |
| `Config` | the setters of a `Config` and what a connection is made from |
| `ValuePath` | composes the last five: from a `Config` to a bound value, a row, its readers, and a copy of it |
| `ValuePathInv`, `ValuePathProofs` | the invariant `VInv` of that way, in named parts, and the proofs for all values, texts, columns and settings |
| `MC...` | constants and symmetry sets for TLC |

### BridgeClient

An async method is a future.  It runs from one `await` on the driver to the next
and can be dropped only at one; `pc[c]` names the await at which the future that
borrows client `c` is suspended.  Starting a call (`Begin...`) is the code up to
its first await: `ensure_usable`, `validate_session`, arming the guard, and for a
reset the replacement of the token.  The actions that follow are what can come
back from that await: success, a SQL error (`RequestError`, the driver drains and
stays alive), a connection error (`ConnectionError`, the driver marks itself
dead), or `Cancel`, the drop of the future, which runs the guard's `Drop`.

| Variable | Code |
|---|---|
| `alive`, `token` | a `Client` in the slot, `Client::prepared_session` |
| `dead` | `TdsClient::is_connection_dead` |
| `torn` | history: a native call was abandoned or broke in the middle |
| `wire` | unread tokens on the connection: none, of the running call, of an earlier one |
| `session`, `prepared` | server: what of the session differs from a fresh login, and its handle table |
| `stmt` | the `PreparedStatement` values |
| `guard` | `Operation` or `SessionReset` armed in the future |
| `kind`, `arg`, `sent`, `got`, `outcome` | the current or last call: its statement, requests handed over, whose rows it delivered, how it ended |

Abstracted: SQL text, parameter and row values, the number of rows (a row is an
event), timing.  `query`, `simple_query` and `execute` are one kind of call, and so
are `query_prepared` and `execute_prepared`: they differ in the loop that reads
the response, which is the subject of `ResponseReaders`.  `inner_mut` is modelled
under its documented contract (live client, completed native calls).

Assumptions about the external parts, all taken from how the code and its tests
use them: a completed SQL error leaves a drained, live connection; a network
error marks the connection dead; `close_query` may return an error of the query
it drains; RESETCONNECTION clears the session and its handles but not the
isolation level; `Arc::new` returns an address no live `Arc` has; sp_prepare
returns a number not in use in that session.  What the native bulk copy does over
unread results is not visible in this repository; the model allows both, to read
them or to refuse.

### TdsPool

A task that calls `get()` queues for a permit, then recycles idle clients until
one is accepted, and creates one when none is left.  The body of `recycle` is
`Client!BeginReset` or `Client!Ping` of the instance of `BridgeClient`; its later
awaits are `BridgeClient`'s actions.  A recycle can be dropped by the recycle
timeout or because `get()` itself is dropped.  The holder may make any call,
cancel it, drop a stream it no longer reads (`DropStream`), and give the client back
in any state that the borrow rules allow.  Permits, queue and ownership are
deadpool's and are modelled only so that the properties can speak of what one
holder leaves to the next; `TypeOK` is the only property that looks at them.

### NativeResponse, QueryStream, BufferedResults, ResponseReaders

A response is a sequence of tokens (result set, row, end of a statement with or
without a count, error), and a row is named by its position in it, so that loss,
repetition, reordering and misattribution are all visible.  `QueryStream` lets the
caller start and drop polls of `next()` and `columns()` at will and finally call
`into_results`; the generator advances only while it is polled.  `BufferedResults`
is the loops of query() and execute(); a complete `QueryResult` gives its rows out
as a `RowStream`, item by item, or as its first set.  A behaviour of
`ResponseReaders` picks one response and one reader.  The properties compare what
the reader returns with the response itself, so the readers also agree with each
other.

### BulkLoad

`BridgeClient` treats a bulk insert as one guarded native call; `BulkLoad` looks
inside it.  `Begin` is awaiting the builder (into_future), `Send` retains a row or
refuses it for its width, `Finalize` hands the retained rows to `BulkInsert::send`,
and `SendNative` and `SendArrowBatches` call it with rows whose widths nobody has
compared.  `WriteRow` is the native copy serialising one row through
write_to_packet; between two rows the copy can be rejected by the row, by the
table or the server, lose its connection, or be dropped.  A row has a number, a
width and what the native writer or the server will object to.  `table` is the
destination; after an error or a drop it keeps any whole batches of the rows
(`batch_size`), because BulkCopy commits batch by batch.  An error is
its variant and what its message starts with, since `Mapped` looks at both: only a
UsageError whose message starts like a row's or a column's is bad input, and a server
may word its own errors alike.  Whether a rejected row leaves the connection alive
is the native driver's and is left open.  A row of an Arrow batch may have a cell
that does not convert, which write_to_packet reports as it does any bad row; what a
cell converts to is the subject of `ArrowValues`.

### TemporalUnits, Temporal, ArrowValues

The conversions are pure, so a behaviour of `Temporal` is the journey of one value:
`Bind` (to_sql, which panics for a date SQL Server lacks), `Store` (the server, which
refuses a time of 24 hours or an offset above 14 hours), `FromSql` of any kind;
or a cell of any SQL type that another program stored, and `FromSql`.  The units
(hours in a day, nanoseconds in a tick, ...) are constants, so that a day is short
enough to enumerate.  The three libraries' calendars are external: a date is a
day number.  They differ in what counts: only chrono has leap seconds, and only
jiff's `Timestamp` ends before SQL Server's range does.  `ReadAs` is one operator for
all three, since the time and jiff conversions call chrono's.

A behaviour of `ArrowValues` is one conversion.  The values of integer, float,
string and binary arrays are taken over unchanged, so only their types matter and
the cell is 0 or 1; dates, times, timestamps and decimals are computed.  Decimal
strings are sequences of digits.

### SqlValues, Parameters, Columns, Readers

These modules have no state: they are the conversions as operators over the cells
and values of the model.  A value is `<<variant, payload>>`, a typed NULL is
`<<variant>>`.  What a conversion does with the variant, with a NULL and with a
number that is too wide, too precise or too long is spelled out, since that is
where three readers and three ways to bind a value can disagree.  Integers have the
widths of their types in bytes of `ByteBits` bits, decimals a mantissa and a scale,
money its two halves.  A float is a multiple of 10^-`FloatScale` from the set of its
type, `Floats.f32` or `Floats.f64`, and `Beyond` is where its exponent ends: `Cast`
(Rust's `as` and division) gives a nearest float, of two as near either, and an
infinity from halfway to `Beyond` on.  Money as a float rounds twice, its 64-bit count
of ten-thousandths and then the quotient, as money_to_f64 does.  A Decimal has room
for `MaxMantissa` and for `MaxScale`, rust_decimal's 96 bits and 28 places.  A text is a token with a length and what serde_json makes of
it; binary values, UUIDs, vectors, dates and times are tokens.  time and jiff
convert through chrono, so one set of types stands for the three.

`Readers` has one operator per reader: `FromSql` (None for a cell of another type),
`FromColumnData` (an error for it) and `Deserialize` with serde's requests by width.
`KindsHeld` says which cells the driver reads from a column (external): one variant by
the column's TDS type or its length, and many for sql_variant.  The fixed-length types
binary(n), char(n) and smallmoney NOT NULL (BigBinary, BigChar, Money4) are among
them, though column.rs:87 has no type for them; it calls their columns `Null`.

### Config, ValuePath

`Config` calls setters in any order, each with every value it takes, and then
`Connect` makes the data source and the context.  `ValuePath` continues: the client
keeps whether strings are sent as Unicode (`Login`), a value is bound (`Bind`), sent
and echoed by the server (`Send`), or a row is selected from a table (`Select`); the
driver writes the cells (`WriteColumn`), the row is taken (`TakeRow`) or made by hand
with a length of its own (`FromSchema`), its cells are bound again (`Rebind`), or
serde visits it (`StartVisit`, `NextKey`, `NextValue`, `NextElement`).  Lookups are
operators of a row, so that the properties can ask for every name, index and type
in every state with a row.

The server is external: it stores the parameter it was sent and describes it as a
nullable column.  Two things are left to the driver and the behaviour ends before
them: a text longer than its parameter, and a vector the driver refuses, which the
bridge sends as NULL.

## 3. Correspondence of steps and code

`PROJECT.json` maps every definition to its lines.  A few that are not obvious:

* `Return` and `Arm` are the two outcomes of `Operation::new`; `End` is the drop of
  the future with its locals.
* `Complete` and `Fail` are `Operation::complete` for a value and for an error.  For
  a reset, `Fail` is the early return that drops `SessionReset` incomplete.
* `DropArg` is the drop of an argument owned by the future: `unprepare` takes its
  statement by value, so a refused or failed `unprepare` leaks the handle.
* `BeginReset` changes `token` before the first await, as line 147 does.
* `Start` of `BulkLoad` is the common part of finalize and send: `Operation::new`, whose
  refusal of a dead client drops the rows.
* `Message` is write_to_packet's and the native writer's first complaint about a row;
  cells are written in order, so the complaint about a surplus column comes after
  a cell that does not convert.
* `Timestamp` uses TLA+'s `\div` and `%` for div_euclid and rem_euclid; `OffsetMinutes`
  spells out Rust's truncating division.
* `StreamReply` and `StreamAdvanced` yield `Metadata` without a guard; `StreamPoll`
  arms a new one, as the inner blocks of the generator do.
* `ReadTo` of `NativeResponse` moves the driver's cursor; `NextIs` is what next_row and
  move_to_next find there.
* `Loop` of `ResponseReaders` is any step of a buffering loop; `Ready` is a poll of the
  stream that makes progress or returns.
* `WriteColumn` stands for all write_... methods of `BridgeRowWriter`: `Append` to both
  vectors is what they share, and `DecodedOf` is what the string ones add.
* `NextKey`, `NextValue` and `NextElement` are next_key_seed, next_value_seed and
  next_element_seed under the visitors that serde derives (external): a struct
  ignores what it did not ask for and refuses a name it has seen, a tuple takes as
  many elements as it has.
* `Login` is the line of connect that keeps the setting, and the `Config` is dropped.

## 4. Runs

| Run | Instance | States | What it shows |
|---|---|---|---|
| `client_calls` | 1 client, 1 statement, 2 handles, 3 addresses, all calls | 3 thousand | an abandoned connection is dead; rows are one's own; a reset is all or nothing; one request per call; `BridgeClient` implements `ClientPromise` |
| `client_statements` | 2 clients, 2 statements, 2 handles, 4 addresses, the calls that use statements | 89 thousand | `IInv`; `HandleSound`: the server executes the statement the caller passed; `ClientPromise` across clients |
| `pool` | 1 client, 1 permit, 2 tasks, all calls, both recycling methods | 173 thousand | a checkout sees nothing of the one before; no dead client is handed out; `get()` ends |
| `responses` | responses of up to 6 tokens, both readers | 364 thousand | nothing lost, repeated or misattributed by the stream; rows and columns() described by their metadata; sets grouped as sent; results, counts and `RowStream` equal the reference; an error reaches the caller once; both readers end |
| `bulk_load` | 2 columns, rows of width 1 to 3, batches of 2, 3 rows offered | 47 thousand | a load reported complete holds exactly the accepted rows, all of one width; whatever fails, the table holds a beginning of them; an unsent request costs nothing; bad input is told from other errors |
| `temporal` | a day of 12 seconds, 4 days, ends of every range | 211 thousand | round trips are exact to the tick, leap seconds and odd offsets included; panics and refusals only where documented; date and date-time readings of a cell agree; datetime units stay apart and in order; no stored value reads as None but jiff's late instants |
| `arrow_values` | the same day, 64 bits scaled to reach 4 days, 4 digits | 4 thousand | integers fit, dates, times, timestamps and decimals are exact or refused |
| `value_path` | bytes of 2 bits, every type by every API, a column of every TDS type, rows of 1 or 2 columns | 1.6 million | a bound value reads back as itself; the three readers agree; what a reader returns is the cell's number or text, rounded only where the type has no room for it; a row bound again reads the same; a declaration fits later values; names, indices and serde's fields lead to the same cell; the driver gets what was last set |

Four runs expect a violation.  Each checks what a comment or a document says against
what the code does:

| Run | Comment | Code |
|---|---|---|
| `arrow_nulls` | bulk_arrow.rs:111, :114, :289: a null cell becomes a typed null that the writer suppresses; null_for_arrow_type is never emitted | line 115 returns null_for_arrow_type's zero or empty value, the same `ColumnValues` an ordinary cell gets |
| `arrow_times` | query.rs:497, row.rs:573: time_nanoseconds is in units of 100 ns | lines 218 and 261 store nanoseconds |
| `arrow_far_timestamps` | bulk_arrow.rs:89: an error for values outside the destination's range | lines 226, 230 and 234 clamp them to the ends of 64-bit nanoseconds, in 1677 and 2262 |
| `typed_nulls` | row.rs:180, docs/data-api-compatibility.md:42-43: a typed NULL that the target type can read is Ok(None) | column.rs:87 names a binary(n) column `Null`, and conversion.rs:268-276 makes of its NULL a text's, so try_get_compat of bytes is an error |

What mssql-tds does with such values on the wire is outside this repository; the
runs show that the bridge's own two readings differ, not what a server stores.

Why the bounds are enough.  The client's calls interact through one connection
only, so one client shows every sequence of calls on it; two are needed for a
statement that meets a foreign or a reconnected client, two statements for one
handle number reused while the other statement is alive, and one address more
than the clients and statements can hold for a reset to find a fresh one while
an old one is still referenced.  The pool's run
has one task more than permits, so that one waits for what the other leaves
behind, and one client, which a rejected one's successor replaces; the tasks of a
larger pool meet only through deadpool's queue, and the theorems cover every
size.  The recycling method is chosen in `Init` and never changes.  Six tokens hold an
empty set, a set with two rows, a statement without rows and a trailing error in
one response, and the proofs cover the longer ones.  `sent` is the only
counter and is reset by every call; the other numbers are bounded by the
response.  Model values are permuted only in runs without liveness; the
refinement mapping chooses from a set of one client at most (`TokensDistinct`).  The
response run stops when the caller has consumed the stream or has its result, and
the value runs when the value has been read (`CHECK_DEADLOCK FALSE`).

Three offered rows are a batch of two and a rest, or a row that fixes the width,
one that is refused and one that is sent after it.  `MaxOffered` is over all the
requests of a behaviour, so it also bounds them; a second request shows what the
first one left behind.  The scaled units keep every proportion that the
conversions rely on: 10 ms are 3 units of datetime, a millisecond is a whole
number of ticks and a tick more than one nanosecond, a minute has more than two
seconds (so offsets truncate to both sides of zero), and 64 bits of nanoseconds
reach neither end of SQL Server's dates.  `TemporalAssumption` and `ArrowAssumption`
state them.  `Days`, `Nanos`, `Offsets` and `Amounts` hold both sides of every edge;
stored cells are enumerated in full.  The local date of a stored datetimeoffset is
assumed to be in range, as SQL Server requires; offsets are checked up to 14 hours.

In `value_path`, bytes of 2 bits keep the proportions of the integer types (each
width is half of the next, money is two halves of 8 bits in 16), and `Ints` holds
the ends of SQL Server's integer types and what lies just beyond.  Sized text
holds 3 units and there is a text of 4; decimals have 3 digits with mantissas on
both sides of `MaxMantissa` and scales on both sides of `MaxScale`, so that rounding
happens for either reason and is refused.  Floats are tenths, as money is: f64 has
every i32 of the model but not every i64, f32 has fewer and ends earlier, so that
every cast of serde_de.rs is exact for some cells, rounds others, and overflows for
some where it can.  A row of
two columns is the smallest with a shared name, two names that differ in case, a
value without a column and a column without a value; three names let a lookup
fail.  Three calls of setters are every triple in any order, also of one setter
twice; the data source depends on host, port, instance and transport, of which no
more than three matter at once.  One parameter is bound because parameters do not
interact; `Rebind` binds as many as the row has.  A copy is bound again once.

Fairness.  The client's safety needs none.  `TdsPool` assumes weak fairness of
deadpool's own steps (`Progress`: ready tasks are polled by the runtime) and of native
I/O (`IODone`: it ends in an answer or an error; without a timeout in the pool, which
`create_pool` does not set, a silent server would hold the checkout), and strong
fairness of a holder's `DropStream` and `GiveBack`: it may use its client as often as it
likes, which disables both for a while, but in the end drops its stream and returns
the client.  Calls, timeouts and cancellations are never assumed to happen, and no
reset or ping is assumed to succeed.  `GetEnds` is stated for `MaxSize = 1`.  There the
queue of idle clients is empty once the one client was refused, so deadpool's loop
over it ends; what is left to go wrong is that a client never comes to rest.  With
more permits it is false, and not because of pool.rs: two tasks that hand broken
clients back in turn can hold a third in deadpool's loop for ever.  `ResponseReaders`
assumes that a poll is polled again until it is ready (the runtime; the server
answers or fails), that a caller who is again and again free to ask for the rest of
the stream in the end does (strong fairness, since a poll that is started and
dropped disables it for a while), and that a buffering call is awaited.

Operators named `Slip...` are wrong versions of the definition that follows them.
They are used only to see that each property notices the slip.

## 5. Proofs

The theorems hold for all constants that satisfy the assumptions named in the
modules: `ConstantsAssumption`, `HomeAssumption`, `PoolAssumption`,
`ClientAssumption`, `BulkAssumption`, `MaxTokensAssumption`, `NoneAssumption`, those
of the dates and times, `ArrowAssumption`, `SqlValuesAssumption`,
`ParseJsonAssumption` and `ValuePathAssumption`, and a `PowersOfTen` in each of
`SqlValues` and `ArrowValues`, and `FloatsAssumption`.
TLC evaluates each of them in the runs.

### The client

* `Invariance`: `Spec => []IInv`
* `TypeCorrect`, `TornNeverReused`, `HandlesSound`, `ResponsesMatch`,
  `ResetsCleanOrRetire`: the safety invariants of `BridgeClient`, also those that the
  runs check only as part of `IInv` (`IOIsGuarded`, `NoGuardAtRest`, `RequestOnIdleWire`)
* `DeadForever`, `SentOnceAlways`: the action property `DeadIsFinal`, and `SentOnce`
* `PromiseKept`: `Spec => KeepsPromise`, the refinement of `ClientPromise`

None of the invariants is inductive alone.  `HandleSound` speaks of the moment
sp_execute is sent; that it holds there rests on `ServerKnows` (a statement whose
token matches is on that server, under its number) from the time it was
prepared, which survives resets only because the new token is on no statement
(`FreeTokens` excludes the clones statements keep), survives other clients'
steps only because tokens are distinct, and survives sp_unprepare only because
nobody else borrows the statement (`Aliasing`).  `TornIsDead` needs `Control`, which
says which guard is armed at which await.  `ResetAllOrNothing` needs the progress of
the reset (`ResetState`).  The proof of `NextIInv` has a lemma per part of `IInv` and
a step per action; `Frame` and `OthersStep` deal with the clients that do not move.

`PromiseKept` maps a statement to the client whose token it carries, by a CHOOSE.
The proof rests on `TokensDistinct` (there is at most one such client, so a step of
one client leaves the homes of the other clients' statements alone) and on
`ServerKnows` (what sp_execute runs is what the promise says).  Each action of
`BridgeClient` is shown to be one action of the promise or a stutter.

### The pool

* `PoolUsesClients`: every step of `TdsPool` is a step of its clients or leaves them
  alone, so what is proved of `BridgeClient` holds in the pool
* `PoolInvariance`: `Spec => []PInv`, where `PInv` says who owns each client, that no
  future borrows a queued one, and what recycling has established so far (`Vetted`)
* `PoolTyped`, `NoDeadHandedOut`, `FreshHandedOut`

That a client has one owner is a part of `PInv`, and `PermitsKept` (permits are neither
lost nor made) a lemma for `PoolTyped`: both follow from how deadpool is modelled.

`NoDeadCheckout` is not inductive: between recycle's last look at the client and
the checkout nobody may touch it, which is `Exclusive` and `AtRest`.  `FreshCheckout`
takes the facts of a completed reset from `IInv` and adds, in `Vetted`, that no
statement of an earlier holder carries the new token.

### The readers of a response

* `ReaderInvariance`: for responses of every length, `RInv`: `SInv`, `DInv` and `GInv` of
  a stream, and `BInv` of a buffering loop
* `ReadersTyped`: the type invariant of both readers
* `StreamLosesNothing`, `RowsAlwaysDescribed`, `SetsAlwaysKept`: `NothingLost`,
  `RowsDescribed` and `SetsKept` of the stream
* `ResultsAlwaysComplete`, `ErrorsTold`: `ResultsComplete` of the loops, `ErrorOnce` of both

`SInv` says where in the response each suspension point of the generator is, and that
an item peeked at is the last one let go.  `DInv` adds which set the current writer is
of, how many sets came before it, and that a described item stays described.  That
a row is preceded by the set it is attributed to is a fact about responses
(`ResponseFacts`, `NoRowsBetween`), which the skips of the generator preserve.

`SetsKept` compares the groups that into_results makes with the sets of the whole
response, which cannot be unfolded by induction here.  `GInv` says instead of the
groups made so far what is enough at the end: two rows share a group exactly when
no set starts between them, groups are in the order of their rows, and there are
as many as sets whose metadata was collected, and one more for rows of a set that
was opened before into_results was called.  `GroupsCounted` is why an empty set has
its empty Vec.

`BInv` does the same for the loops.  `Gathered` is the token up to which result_sets
is complete (inside a set it lies behind the cursor by the rows in `rows`), and
`EachSet` and `EachRow` say that the sets up to there have one Vec each, with their
rows and no others.  `EachCount` is its counterpart for execute().  `Streaming` says
that what a `RowStream` has yielded, what is left of its current set and the sets
after it are the rows of the response in order, so that skipping an exhausted set
loses nothing.  `QueryStreamProofs` states the lemmas for `QueryStream` alone;
`SameStream` and `SameProperties` carry them over to the instance in `ResponseReaders`.

### The bulk load

* `BulkInvariance`: `Spec => []BInv`, for every table width, batch size and number of
  rows
* `BulkTyped`, `CompleteLoads`, `NothingButAccepted`, `InputErrorsTold`, `UnsentStaysFree`

What a send leaves in the table follows from `Unfinished`: while a request lives, its
rows are those its callers were told are in, and the table is as it was found.

### Dates and times

* `TemporalInvariance`: `Spec => []TInv`, for all units (the real ones, where a day has
  86 400 seconds and a tick is 100 ns, among them), days, nanoseconds and offsets
* `InstantsRoundTrip`, `EdgesAlone`, `OneDate`, `LegacyOrder`, `NothingReadAsNone`: the five
  properties of the run

`TInv` carries what was bound to the moment it is read: the cell is the parameter
made of the value (`CellMade`), and one that its type allows.  The rest is arithmetic
over units that are constants, which no solver does unaided: the products are
nonlinear.  The lemmas give quotient and remainder their defining inequalities
(`Euclid`, `DivIs`, `DivDiv`, `Units`), so that each leaf is linear in named products.  Two
assumptions are about None: `NoTimeAssumption` and `NullAssumption` say that NULL is no
time of day, no date, no value and no result.

### The value path

* `PathInvariance`: `Spec => []VInv`, for every set of values, texts, columns and
  settings, rows of any length and any number of calls of setters
* `LinkAlwaysAsSet`: `LinkAsSet`
* `ValuesReadBack`: `EchoReadsBack`
* `CopiesAlwaysFaithful`: `CopiesFaithful`
* `DeclarationsAlwaysFit`: `DeclarationFits`
* `NamesAlwaysAgree`: `NamesAgree`
* `ReadersAlwaysAgree`: `ReadersAgree`
* `ReadsAlwaysExact`: `ReadsAreExact`

Each property speaks of one moment and of what went before it, so `VInv` carries
that along.  `ConfigInv` says that each field is what its last setter was given.
`PathInv` and `RowTyped` say what a row is at every step: texts and only texts are
decoded, each at its own place, whether the driver or from_schema made the row.
`EchoInv` ties the cells written and yet to be written to the parameters they echo
and their columns to what the server makes of those; `BoundInv` and `SourceInv` tie the
parameters to the caller's value, or to the row whose cells they were.  `RoomInv`
keeps what `Send` looked at, for the lengths of text columns.  `VisitInv` is serde's
progress: the fields so far are those of the wanted columns before `idx`, one each,
and why a visit ended is still to be seen in the row.

From the invariant the properties follow by tables: `ValueEchoed` and `NullSent` say
that the three APIs end in the same cell and in typed NULLs of the type, `NullEchoed`
that the echo's column gives a typed NULL its type again, `ValueRead` and `DataRead`
that each reader undoes what was done.  `CopyOfValue` and `CopyReads` do the same for
cells that are bound again.

`ReadersAgree` needs two more invariants.  serde asks for an integer by width where
FromSql asks by variant, so a cell must hold a number of its variant (`NumbersInv`,
from `Bind` to the row).  A NULL has only its column to say what it is, so the typed
NULL of a column must be one of the variants that its cells become (`NullFits`,
`KindsInv`); a nullable SMALLDATETIME is the exception, since
DateTimeN is Datetime at any length (column.rs:109), and NULL is then a DATETIME's, which
every type that reads a SMALLDATETIME reads too.

For a NULL `ReadersAgree` leaves out sql_variant, whose column does not say what it
holds, and the columns that column.rs:87 has no type for, where the readers do
disagree (`NullsReadAsNone`, section 4).  That serde reads what FromSql reads is
`SerdeSame`; where both return a float it is the same one, since a cast of a float to
its own type, and of an f32 to an f64, changes nothing (`CastExact`, `FloatKept`).

`ReadsAreExact` says of integers and text that they are the cell's; of a Decimal that it
is rounded only where it has no room for the mantissa or the scale, and then by half
a unit of its last place at most; of a float that no float of its type lies between
it and the cell's number, and that it is infinite only past them all (`Faithful`).
`Divided` excepts Money whose count of ten-thousandths is no f64: what is divided then
is not the cell's number any more.

It is shown of the native reader and of serde's; `ReadersAgree` carries it over
to Tiberius'.  It rests on `NumbersInv`: a decimal has no more places than digits, an integer
the width of its variant, and the lower half of Money is a signed integer, so that the
two halves make one number (`MoneyIs`).  A reader that rounds is bounded from both
sides (`RoundedNear`, `ParsedNear`): what it returns is within half a unit of the last
place, for every mantissa.  For floats `CastNear` gives that a cast jumps over no float,
`NearTwice` that two casts in a row do not either when the first is to a type that
has every float of the second, and `MoneyNear` the same for Money; `FaithfulIs` puts
them together.

No solver knows that powers of two grow.  `TwoIs` gets it without induction: 2^n is
the number of subsets of 1..n (`FS_SUBSET` of the library), and a subset's
cardinality is bounded (`TwoMono`).  From that follow the ranges of the integer
types and that a u8 fits an i16, that an i32 and that an i64 (`WidthsNest`).

The assumptions: every f32 and every i32 is an f64, and every integer of the model lies
between two of f64's floats (`FloatsAssumption`; 2^53 is past every i32, and the largest
f64 is about 1.8e308), a Decimal of the program fits `MaxDigits` digits and its scale is at
most that (`SqlValuesAssumption`; 2^96 - 1 has 29 digits and SQL Server takes 38),
powers of ten are positive (`PowersOfTen`), and serde_json gives one value for a text or
none, and some value for the text of an array or object (`ParseJsonAssumption`,
`ValuePathAssumption`).

A first attempt at `ValuesReadBack` failed for texts over half of 65 535 units: it
asked of every text column that `char_length` is no less than its text, and a MAX
column's length is a marker, which `char_length` (column.rs:288) reports halved as if
it were a size.  No small instance showed that.  The property now asks it of sized
columns only.

### Arrow cells

* `TimesAlwaysExact`: `TimesExact`, for all units and all amounts whose nanoseconds fit
  64 bits; beyond those the code clamps (`arrow_far_timestamps`)
* `NumbersAlwaysExact`: `NumbersExact`, for all coefficients of an i128, precisions and
  scales

`ArrowInvariance` is a lemma: an output is what the code makes of a cell that the
array's type allows.  `TimestampIs` is where the epoch matters: 64 bits of nanoseconds divided by a day are
less than 719 162 days to either side of 1970 (`ArrowAssumption`), so an instant that
does not saturate is on a day that SQL Server has, and div_euclid leaves a
non-negative time also before 1970.

A decimal goes through a string.  `Width` says that the digits written are as many as
the number needs; `FirstDigits` and `LastDigits` that the text before and after the
point reads as the quotient and the remainder by 10^scale; `Formatted` puts them
together, with the zeros that pad a coefficient of fewer digits than places.  What
a text reads as is a recursive function over its digits.  Its value is pinned down
without induction: `NumberIs` shows by a least counterexample that the recursion has
one solution, and the lemmas exhibit it (the quotients by falling powers of ten).
`PowersOfTen` (10^(n + 1) is ten times 10^n) is assumed, and so is that an i128 has at
most one digit more than `MaxDigits` (2^127 has 39 digits, `MaxDigits` is 38).

### Only model-checked

Liveness (`GetEnds`, `ReadersEnd`), which is beyond the prover, and the two
`PowersOfTen`, which TLC evaluates for the exponents of the instance.  Every invariant
and action property that a passing run checks is the subject of a theorem.  That the
code contradicts its comments (`NullsStayNull`, `TimesReadBack`,
`FarTimestampsRejected`, `NullsReadAsNone`) is shown by counterexamples, which need no proof.

## 6. Not modelled, and why

* The driver, SQL Server, tokio, deadpool and the visitors that serde derives: they
  are external.  Their part is modelled from how the code uses them.
* error.rs and lib.rs: type definitions, Display and re-exports.
* What hands values on untouched: `Collation` and the other fields of `Column`, the
  option setters and column mappings of `BulkInsert` (but for the batch size), the
  driver name in the context, debug_fmt and the Debug impls.
* `SqlType`s that a caller builds with a length of its own, and declarations of table
  and CLR types.
* What happens to text outside of a code page when strings are sent as VARCHAR, and
  native text of more than 4000 units: the driver and the server decide.
* get(), get_by_name() and the like, which are try_get with a panic; the reuse of one
  `BridgeRowWriter` after its row was taken, which the bridge never does.
* Native cooperative cancellation (`ExecuteOptions`), and native futures dropped by
  users of `inner_mut` against its contract.
* deadpool's `resize`, `close`, `retain`, `Object::take` and hooks, which pool.rs does
  not use.

## 7. Plan

What is left, in order:

1. An abstract stream of items that `QueryStream` refines.
2. The column mappings of a bulk insert, once the bridge looks at them.
