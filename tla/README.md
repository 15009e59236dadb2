# A TLA+ model of gurkle

gurkle is a typed GraphQL client for Rust. A parser and a code generator turn a
schema and a query into Rust types; a client sends the query over HTTP, or over
a WebSocket for subscriptions. This directory holds TLA+ modules that model
parts of it, the TLC configurations that check them, and proofs checked by
TLAPS. `PROJECT.json` names the lines of source each definition stands for.

    tlc -workers 2 -config MCSafety.cfg MCGraphQLWebSocket
    tlapm GraphQLWebSocketProofs.tla

Paths below are under `src/crates/`.

## 1. The system

| part | source | state | operations | hard part |
|---|---|---|---|---|
| WebSocket connection | `client/src/ws.rs` | table of subscriptions behind a `RwLock`, connection behind a `Mutex`, `id_count`; per connection a sender queue, `waiting_for_ka`, the `die` broadcast | `connect`, `subscribe`; receiver, sender, reconnecter and subscription tasks | tasks interleave at every `await`; a lock held for a connection's life; reconnects; keepalive |
| WsClient | `client/src/lib.rs` | the socket behind a `Mutex` | `new`, `subscribe` | a call dropped while it waits |
| HttpClient | `client/src/lib.rs` | none | `execute` | data together with errors |
| Input object types | `codegen/src/schema.rs`, `query.rs`, `codegen/inputs.rs` | the set of used types | the walk of the types used, the boxing of fields | cycles among types |
| Schema ingestion | `codegen/src/schema.rs`, `schema/*.rs` | vectors of types and the names map | from SDL, from JSON | ids are positions, given out before the types are stored |
| Query resolution | `codegen/src/query.rs`, `query/*.rs` | selections, fragments, operations, variables | `resolve`, validation, `collect_used_types` | recursion through fragment spreads |
| Response types | `codegen/src/codegen.rs`, `codegen/*.rs` | types, fields, variants, aliases | `calculate_selection`, `decorate_type` | variants selected in several ways; recursive fragments |
| Generator front end | `codegen/src/lib.rs`, `generated_module.rs`, `codegen_options.rs`, ... | options | naming and layout | none with state |
| Tokenizer | `parser/src/tokenizer.rs` | offset, position, look-ahead, recursion limit | `uncons`, `checkpoint`, `reset` | what a reset restores |
| Grammar | `parser/src/common.rs`, `query/grammar.rs`, `schema/grammar.rs` | none | parse values, types, definitions | strings and block strings |
| Formatter | `parser/src/format.rs`, `*/format.rs` | buffer, indent | print a document | what it prints must read back |
| Command line | `cli/src/*` | none | `generate`, `introspect-schema` | file and network I/O |
| Support program | `support/src/main.rs` | none | an example | none |

How they interact. The command line and the build script call the generator,
which calls the parser on the schema and the query, ingests the first,
resolves the second against it, and writes a module. That module calls
`HttpClient` or `WsClient`. `WsClient::subscribe` takes its mutex and calls
`GraphQLWebSocket::subscribe`, which shares the table with the receiver and
sender tasks and the connection with the reconnecter; every task talks to the
next through an unbounded channel.

What makes each part correct:

- *WebSocket*: a message reaches the subscription whose request it answers and
  no other; a live subscription is asked of the connection in use; a completed
  one is not asked again; a dead connection is noticed and replaced; the table's
  lock is not lost.
- *Input types*: the module defines what it names and no more; the structs have
  a finite size; no field is boxed without need; the generator ends.
- *Schema ingestion*: an id found by name leads to the type of that name, from
  either source format.
- *Query resolution, response types*: every field selected is in the type
  generated; the types have a finite size; recursion over fragments ends.
- *Parser and formatter*: parsing what was printed gives back the document;
  limits do not depend on how the parser backtracks.

The hazards these come from are listed, line by line, in `PROJECT.json`.

## 2. Modules

| module | what it is |
|---|---|
| `SubscriptionId` | the two ways an id is written and the one way it is read |
| `GraphQLWebSocket` | the client of `ws.rs`: specification, fairness, properties |
| `MCGraphQLWebSocket` | its instances, the view and the bounds of its runs; three facts about ids, evaluated for every id of three digits |
| `GraphQLWebSocketProofs` | its inductive invariants and theorems |
| `RoutingProofs` | which ids are read back as they were written, for every `u64`, and the theorems that rest on it: what the table hands on, and to whom |
| `NumberFacts` | least and greatest numbers, induction over an interval, for the other proofs |
| `InputTypes` | the two recursive walks over input object types, with properties |
| `MCInputTypes` | the symmetry of its types |
| `InputTypesProofs` | its inductive invariants, theorems, the finite size of the structs generated, the refinement of `Reachable`, and that what is used is what paths of fields lead to |
| `Reachable`, `ReachableProofs` | the search of a graph, what both walks over used types promise; that it finds nothing else |
| `TokenStream` | the stream of tokens: the remembered token, checkpoints, the limit on nesting |
| `Combinators` | the words the grammars are written with, as data |
| `Values`, `QueryDocument`, `SchemaDocument` | the productions of the three grammar files, and what `Display` writes of each tree |
| `Parser` | what the combinators read of a stream; `parse_query`, `parse_schema`, `consume_definition` |
| `Lexemes` | strings, block strings and numbers, character by character |
| `Literals` | a string or a number written as a literal and read again |
| `LiteralsProofs` | which strings of one line and which numbers are read as they should be, of any length |
| `SchemaIngestion` | the two conversions of a schema, pass by pass, and their invariant |
| `IngestionProofs` | that every number noted is right, and every name found, for any schema |
| `SchemaContents` | the types of fields, `decorate_type`, what a server answers, and what a schema says |
| `Documents` | texts written, edited, read, and the schemas read ingested: composes `Parser`, `Literals` and `SchemaContents`, and takes the steps of `SchemaIngestion` |
| `MCDocuments` | the documents, strings and numbers it is checked on |
| `QueryResolution` | a document bound to a schema and validated |
| `ResponseTypes` | the types used and `calculate_selection`: composes `QueryResolution`, implements `Reachable` |
| `ResolutionProofs` | that what is resolved is what is written, that the walk over the types used searches the graph of fragments, and that the module generated defines what it names, for any schema and documents |
| `MCResponseTypes` | a schema and the documents it is checked on |

Definitions whose names begin with `Bug`, or whose comment begins with
"Mutation:", are mutations: each replaces one definition to show that a property
can fail.

### GraphQLWebSocket

A connection is named by its generation: 0 is the one `connect` opens, `g + 1`
the one that replaces `g`. A step is what a task does between two `await`
points, or less where another task may run in between unseen (the timeout).

| in the model | in the code |
|---|---|
| `subs`, `stamp` | the keys of `subscriptions`; the connection whose `liveness` each handle has, compared modulo `LivenessMod` |
| `queue`, `Guards` | the waiters of tokio's fair `RwLock`; the read guards that live across steps |
| `current`, `spawned` | the connection in the mutex; the last one `GraphQLConnection::new` made |
| `sender`, `todo`, `outq`, `waiting` | where each sender task is, the handles it still visits, `rx_out`, `waiting_for_ka` |
| `answered` | history: whether an answer to the last ping was read before the timer looked at the flag, or after its signal |
| `receiver`, `message`, `die` | where each receiver task is, the message it processes, a signal in this iteration's `die_rx` |
| `link`, `handshake`, `ops`, `started`, `pinged` | the socket and the server at its other end |
| `caller`, `idCount` | the call of `subscribe` in progress, `id_count` |
| `task`, `txOf`, `channel`, `completed` | each `Subscription`: its task, the `tx` it cloned, its channel, whether its `Complete` was handed on |

- *Receiver*: `ReceiverDie` is `die_rx.recv()`; `ReceiverEnd` the two ways the
  stream ends; `ReceiverKeepAlive`, `ReceiverUndecodable` and `ReceiverMessage`
  the messages. `process_server_message` is `ReceiverDispatch` or
  `ReceiverBroadcast` under the read lock and `ReceiverCleanup` under the write
  lock. `NextIteration` renews `die_rx`, as the loop does.
- *Sender*: `SenderInit` or `SenderPanic`, `SenderLock`, one `SenderResend` per
  handle, then `SenderSend`, `SenderClosed` and `SenderPing` for the branches of its
  `select!`. A timeout is two steps, `SenderTimer`, which loads `waiting_for_ka`, and
  `SenderTimeout`, which sends on `die_tx`: the receiver runs on another thread and may
  store the flag and renew `die_rx` between them. `SenderEnd` drops
  `rx_out` after the block has dropped the guard.
- *Reconnecter*: `ReconnectNew`, then `ReconnectSwap`, whose assignment drops the
  old connection and queues its `ConnectionTerminate`. A failed attempt sleeps
  and changes nothing, so it is not an action. The reconnecter goes on whether or
  not the client is dropped.
- *subscribe*: `SubscribeCall`, `SubscribeInsert`, then `SubscribeStart` or
  `SubscribePanic`; `SubscribeCancel` when the future is dropped as it waits.
- *Subscription*: `TaskItem` and `TaskEnd`, with the `Stop` its `Drop` sends. That
  a stream was dropped by its user changes nothing: the task goes on.

An id is a sequence of digits. `SubscriptionId` divides a number until nothing is
left, 16 times at most: the digits of every `u64` in base 16, and in base 10 of the
numbers below 10^16, those that do not overflow when they are read in base 16.

External, and modelled from how the code uses them: the server (what the
graphql-ws protocol lets it send; it may stay silent), the network (a socket may
end at any time in either way), tokio's `RwLock` and channels, and the printing
and reading of integers.

### InputTypes

`fields` is any schema and `variables` any list of variables; `phase` "collect"
is `all_used_types`, "generate" is `generate_input_object_definitions`. A call in
progress is a frame of `stack`, with the field it is at. `CollectVariable`,
`VisitField` and `VisitReturn` are `used_input_ids_recursive`; `DecideField` and
`ContainsSkip`, `ContainsFound`, `ContainsDescend`, `ContainsReturn` are the
question `input_is_recursive_without_indirection` asks of each field. `ContainsFound`
empties the stack: `any` answers true at once, in every call. The stack
has room for `StackLimit` calls of that question, the next one is
`StackOverflow`. Qualifiers are reduced to whether a list is among them, the only
thing both walks read. The types a query's selection adds to the same set are left
out: none of them is an input type, so they lead no walk anywhere.

`WalkSearches` says that the walk implements `Reachable`: its roots are the
types of the variables, what a type refers to are the types of its fields, what
it has reached is the set of used types, and it is done when code is generated.

### The parser and the formatter

A text of a document is a sequence of tokens: how characters are split into
them, white space and positions are left out, except for the two kinds of token
whose inside can go wrong, strings and numbers, which `Lexemes` has character by
character. Texts that do not come from the formatter are had by editing: a token
taken out or another put in its place.

| in the model | in the code |
|---|---|
| `off`, `next_state`, `recursion_limit` of a stream | the fields of `TokenStream`; an offset counts tokens |
| `Uncons`, `Checkpoint`, `Reset` | `uncons`, `checkpoint` and `reset` |
| `consumed`, `ok` of a result | combine's four outcomes: optional, many and choice go back only when nothing was consumed |
| `Struct`, `Variant`, `Map`, `AndThen`, `Call` | `map` and `and_then` with the closures of the grammar, and its recursive functions |
| `Display...` | the `Displayable` of each type: the tokens it writes |
| `Survives` | the trees nothing of which is lost when they are written |

The grammars are data and `Parser` interprets them, so that the properties are
about the way combine backtracks over this stream, and not about a reader made
for the model. `Documents` has the caller's steps: `WriteDocument`, `Edit`,
`ParseQuery`, `ParseSchema`, `ConsumeDefinition` (as often as it succeeds), those of
`Literals` (`WriteQuoted`, `Unquote`, `WriteNumber`, `ReadNumber`), and then `BuildSchema`.
A string is any sequence of code points of which none is a surrogate, and
`unquote_string` is its loop: `Turn` reads one character or one escape. The blanks of a
block string are those of `char::is_whitespace`, Unicode's `White_Space`; its indentation
is counted in bytes (`Ends`), and a line cut inside a character is the outcome `Panic`.

### SchemaIngestion

`types` is the sequence of the types to convert, and `todo` where those are that
are still to come; `Passes` gives the kinds their turns, and one `Ingest...` action
stores the next type. `BuildFromGraphql` notes the names of every kind but scalars
(`populate_names_map`), `BuildFromJson` of all but scalars and enumerations, whose
names are noted when they are stored; `Number` is what `enumerate` gives a type,
its place among those of its kind, and `Noting` what `names.insert` does, so that the
last of a name stays. `DefineRoots` is last. A lookup that fails panics.

The module takes any document and any answer. What a field's type says of lists
and the name inside it are constants, `Qualifiers` and `BaseName`, of which nothing
is assumed: `SchemaContents` has them for the types of the documents, where they
recur over a tree. An answer is that of a server which has the schema: all the types
it names are there, each once, and those of the document are among them.
`Introspected` makes such an answer of the document: it applies the extensions and
adds the built-in scalars, and the types come in either of two orders. That is what
`SameSchema` compares the document with. `Documents` ingests with the actions of
`SchemaIngestion`, so that what is proved of every schema is true of the documents read
and of the answers made of them.

### QueryResolution and ResponseTypes

| in the model | in the code |
|---|---|
| `phase` | `create_roots`, the loop over definitions, the validations of `resolve`, or how it ended |
| `frames` | the calls of `resolve_object_selection` and its like under way, each with its remaining items |
| `query` | the `Query`: fragments, operations, selections, `selection_parent_idx`; in `sets` the `selection_set` of each fragment, operation and selection, under what a selection has for its parent |
| `item_of`, `made_for` | history: the item a selection was made of, and the fragment or operation it was made for |
| `operation`, `walk`, `used` | `select_operation`; the selections `collect_used_types` has to visit; `UsedTypes` |
| `rendering`, `context`, `calls` | the fragment or operation rendered, its `ExpandedSelection`, the calls of `calculate_selection` still to come |
| `rendered` | what the generated module has of each |

Resolution goes item by item: a selection gets its number before what is inside
it, and its place in the parent's set after. An early return, an `unwrap` and a
recursion without end are the outcomes "error", "panic" and "overflow". Types and
fields are named by their names, which `IdsMatchNames` of `SchemaIngestion` entitles
them to. A document is any member of `Written`, whose selection sets hold any `Items`;
of them it is assumed that an item is one of the three kinds, that what is inside one
are items again, and that a definition selects something, which the grammar requires
(`query/grammar.rs:77`). Of a schema it is assumed that the types it names are among its
own (`SchemaAssumption`): on any other, ingestion panics (`NothingMissing`). `resolve_selection` refuses to select on a type that has no
fields, and accepts such a type with nothing selected on it (`Resolves`). `calculate_selection` makes its recursive calls in the middle of its loops,
the model after the call at hand: the structs of a context come in another order,
which nothing looks at. Names are converted by three constants, given for every name of the
documents: `CamelCase` and `SnakeCase` are what heck makes of it, and `Words` its words as
they are written, for what is joined to a type's name unconverted. Any value will do for the
proofs; the instance has names that fold together.

The properties hold the generated types against an answer of a GraphQL server:
`Collected` is the selections the specification of GraphQL merges for an object, `Asks`
the keys the generated types are named for. `Deserialize` is what the types derived by
serde do with an answer, as the attributes rendered say: a struct with nothing flattened
into it takes its keys from whom it is flattened into, one with flattened fields reads its
own keys first and hands on the rest, an enum told by `__typename` reads what is left
without it. So a key goes to one reader, and an enum inside an enum finds no tag. `Fits` says
of a selection set, without looking at the types made of it, whether serde reads all that is
selected; `AnswersAreRead` has the two agree, in both directions.

## 3. Runs

| run | bounds | what it shows |
|---|---|---|
| `safety` | 2 connections, 2 subscriptions | `TypeOK`, `DieOnlyWhenMissed`, `CompletedNeverResent`, `NoSilentRemoval` |
| `reconnect` | 3 connections, 2 values of the liveness, 1 subscription, one ping at a time (`OnePing`) | `OneLiveReceiver`, `NoLostStart` |
| `hex_ids` | 1 connection, ids 15 and 16, channels of 2 | `EveryDataIsOurs` |
| `liveness` | 2 connections, 1 subscription, fair, a quiet server (`QuietServer`) | `AbandonedSenderLetsGo`, `ResumedAfterReconnect`, `BlockedOnlyByLiveSender` |
| `input_types` | 3 inputs, 1 leaf, 2 fields each and 3 in all, 2 variables | `TypeOK`, `UsedIsClosed`, `NothingUnused`, `WalksOnce`, `FiniteSize`, `BoxedOnlyIfRecursive`; `WalkSearches` |
| `documents` | every kind of definition, of selection, of value and of type, nested up to four deep, one to three definitions; strings of up to five characters of nine kinds, lines led by blanks of one, two and three bytes; numbers of up to five; nesting limit 3; schemas of 13 types in three orders with seven additions | `ReadsBack`, `NestingIsCounted`, `WritingIsCanonical`, `RemainderIsTheRest`, `StringsReadBack`, `BlocksReadBack`, `NumbersAreRead`, `IdsMatchNames`, `PanicsOnlyUnresolved`, `SameSchema`, `TypesAreDenoted` |
| `response_types` | an interface, a union, two objects in both; a query of one field with up to three selections, two fragments that may spread each other and themselves; 34 documents out of the ordinary | `ResolvedAsWritten`, `OverflowsOnlyOnCycles`, `AnswersAreRead`, `NothingElseIsRead`, `TypenameIsAnswered`, `NothingDangles`, `FiniteUnlessMutual`, `NamesAreDistinct`; `CollectsWhatIsSpread` |
| `subscribe_panics` | | *violated*: `SubscribeNeverPanics` |
| `decimal_ids` | | *violated*: `ResumedUnderItsId` |
| `lost_die` | fair | *violated*: `DieReachesReceiver` |
| `input_overflow` | 1 field each | *violated*: `AlwaysDecides` |
| `fragments_unsent` | as `response_types` | *violated*: `FragmentsAreSent` |

**Why the bounds are enough.** Two connections are a connection and its
replacement, alive at once in the reconnecter's swap; with two subscriptions one
can be in the table while the other is being made or cleaned up. `LivenessMod` is 256 in the code. In `reconnect` it is 2, with three connections: the third
has the stamp of the first, as the 257th has in the code, and a handle no resend loop has
touched in between is passed over. `NoLostStart` names those stamps (`current - stamp[n]
< LivenessMod`), and TLC refutes it without that condition. Three connections also let a
handle be resumed twice; `OnePing` keeps that run short. `LiveView` tells states apart by what
some later step or a property of the run reads: not by the flag and the queue of a sender
that is past its loop, nor by how the socket of a receiver that is past its own ended.
`QuietServer` bounds the server in `liveness`, which owes nothing there: it acknowledges no
`ConnectionInit` and sends no keepalive but the pongs it was asked for. Ids 15 and 16 are where hexadecimal gains a digit
and parts from decimal. `MaxChannel` makes the server wait while a channel is
full: the client's channels have no bound, and the properties tell no two long
channels apart. Three input types have a cycle of three, a cycle of two with a
type that leads to it, and a cycle through a list; three fields let two cycles
meet in one type. With four the run passes too, on 3.3 million states.
`StackLimit` is more than a walk without repetition needs.

Texts longer than those of `documents` add nothing the grammar tells apart: each
production is there empty, with one part and with two, alone and inside the ones
that call themselves. `RecursionLimit` is 50 in the code: with 3 there are
documents below, at and beyond it, after every number of brackets the grammar
went back over. `MaxInt` stands for the largest `i64`, and an integer below, at
and above it occurs. The characters are one of every class the code tells apart:
newline, return, blank, quote, backslash, printable, control characters of one
and of two digits, and one beyond the first plane; in the lines of blocks also blanks of two
and of three bytes, so that one is cut in its midst. In `response_types` two
fragments are enough for a cycle that is not a loop, three selections for two
selections on one variant beside `__typename`, and two objects for a variant
that is selected and one that is not. The documents out of the ordinary have what is
refused, names that fold together in snake or camel case, and two inline fragments on one
variant.

**What the properties except.** Where the code loses something that nothing in
the repository promises, the property names exactly what is lost, so that it
fails when the code loses more, or, where it is an equivalence, less:

| property | exception |
|---|---|
| `ReadsBack`, `NestingIsCounted`, `WritingIsCanonical` | `Survives`: a float without a fraction is written as an integer or not as a number at all, the variables of an operation without a name are not written, nor the `on` of a directive without locations |
| `StringsReadBack` | an escape is written in decimal and read in hexadecimal (`EscapeSurvives`) |
| `BlocksReadBack` | blocks lose blank lines, returns and common indentation (`BlockSurvives`), and the reader panics where a line is cut in the midst of a wider blank (`CutsACharacter`); both are equivalences |
| `NumbersAreRead` | an exponent that begins with 0 or 9 and no sign is refused |
| `SameSchema` | extensions are left out of a schema read from SDL (`Unlike`); a deprecation without a reason gets one from a server |
| `AnswersAreRead` | `Fits`, an equivalence: an inline fragment or a foreign spread on an object is skipped, and so is an inline fragment on the interface itself; a second inline fragment on a variant is replaced by the first; an enum inside a variant finds no `__typename`, and one whose `__typename` has another name finds none; of a key selected twice only that the fragment flattened beside its struct fails (`TakenFirst`) |
| `TypenameIsAnswered` | `__typename` asked for under an alias |
| `FiniteUnlessMutual` | two fragments that spread each other: neither is boxed |
| `OverflowsOnlyOnCycles` | a fragment on an interface or union that leads back to itself by spreads on its own type |
| `NamesAreDistinct` | words joined with nothing between them may coincide, and names that differ may be one in camel or in snake case (`Apart`) |
| `NoLostStart` | a stamp as old as there are values of the liveness |
| `DieOnlyWhenMissed` | an answer read between the timer's look at the flag and its signal comes too late |

`hex_ids` has one connection because after a reconnect
ids are decimal, and then messages do go astray: that is what `decimal_ids` finds.

**Deadlock** is not checked: a connection closed normally is not replaced, so the
client really stops, and the generator ends.

**Fairness** (`FairSpec`). tokio runs every task that can run, so each task's own
steps are weakly fair, and so is the timer of the sender. `SenderSend` has its
own: `select!` picks at random among ready branches, so pings do not starve the
queue. `ReconnectNew` is fair since it is tried every three seconds until it
succeeds. Nothing is assumed of the server, of the network, or of the callers.

### What was found

1. `subscribe` panics when the sender of the current connection has ended
   (`ws.rs:339`), and leaves its handle behind. In the run the socket dies before
   `ConnectionInit`, whose own `unwrap` (`ws.rs:148`) ends the sender.
2. A subscription resumed after a reconnect is named in decimal (`ws.rs:161`) and
   its messages are read in hexadecimal: from the tenth on they go elsewhere.
3. A keepalive timeout that falls while the receiver handles a message is lost
   (`ws.rs:102`): the sender is gone, and the connection is not replaced.
4. A field whose type leads to a cycle it is not part of overflows the stack of
   the generator (`codegen/src/schema.rs:421`).
5. A generated module sends the text of its operation alone
   (`codegen/src/query.rs:147`), and never the fragments the operation spreads.

## 4. Proofs

For every value of the constants that meets the named assumptions.

| theorem | property |
|---|---|
| `TypeCorrect` | `TypeOK` of `GraphQLWebSocket` |
| `OneReceiver` | `OneLiveReceiver` |
| `DieJustified` | `DieOnlyWhenMissed` |
| `NoStreamCutOff` | `NoSilentRemoval` |
| `StartsAreSent` | `NoLostStart` |
| `ResultsAreOurs` | `EveryDataIsOurs`, where ids are small (below) |
| `NoneAskedTwice` | `CompletedNeverResent`, likewise |
| `HexReadsBack`, `DecimalReadsMore`, `OneDigitAlike` | of every id |
| `WalksAreTyped` | `TypeOK` of `InputTypes` |
| `UsedClosed` | `UsedIsClosed` |
| `UsedMinimal` | `NothingUnused` |
| `WalkIsFlat` | `WalksOnce` |
| `BoxedSound` | `BoxedOnlyIfRecursive` |
| `SizeIsFinite` | `FiniteSize` |
| `WalkImplementsSearch` | `WalkSearches` |
| `SearchIsSound` | of every search that implements `Reachable` |
| `WalkFindsWhatIsLedTo` | of the walk over input types: when it ends it has used exactly what paths of fields lead to |
| `NumbersAreRight` | `IdsMatchNames` |
| `NothingMissing` | `PanicsOnlyUnresolved` |
| `IngestionIsInvariant` | `IngestionInv`, on which these two rest |
| `StringsSurvive` | `StringsReadBack` |
| `NumbersAreGraphQL` | `NumbersAreRead` |
| `ResolvedHolds` | `ResolvedAsWritten` |
| `CollectingSearches` | `CollectsWhatIsSpread` |
| `NothingIsDangling` | `NothingDangles` |
| `ResolutionHolds` | `ResolutionInv`, on which these three rest |

*GraphQLWebSocket.* `TypeOK` alone is not inductive: removing a handle needs to
know that the message has the number of one, and storing one that its number has
been given out. `IInv` adds what the actors know of each other: `CallerInv` (the
call in progress owns the last number, and numbers after it have no task),
`ConnInv` (only the last connection opened has a receiver), `PingInv` (the flag is set only
while no answer was read, and so it was when a timer looked), `CleanupInv` (the
handle to be removed is in the table and its Subscription is gone or was handed
its Complete). The proof of `IInv /\ [Next]_vars => IInv'`
has a lemma per task for the types and a lemma per conjunct for the rest, split by
the actions that disturb it; what a task leaves alone is said once, in a frame
lemma. Each theorem is then `Init => IInv`, that step, and `IInv => Inv`.

*Reconnects.* `NoLostStart` is about the connection in use, but it is made true
before: `ResumeInv` adds that every stamp is that of a connection opened (`Stamped`)
and, of the last connection opened rather than the one in use, that a handle it stamped
was asked of it, or belongs to a call of `subscribe` that is about to (`StartInv`). Any
number of connections may be opened, and the stamp wraps. A stamp fewer than `LivenessMod`
connections old that equals the liveness of the connection in use is its own
(`NoLostStart` needs no more); of an older one nothing holds.

*Routing.* `process_server_message` finds the channel by a number, the Subscription
looks for its string, and the server echoes the string it was sent. `RouteInv` follows
that string from the queue of the sender to the server and back (`OwnIds`), and says
which connections can still speak (`LinkGone`, `NotBegun`), which handles a resend loop
has yet to visit (`Unvisited`), and who holds a completed handle (`CompletedLast`). It
needs the strings to be read back as the numbers they were, `IdsReadBack`. That is
not assumed but proved, from `SmallIds`: with one connection for every `u64`
(`HexReadsBack`), with several as long as ids have one digit (`OneDigitAlike`). The
hypothesis cannot be weakened: from the tenth call on, the resend loop writes what is
read as a larger number, always (`DecimalReadsMore`), which is what `decimal_ids` finds
(the second entry of *What was found*).
The proofs about numerals are inductions over an interval, by its greatest number
with the property or the least without it (`NumberFacts`).

*InputTypes.* `WalkInv` says what a walk in progress still owes: every type of a
used input's field is used, or a call for that input has yet to come to the field.
With no call left nothing is owed, which is closure. A variable's type is walked
with no other call in progress, and a field's only when it enters the set; what is
walked is in the set, so nothing is walked twice at once. `BoxInv` says that what the calls in progress hold by value, the
type asked about holds too, so that finding it among them shows it holds itself.

`SizeInv` is about the other answer, no. While the calls have not found the type,
some set of inputs, without it, holds all that the calls are past and is closed
(`NotFound`); when the last call returns, that set shows that the type does not hold
itself, and the field stays as it is (`PlainIsSound`). Were there then a set of inputs
that hold one another inline, each would be held by a field left plain, and so not hold
itself; of those, take one that leads to the fewest inputs. It holds another of the set,
which leads to fewer, for it leads not to itself. There are finitely many input types
(`TypesAssumption`), as in any schema.

The refinement uses the same `WalkInv`: a step of the walk is a step of `Reachable`
when it inserts a type, `Finish` when nothing is owed, and a stutter when it only
comes back from a call or meets a type again. (`Settle` is for `ResponseTypes`,
where the graph is still being resolved when the behaviour begins.)

*Reachable.* No set closed under the graph lacks anything a search has reached (`Sound`).
With `WalkSearches` and `CollectsWhatIsSpread`, both proved, this says of both walks of
`query.rs` that they find no more than is needed. That the walk over input types finds
all of it is `WalkFindsWhatIsLedTo`: when it has ended, a type is used exactly when a path
of fields leads to it from a variable (`LedTo`), by induction on the path one way
(`PathGoesOn`), and the other way since the types with such a path are closed, so that
`Sound` applies to them.

*Resolution.* A selection is noted when its item is met and put in its parent's set when
the call for what is inside it returns, so that in between it is nowhere, and a set is
complete only when no call is under way for its parent. `ResolutionInv` therefore speaks
of every parent at every step (`Building`): its set, then the selection whose call is
under way, then the items its own call has not met, are as many as the items written for
it, and each selection in the set was made of the item at its place (`Filled`); a
selection is in its parent's set, once and in no other, or its call is under way
(`Placed`); the calls are nested as the selections they are for (`Stacked`); a
selection's parent was made before it and for the same definition (`Rooted`). What is
written for a root grows as the definitions of its name are resolved into it (`Want`).
Four lemmas say so of any query under construction, apart from documents and phases: a
call begun for a definition, a selection noted and its call begun, a call that returns, a
definition's call that ends (`BeginKeeps`, `PushKeeps`, `PopKeeps`, `EndKeeps`). A
selection with nothing inside it is noted and returns at once (`SelectBuilds`).

*The walk.* What `collect_used_types` has yet to visit is a sequence of selections with
their insides still to be opened, so the invariant quantifies over the sets of selections
that have, with a selection, what is inside it: whichever of them holds the rest of the
walk holds every spread not yet collected of the fragments searched (`WalkInv`). When
nothing is left to visit the empty set is one of them, so nothing is uncollected
(`NothingLeft`). That a walk begun with a definition's own set comes by everything made
for that definition is a lemma about the tree of the selections (`InsideRoot`): the least
selection missed would have a parent that was not. A spread met is one of an operation or
fragment searched, a step of `Reachable`; every fragment has a definition that selects
something (`FragmentsSelect`), so a step that collects a fragment never also ends the
search. While the document is resolved the graph is still being made, which
is the step `Settle`.

*What is rendered.* The types used are collected by one walk, selection after selection,
and named by another, `calculate_selection`, variant after variant and with the inside of
the first inline fragment for each of the others. That the second names nothing
the first has not found needs all of the above: `Noticed` says of the type of a field what
it says of a spread, so at the end of the walk everything made for the operation, or for a
fragment it leads to, is noted. `RenderInv` says that a call of `calculate_selection` is
given selections made for the definition at hand (`Fitting`), on a type of the schema,
that every field and alias of a context names something noted or a struct of that context
(`Named`, `UsedName`), and that its first struct bears the name of its fragment
(`Described`). A variant and a selection keep this (`VariantKeeps`, `SelectionKeeps`), and so
does a loop over them, by induction on how far it is (`CalculationKeeps`). The operation is
rendered when no fragment is waiting (`FragmentsRendered`), so what is noted is then
defined. That calls are made on types of the schema only is `TypedInv`: it follows the
checks `create_roots` and `resolve_selection` make (`Accepted`, `Resolves`).

*SchemaIngestion.* A number is right when the type it was given to is stored at that
place, many steps later and in another pass. `IngestionInv` says how that comes about:
the types of a kind are stored in the order they were counted in (`StoredInOrder`), a
number noted is that of a type stored or of one still to be (`NamesAwait`), the names
known are those of the default scalars, of the types noted beforehand and of those
stored (`NamesKnown`), and what the types stored name is there (`IngestedIsClosed`).
Nothing is assumed of a document but that its types are of the six kinds: it may
define a name twice, in one kind or in two, or name what it does not define. Of an
answer it is assumed that its types are closed, distinct and among them those of the
document, the guards of `BuildFromJson` and `AnyAnswer`. That a pass finds the names
noted in earlier passes comes from the orders: an enumeration has its turn before the
types whose fields may have it.

*Literals.* The invariant (`LiteralInv`) only says which literal was written and what it
was read as; the work is in the functions. Both proofs turn texts into statements about
the places of their characters. A *number* is split by the code at its last dot and its
last exponent, while GraphQL's grammar says that it can be split somewhere: `Shape` is
what both come to, and a number that has the shape has no other dot and no other
exponent, so the places of the grammar are the ones the code looks for (`ShapeHas`). The two part ways only over the first
character of an exponent (`ExponentsAgree`). A *string*
has, in what is written of it, a place where the escape of each character stands
(`Layout`). As long as escapes survive, every turn of the loop finds itself at the next
of these places, and has read what comes before (`SurvivorsAreRead`). If all do, that is
the string (`AllAreRead`). At the first that does not, the turn reads another character
(`TurnAtLost`), and no later turn takes it back (`OneIsLost`): decimal digits are no more
than hexadecimal digits with another value, so the text is read, and as another. Of the
constants it is assumed that strings are made of chars, and that a text begins as
`take_token` requires where it goes for a number (`LiteralsAssumption`). `Documents` takes
these steps among others (`LiteralNext`); the theorems are about `LiteralSpec`.

Only model-checked, and why:

- `ReadsBack`, `NestingIsCounted`, `WritingIsCanonical`, `RemainderIsTheRest`: `Parse`
  recurs over a grammar and a tree, with a `RECURSIVE` operator, which the provers do not
  accept, and the statements are inductions over trees.
- `SameSchema`, `TypesAreDenoted`: `QualifiersOf` and `BaseName` recur over the tree of a
  type.
- `BlocksReadBack`: `Replace` and `Lines` go over the whole of a text, `Lines` by way of
  library operators on sequences that the provers cannot expand.
- `OverflowsOnlyOnCycles`, `AnswersAreRead`, `NothingElseIsRead`, `TypenameIsAnswered`,
  `FiniteUnlessMutual`, `NamesAreDistinct`: `contains_type_name`, `Asks`, `Collected`,
  `Deserialize`, `Fits`, `Above` and `Closure` are inductions over what is resolved, with a set of
  fragments or structs already seen.
- Liveness under fairness, and `ENABLED`.

Induction over numbers is within reach, where the statement is about a set of numbers: the
least one outside it.

## 5. Not modelled, and the plan

What is left of the code, and why it has no module:

- *HttpClient and Response*: one request and one match, in a function without state.
- *WsClient*'s forwarding task: it hands on what the Subscription's task hands it,
  in order, and is merged with that task.
- *Response types*: the literals of default values, the enumerations of
  `codegen/enums.rs` and the deprecation strategy are
  conversions of single values. heck's conversions and `keyword_replace` are constants.
- *Front end*: options, the normalization of names, the layout of the module.
- *Tokenizer*: how characters become tokens other than strings and numbers, white
  space, comments, positions.
- *serde*: an introspection answer comes as the types it holds; of the types generated,
  which keys are read by whom is modelled (`Deserialize`), their values are not.
- *Command line, support program*: a sequence of I/O, and an example.
- The arguments of a query's fields, which code generation does not read.

What could still be proved is what the list at the end of section 4 leaves to TLC.
`NestingIsCounted` would need the streams apart from the grammar: `Uncons` and `Reset` keep
the limit and the brackets before the furthest token taken in step. `BlocksReadBack` would
need `Layout` for lines.
