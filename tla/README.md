# A verification of Cortex

Cortex is the API server of exonex: it keeps *documents*, each of which stands for one file of a
publisher, in PostgreSQL, and hands out presigned URLs through which clients upload the files to an
S3 provider. This directory holds TLA+ models of it, the TLC runs that check them on small
instances, and proofs, checked by TLAPS, of what holds for every instance.

Contents: [the system](#the-system) · [the modules](#the-modules) · [the runs](#the-runs) ·
[the proofs](#the-proofs) · [where code and documentation disagree](#where-code-and-documentation-disagree) ·
[assumptions](#assumptions) · [not modelled](#not-modelled)

## The system

| component | source | state | operations | hard behaviour | what makes it correct |
|---|---|---|---|---|---|
| document handler | `internal/cortex/handler/document_handler.go` | none of its own; one goroutine per request | `ListDocuments`, `GetDocument`, `CreateDocument`, `CreateDocumentUploadUrl`, `UpdateDocument` (unimplemented) | requests run side by side; a client may give up, or lose the answer, at any point | an answer is true when it arrives |
| document service | `internal/cortex/domain/document.go` | none; values read from the table and used after it may have changed | `CreateDocument`: check extension, allocate UUIDv7, derive the storage key, insert. `CreateDocumentUploadURL`: load, check completion, find adapter, sign | several steps with other actors between them | one place per document, for good; a URL leads to its document's place |
| document repository | `internal/cortex/repository/document.go` | `cortex.documents` | SELECT, INSERT, UPDATE, one statement each, outside transactions | stale copies written back, answers lost after the commit | versions tell copies apart; updates change only their columns |
| schema | `database/migrations/…cortex_init.sql` | `publishers`, `documents`, artifact tables | foreign key with ON DELETE CASCADE, CHECK on annotations, defaults | deletion of a publisher races with creation | documents belong to a publisher |
| object storage | `pkg/storage` and the S3 provider | registry of adapters; the stored objects | `RegisterVolume`, `GetAdapter`, `CreatePresignedUploadURL`; PUT | a URL can be used many times, late, or with another file | files are write-once and of the declared type |
| read mask | `pkg/grpc/field_mask.go`, `pkg/sql/field_mapping.go` | – | header to paths to columns | unknown, repeated and empty paths | known fields are selected, unknown ones are named |
| filter builder | `pkg/sql/filter_builder.go` | CEL environment | CEL syntax tree to SQL expression | shapes of trees the tests do not have | the SQL means what the filter means, or an error says why not |
| API and interceptors | `pkg/api` (generated), `internal/cortex/auth`, `pkg/grpc` | the request's context | routing, decoding, auth context, method permission, field types, validation | order in the chain; what each failure looks like to the client; requests that are repeated | no handler runs without permission; a refused request has no effect |
| authentication service | `internal/cortex/handler/auth_handler.go` | none | `WhoAmI` | the permissions reported and those required are written in three files | what it reports is what the methods admit |
| server | `internal/cortex/server.go`, `cmd/cortex`, `pkg/http.go` | listener, connection pool, signal context | start, serve, shut down | listen failure, second signal, shutdown timeout, pool closing under load | a signal ends the process |
| configuration | `internal/cortex/config.go`, `cmd/cortex/main.go` | flags, environment, file; volumes and credentials | merge, decode, `Validate`, `GetVolumeManager` | required tags below the map are not checked | a process that starts has a database URL and a volume |
| migrations | `pkg/migrations.go`, `database/migrations` | schema, recorded version | goose up | a migration that commits by itself; several migrators | schema and version agree, whatever fails; `Migrate` returns |
| taxonomy | `internal/cortex/domain/taxonomy.go` | static annotations | load | used by nothing | – |

How they interact: the handler calls the service synchronously; the service calls the repository,
whose statements go to the shared connection pool, and the adapter, which signs locally without a
network call. The client carries the signed URL to the S3 provider itself; nothing reports the
upload back. Marking a document as completed is meant to be done through
`DocumentRepository.UpdateDocument`, which has no caller yet.

## The modules

    FileRegistry                 abstract: each document is registered once and gets at most one file
      ^ implemented by
    DocumentService              requests, clients, clock, restarts
      = DocumentTable            rows and statements of PostgreSQL
      + ObjectStorage            volumes, adapters, signatures, the provider's answer to a PUT
    DocumentRepository           callers with stale copies
      = DocumentTable

    DocumentReads                ListDocuments and GetDocument for one row
      = ReadMask                 header to columns
      + FilterMeaning            what PostgreSQL makes of the SQL, what CEL makes of the filter
          + FilterBuilder        CEL syntax tree to SQL tree
    Requests                     RPCs from the network to the table and back
      = Api                      messages, methods, permissions, the way to the handler
          + DocumentTable
    Server                       the process: start, listener, pool, signals, shutdown
      = Configuration            flag, environment and file; what is accepted of them
    VersionedSchema              abstract: a schema comes whole, is recorded once, goes with its version
      ^ implemented by
    Migration                    migrators that bring the schema into the database

    MCDocumentService, MCDocumentRepository, MCDocumentReads,
    MCRequests, MCServer, MCMigration                instances for TLC
    DocumentServiceProofs, DocumentRepositoryProofs, RequestsProofs,
    ServerProofs, MigrationProofs, DocumentReadsProofs
      = FilterProofs (= TreeRecursion)               theorems

**DocumentTable** has the two tables as variables and one operator per statement.
A `domain.Document` and a row are the same record. Since nothing calls `sql.SetTxInContext`, each
statement commits by itself, and one statement is one step. Annotations are a value that
`is_flat_annotation` accepts (`FlatAnnotations`) or does not, and `InsertAccepted` is the CHECK and the
foreign key. Finalizers and timestamps are left out, as no property tells them apart. The storage key is kept as a record of the four parts
`buildStorageKey` formats. UUIDs and `.`-extensions contain no `/`, and the publisher and document
ids have fixed length, so the four parts and the formatted string determine each other.

**ObjectStorage** has the registry as a function of the configuration (`VolumeManager`) whose
adapters are made by `RegisterVolume`, including the exchange of the two credentials it makes. A
presigned request records what the signature covers. `PutAccepted` is external: it is the
provider's documented answer to a presigned PUT.

**DocumentService** is the composition. A handler in `Handlers` is a goroutine with one request;
`stage[c]` says what it does next, `doc[c]` is its local `Document`.

| action | code |
|---|---|
| `RefuseCreate`, `BeginCreate` | `DocumentHandler.CreateDocument`, `DocumentService.CreateDocument` up to the INSERT |
| `Insert`, `InsertFails` | `DocumentRepository.CreateDocument` and the answer; the answer of a committed INSERT may be lost |
| `RefuseUploadUrl`, `BeginUploadUrl` | `DocumentHandler.CreateDocumentUploadUrl` |
| `Load`, `LoadFails` | `GetDocument(ctx, id, nil)`; a missing row and a broken database are both INTERNAL |
| `RefuseCompleted`, `Presign`, `PresignFails` | the rest of `CreateDocumentUploadURL`, on the row as it was read |
| `Deliver`, `GiveUp` | the response arrives, or the client has gone at whatever point the handler had reached |
| `UploadFile` | a client PUTs a file through a URL it has, any number of times |
| `CompleteUpload` | a caller of `UpdateDocument` with an arbitrarily changed `Document` |
| `RemovePublisher` | an SQL client deletes a publisher; the schema cascades |
| `Tick`, `Restart` | time passes; the process is replaced, with any configuration it may start with |

`usedIDs`, `urls`, `acked` and `born` are history: the generated UUIDs (never generated twice), what
clients have been told, and each document as it was first stored, also after its deletion.

**FileRegistry** is what the service promises about files without its mechanism. The mapping reads
the registered documents from `born` and the file of a document from the object at its place.

**DocumentRepository** is the view of the repository's callers: any number of them holds a copy
each and writes it back. `rows[d]` is the history of a document's row, `basedOn[d]` the version of
the copy each row was written from.

**ReadMask** has `ExtractReadMask`, `BuildProjection` and the repository's `buildProjection` as
operators on sequences of texts. A text is a path with or without spaces around it; that the header is
trimmed for a look at it and then returned untrimmed is part of `ExtractReadMask`.

**FilterBuilder** translates the tree that `cel.Env.Parse` returns into the tree go-jet renders, operator by
operator and with the names of the Go functions. Every function ends in `Built`, `Refused` (an error)
or `Panicked`. The getters of generated messages answer with a zero value for what is not
there (`GetValue`), and a literal that has to be parsed first is a set of at most one element
(`ColumnLiterals`, `extractTime`). The query of a containment test is a text that `createJSONContains` formats without
escaping anything; `jsonQuery` keeps what was put into it, and FilterMeaning says what PostgreSQL reads out of it. The recursive functions of the Go code (`extractPath`, `walkAST`) are recursive
functions over `Expressions`, the set of syntax trees there are; `Depth` says how deep each is.
`parseLogical` combines the results of the two sides, everything else is `parseCall`.

**FilterMeaning** gives both trees a meaning independently of each other: `SqlTruths` is the set of truth
values a row may have under an SQL condition (`true`, `false`, `null`, or the failure of the statement;
a set, as PostgreSQL may evaluate the sides of AND and OR in either order), and `CelTruth` the value of
the filter for the document the row holds: `true`, `false`, an error, or `unclaimed` where some operator compares values of
different types (`WellTyped`) or looks under a key for a text that JSON has to escape (`IsPlainMembership`).
Both are recursive functions with a function of the row as value.
The text of a containment query is cast to JSONB when the statement runs: `ReadAsObject` is the object it is read as, or nothing, and
then the statement fails. With plain texts (`PlainTexts`: no quote, backslash or control character) it is the object the code meant; what other
texts are read as, if they are JSON at all, is the constant `OtherQueries`.

**DocumentReads** puts them into the handlers.

| action | code |
|---|---|
| `RefuseMask` | `buildListQuery`, `buildGetQuery` up to the projection, and the error in the service: INVALID_ARGUMENT from the list, INTERNAL from the get |
| `RefuseFilter` | `BuildExpression` fails (INTERNAL), or the goroutine panics and net/http closes the connection |
| `BuildQuery` | the statement is complete |
| `Query`, `QueryFails` | the statement is run and its rows collected; it may fail on the row, or for reasons of its own |

**Api** has no state. It has the messages of the generated code, reduced to the fields that some code
reads, the methods of the mounted services with the permission each requires, and `Verdict`: what
becomes of a request in the mux, the codec and the interceptors, in their order. That no field carries the option
that `CreateFieldTypeValidationInterceptor` looks for is the empty set `AnnotationFields`.

**Requests** puts handlers and table behind it. A call in `Calls` is a goroutine; it is cut at the two
places where it waits for the database, so that its deadline, its connection or the process may end
while its INSERT is on its way (`strays`), and the INSERT may still run.

| action | code |
|---|---|
| `Refuse` | routing, decoding and interceptors, when one of them answers |
| `WhoAmI`, `UpdateDocumentRPC` | handlers that need no database |
| `RefuseID`, `RefuseCreate` | `uuid.Parse` in the handlers (INVALID_ARGUMENT); the checks of the service (UNKNOWN, see below) |
| `BeginRead`, `BeginCreate` | the handler up to its statement |
| `Insert`, `InsertRefused`, `CreateReturns` | the INSERT runs and its row comes back, or a constraint refuses it |
| `ListReturns`, `GetReturns`, `UploadUrlReturns`, `ReadFails` | the SELECT and the rest of the handler |
| `GivesUp`, `Finish`, `Restart`, `StrayInsert` | a lost connection to the database, a deadline, a client that is gone, another process; and what the statement does afterwards |
| `CompleteUpload`, `RemovePublisher` | the other actors on the table, as in DocumentService |

The service wraps its failures in `domain.Error`, whose kind nothing turns into a code: connect answers UNKNOWN
to whatever is no `connect.Error`. So a missing document, an extension that does not fit and a lost
connection have the same code, and only the remaining ones can tell a client that nothing has happened.
`rolePermissions` is a variable that never changes: the properties are to hold for each table it may be edited to.
`usedIDs`, `generated` and `committed` are history.

**Configuration** has the sources of a configuration (flag, environment, file), how viper merges and
decodes them, and `Accepted`: the checks before the server is made. It is the first part of **Server**,
whose `Start` takes an accepted source and whose `StartFails` takes another one.

**Migration** has any number of calls of `Migrate`, each a sequence of goose's steps and of the
statements of the file, and PostgreSQL as what is committed plus what each open transaction has made.

| action | code |
|---|---|
| `Call`, `EnsureDBVersion`, `ListVersions` | `Migrate`, and goose's look at its own table |
| `Begin`, `Create`, `CommitFile` | the statements of the Up part, one step each; `Create` waits for a transaction that has made the same object |
| `RecordVersion` | goose's `InsertVersion`, which comes after the file's own COMMIT and is committed on its own |
| `Fail`, `Break`, `Crash`, `Return` | a statement is refused, fails for its own reasons, the process dies; `Migrate` closes its database |
| `Reset` | an operator takes the schema back with the Down part |

**VersionedSchema** is what Migration promises whoever looks at the database, without statements, transactions and
migrators. The mapping reads off the committed objects whether the schema is there: `none`, `whole`, or `torn`,
a value that no step of VersionedSchema has.

**Server** is the process with three kinds of goroutines. The main goroutine is `phase`, the one
that listens is `listener`, and `request[r]` is the one of a client's connection.

| action | code |
|---|---|
| `StartFails`, `Start` | `apiServerCommand` with the configuration, `NewServer` and the beginning of `ListenAndServe`: until `signal.NotifyContext` a signal kills |
| `Listen`, `Serve` | the goroutine that runs `http.Server.ListenAndServe`; its failure is logged and stops nothing; it looks twice whether Shutdown has begun |
| `Drain` | `<-ctx.Done()`, the listener is closed |
| `ShutdownReturns`, `ShutdownTimesOut` | `Shutdown` with its context of 30 seconds, then the deferred `stop()` and `pool.Close()` |
| `PoolCloses` | `pool.Close()` has waited for the connections in use; main returns |
| `Signal` | ends the service once, changes nothing while Shutdown waits, kills after `stop()` |
| `Accept`, `Disconnect`, `Begin`, `Answer`, `Abandon` | net/http's connection and the handler on it |
| `Acquire`, `AcquireFails`, `Collect` | pgxpool, and `pgx.CollectRows`, which gives the connection back |

DocumentService has its own `Restart`, which takes the process away at any point; Server says how it goes.

## The runs

| run | question | result |
|---|---|---|
| `document_life` | Does any interleaving of two requests, uploads, updates, deletion of the publisher, the turn of a year and restarts break the relation between documents, URLs and files? | all properties hold |
| `repository` | What can callers with stale copies rely on? | the version counts updates and identifies contents; updates keep the identity |
| `server_life` | Do a listener that may fail, signals at any time, requests that wait for the pool and a shutdown that may time out always end well? | all properties hold |
| `requests` | What may a client conclude from its answer, and do permissions and retried requests stay what they are said to be, with statements that outlive their callers? | all properties hold |
| `migration` | Do migrators that race and fail anywhere leave a schema that is whole and a version that is true, and do they return? | all properties hold |
| `document_reads` | Does the SQL select the rows of which the filter is true? | it does, where the filter compares values of one type and looks under keys for plain texts only (proved for filters of any size) |
| `fresh_url`, `url_expiry`, `lost_update`, `masked_read`, `unknown_identifiers`, `containment_texts` | one disagreement each, see below | violated |

Properties of `document_life`:

- `OneLocationPerDocument`: no two documents, inserted, deleted or in the making, share a place.
- `FilesMatchTheirDocuments`: each stored object lies at some document's place and has the type it declared.
- `FilesAreWriteOnce` (action property): no step changes or removes a stored object.
- `UrlsLeadToTheirDocument`: a URL stays tied to its document across updates, years and restarts.
- `BelongsToPublisher`, `AcknowledgedDocumentsAreKept`, `IdentityIsImmutable`: the table under races, retries and stale updates.
- `ImplementsFileRegistry`: refinement.
- `Invariant`: the inductive invariant of the proofs, checked here before it was proved.

Properties of `repository`: `VersionCountsUpdates` and `VersionIdentifiesCopy` relate every stale copy to the
history of its row, `UpdatesKeepIdentity` each row to the one before it.

Properties of `server_life`:

- `ShutdownIsGraceful`: a process that exits by itself has cut no handler off, unless Shutdown timed out.
- `PoolOutlivesHandlers`: the pool is closed under a handler only after a timeout; in particular no
  connection is accepted behind Shutdown's back.
- `SignalEndsProcess`, `RequestsEnd` (liveness): a signal ends the process whatever the requests,
  the pool and the listener are doing; a request that was begun ends.

Properties of `requests`:

- `RefusedCallsStoreNothing`: a client that is told its request was refused (INVALID_ARGUMENT, PERMISSION_DENIED,
  UNIMPLEMENTED, 404, 405) has stored nothing and no statement of its is left that could. Of UNKNOWN and
  DEADLINE_EXCEEDED this does not hold, and need not.
- `SafeCallsStoreNothing`: what is served to GET may be repeated by anybody on the way without storing a document.
- `PermissionsHoldAsReported`: relates two calls: what `WhoAmI` told one client, and what a method did to another.
- `AnswersWereCommitted`: a document in an answer equals some row the table has had, never the draft or a
  mixture of versions.

Properties of `migration`:

- `SchemaIsWhole`: the committed schema is everything the file creates or nothing of it.
- `VersionImpliesSchema`: the version is recorded once at most, and only while the schema is there.
- `UnrecordedSchemaIsExplained`: the state on which every further `Migrate` fails (schema, no version) comes from one
  gap, between the file's COMMIT and goose's record, in which a migrator is or has ended.
- `MigrateReturns` (liveness): also when migrators wait for each other's transactions.
- `WaitsAreOrdered`: whoever waits for a transaction waits for one that is under way and further on in the file, so there is
  no circle of waiting migrators. It is the part of `MigrateReturns` that is a safety property.
- `ImplementsVersionedSchema` (refinement): what the invariants say of states, it says of steps. The schema
  appears in one step and without its version, is recorded once, and disappears only together with its version.

Properties of `document_reads`: `Invariant` says that a statement and an answer were made from the request they belong to.
`SelectsWhatTheFilterMeans` compares the SQL that was built with the
meaning of the filter for every row, including the cases in which a value is not there and the
other side of an AND or OR decides; a statement made from such a filter does not fail. It is stated for filters whose CEL value is not
`unclaimed`. The others are built and run as well. Those that mix types (`meta.annotations.color >= 1` where the color is a
text) may fail in PostgreSQL, and CEL would have no such comparison. Those that look under a key for a text
with a quote or a backslash do fail or select other rows: `containment_texts` shows it, with `MembershipTestsTheGivenValue`,
which has no such precondition.

Bounds, and why they suffice. Two handlers: every hazard listed is a race of one request with one
other actor, and the second handler also is the retry of a client that gave up on the first. Two
documents and two MIME types let files and URLs be confused, two contents make an overwrite visible. One publisher: it can be present from
the start, absent, or deleted in the middle. `MaxTime = 1` with a year and a signature's lifetime of
one unit lets both end once. `MaxVersion = 2` and `MaxUrls = 1` (counted before a URL is requested,
so two handlers can hold two) bound updates and signatures. The three configurations are: the
volume with working credentials; the volume with none, which `Validate` lets through; another
volume only. Handlers and documents are interchangeable, which the symmetry set uses; all the
properties of the run treat them alike and none is a liveness property. In `repository`, two
callers, two documents, two publishers, two sizes and types, and two updates per document
suffice for an update from a stale copy between two others.

In `requests`, two calls let one see, list or sign what the other is creating, and let a client retry what it gave
up on; every message of every method is sent, with well-formed and malformed ids, flat, nested and absent
annotations, and bodies that are no message. The three tables of permissions are the one of `roles.go` (which
has every permission), one that only admits reading, and one that does not know the role. Calls and
documents are interchangeable (symmetry; no liveness is checked). Sizes and types have one value: no
property of the run compares them.

In `migration`, three migrators let two wait for one, and one of those die; two resets let a migrator meet
a schema that was there when it passed and is not there later, and come back. No symmetry, as liveness is checked.

In `server_life`, the starts are ten sources, among them the repository's own `config.yaml`, a file with a volume
without settings, and one of each kind that is refused. Three clients and a pool of two let one wait while the others hold what there is, and the
listener may fail or lose its race with the signal. In `document_reads` there is one field of each column type,
the annotations have one key, and the filters are: every operator between every field and every
constant (and operands of unexpected shape), every list of one element and some of two,
every pair and some triples under `&&` and `||` of parts that are true or false, lack a value, fail, are refused,
or panic. A translation looks at one operator and its two sides at a time, and the truth tables have no
more than these cases. Of the texts that are looked for under a key one has quotes, whose query is no JSON, and one has a
backslash and a letter, whose query is JSON of another text; rows hold either, and that other text. `masked_read` has all masks of at most two texts, known, repeated, padded,
blank and unknown.

Fairness. In the runs about documents none is assumed: nothing in this part of the code promises that something happens; a request
may fail at each step. `server_life` assumes that the
scheduler runs goroutines that can run and that 30 seconds pass (weak fairness of the main
goroutine and of the listening one), that a statement ends and an answer is written or given up
after `WriteTimeout` (weak fairness of each handler), and that the pool serves waiting requests
in their order, as pgxpool documents (strong fairness of `Acquire`). `migration` assumes that a migrator that has
begun goes on (weak fairness of `Step`), as nothing in `Migrate` waits but for the database, and that a
statement that waits for another transaction runs if it could again and again (strong fairness of `Create`):
PostgreSQL wakes the one who waits when that transaction ends, before a new one has come as far. That
somebody calls `Migrate`, or that anything fails, is not assumed. In `server_life` nothing is assumed of clients,
who may keep an idle connection until Shutdown closes it, nor of who sends signals.

Deadlock is checked in `document_life`, `requests`, `migration` and `server_life`, where an ended process stays ended by
the step `Ended`. Callers of the repository may have nothing left to do, and a read ends with its answer,
so `repository` and `document_reads` do not check it.

## The proofs

`DocumentServiceProofs` proves, for every value of the constants allowed by
`PresignLifetimeAssumption` and `ServiceAssumption` (any number of handlers, documents, volumes
and configurations, whatever the bounds `MaxTime`, `MaxVersion` and `MaxUrls` are):

- `TypeCorrect`: `Spec => []TypeOK`. `TypeOK` needs `HandlersHoldDocuments` to be inductive: what
  `doc[c]` holds depends on the stage.
- `InvariantHolds`: `Spec => []Invariant`, with one lemma per action. The safety properties are not inductive one by
  one. A file matches its document because the URL it went through was signed for the document; the
  URL was, because the handler's copy agreed with the row as it was born (`CopiesKeepTheFile`); the
  copy did, because updates keep what identifies the file (`IDsIdentifyDocuments`); and places are
  distinct because a fresh id is part of the key (`InsertsAreNew`).
- `OneLocation`, `FilesMatch`, `Belongs`, `Durable`, `UrlsLead`, `IdentityHolds`: the invariants of the run.
- `WriteOnce`: `Spec => FilesAreWriteOnce`, from the fact that each URL out there signs `if-none-match`.
- `Implementation`: `Spec => ImplementsFileRegistry`. `Insert` maps to `Register`, `UploadFile` to `Store`,
  every other step to a stutter.

`DocumentRepositoryProofs` proves `InvariantHolds`, and from it `TypeCorrect`, `VersionCounts`, `VersionIdentifies`
and `IdentityIsKept`. It is an invariant that ties the table and every copy to the history of rows; all writes go through one lemma,
`WriteKeepsInvariant`.

`RequestsProofs` proves, for any number of calls and any tables of permissions (`RequestsAssumption`,
`ApiAssumption`), `InvariantHolds` and from it one theorem per property of the run, named after it.

- `CallsHold` says what a call holds at each stage, and that whoever has generated an id was let through to
  `CreateDocument`. `AnswersFollowVerdicts` says which answers are possible after that.
- `RefusedCallsStoreNothingHolds` needs both: a refused call has generated no id, and only the call that
  generated an id can have stored, or left behind, a document of that id.
- `PermissionsHoldAsReportedHolds` relates two calls through the one context they share: the reported
  permissions are those against which every verdict is made.
- `AnswersWereCommittedHolds` needs `RowsAreCommitted`: every row of the table is in its history.

`MigrationProofs` proves, for any number of migrators and resets, `InvariantHolds` and from it `TypeCorrect`,
`SchemaStaysWhole`, `VersionsAreTrue` and `UnrecordedIsExplained`. That a COMMIT brings the whole schema is not
inductive: a migrator may have passed an object that was there and that a `Reset` then took away.
`TransactionsAreComplete` says why this goes well: as soon as a migrator has made a table, everything before it
was its own, and nobody else can make or drop it (`TransactionsAreApart`). `OneInTheGap` carries it on to the
record of the version.

`WaitsAreOrderedHolds` adds to this invariant that a transaction only holds what statements before its next one create (`OwnIsPast`), and
that no statement is in the file twice.

`Implementation` in `MigrationProofs` proves `Spec => ImplementsVersionedSchema` from the same invariant:
`CommitFile` maps to `Apply` (whoever commits has made a table of its own, so none was there), `RecordVersion` to `Record`
(`OneInTheGap`), `Reset` to `TakeBack`, every other step to a stutter.

`ServerProofs` proves, for any set of connections and any pool with at least one connection
(`PoolAssumption`), and any sources of the configuration (`SourcesAssumption`):

- `InvariantHolds`, `TypeCorrect`: `Spec => []Invariant` and `Spec => []TypeOK`.
- `PoolOutlives`, `Graceful`: the two safety properties of the run. They are not inductive: that no
  handler is there when the pool is closed follows from `NobodyIsLeft`, which is preserved because no
  connection is accepted once the pool is closed (`ListensOnlyInService`) and the pool is closed by nobody but the
  end of Shutdown (`PoolClosesLast`).

`DocumentReadsProofs`, with `FilterProofs` and `TreeRecursion`, proves for every set of syntax trees, fields, rows and masks:

- `TypeCorrect`: `Spec => []TypeOK`; in particular every literal that is compared with a column of UUIDs has been
  parsed, at whatever depth of the filter it stands.
- `FiltersSelectWhatTheyMean`: `Spec => []SelectsWhatTheFilterMeans`. A run has filters of up to three parts; the
  theorem has no bound on their size. It has the precondition of the property: nothing is proved of filters that
  mix types or look under a key for a text that is not plain, and for the latter `containment_texts` refutes it.
- `NamedFieldsAreRefused`: no mask with a text in it is ever answered with documents. This is the general form of
  what `masked_read` shows on an instance: it is the code's behaviour, and not what its comments promise.

The argument has four parts.

1. *The recursive definitions have solutions* (`TreeRecursion`). In TLA+ `f[x \in S] == ...` denotes whatever satisfies its
   equation, and nothing is known of it until something does. `Exists` builds a solution depth by depth, for any
   equation whose right side looks only at trees less deep; `Induction` is induction over the depth. They are stated for
   constants `S`, `D` and `Step` and instantiated once per definition (`WalkIsDefined`, `CelIsDefined`, `SqlIsDefined`,
   `LiteralsAreDefined`), because the provers cannot apply a theorem to an operator but can instantiate a module with one.
2. *One operator at a time*: a lemma per shape of a condition (`ColumnComparisonAgrees`, `JsonComparisonAgrees`,
   `InListAgrees`, `ContainsAgrees`) says that where the Go function builds SQL and CEL finds values of one type,
   SQL has exactly one truth value and it agrees with CEL's (`Agree`: both true, or neither).
   `JsonIsReadBack` carries the cast of the JSON's text back to its value, `PlainQueryIsReadBack` the text of a containment query
   to the object it is meant to be, which needs `IsPlain`.
3. *AND and OR* (`CombinedAgree`): agreement of the sides carries over, although `null` and an error mean different things
   under an operator, and in either order of evaluation.
4. `FiltersAreTranslatedRightly` is the induction over 2 and 3, and the invariant of `DocumentReads` ties the statement that
   is about to run to the request it was built from (`WhereIsTheFilter`). TLC checked that invariant
   (`Invariant` in DocumentReads) in `document_reads` before it was proved.

The assumptions: `SyntaxTrees` (trees are finite, their parts are trees, and an operator of two operands has two),
`FiltersAssumption` (filters are trees, the columns of fields are columns of the table), `TextsAreReadBack` and
`JsonValues` (an integer or boolean of a JSON object is written as a text that a cast reads as the same value). The parser of CEL, go-jet's
generated table and PostgreSQL give them; TLC evaluates each on every run of `MCDocumentReads`.

Not proved: the disagreements, which are TLC counterexamples, and the liveness of `server_life` and `migration`
(`SignalEndsProcess`, `RequestsEnd`, `MigrateReturns`, of which `WaitsAreOrdered` is
proved): liveness under fairness needs ENABLED, which is out of the prover's reach, and stays with TLC.

## Where code and documentation disagree

| run | code | documentation |
|---|---|---|
| `fresh_url` | `pkg/storage/volume_manager.go:31` exchanges access key and secret key | `document.go:195`: the URL "can be used to upload the File directly to S3" |
| `url_expiry` | `pkg/storage/adapter.go:47` does not pass the expiration on; the default is 15 minutes | `document.proto:133` `expires_at`, which `document.go:230` sets to one hour |
| `lost_update` | `repository/document.go:179` compares no version | `meta.proto:22`: the version "is used for optimistic concurrency locking" |
| `masked_read` | `pkg/sql/field_mapping.go:37` counts every field as unknown, so each explicit read mask is refused | `document.go:79`: "projecting the requested fields" |
| `unknown_identifiers` | `pkg/sql/filter_builder.go:215` takes an identifier in a list for `""` or 0; lines 267 and 433 panic on one | `filter_builder.go:10`: "Identifiers that are not present in the map are rejected" |
| `containment_texts` | `pkg/sql/filter_builder.go:269` formats the JSON of the query and escapes nothing: a text with a quote makes the statement fail, one with a backslash is read as another text | `filter_builder.go:250`: it tests "whether a JSON array stored under column.key contains the given value" |

Three more are in FilterBuilder without a run of their own: a constant of another type than its column becomes `""` or 0 in a
list (`GetValue` in `createSQLInList`, whose comment promises that "literals are converted correctly"); `has(x.key) == true` compares the value of the key
(`extractPath` does not look at the flag of a presence test), and `"x" in meta.finalizers`, the only array
in the map, is refused because a selection on the right is always taken for a key of a JSON column
(`parseInOperator`).

The others have no run. The declared size is part of the signature (`document.go:235`, `PutAccepted` in ObjectStorage),
although it "may be an estimate until the upload of the file is completed" (`document.proto:46`). The `required` tags
of `VolumeConfig` are never looked at (`config.go:16` has no `dive`), and the shipped
`config.yaml` spells `accessKey` and `secretKey` where the tags read `access-key` and `secret-key`, so the
server starts with a volume that cannot sign; `Accepted` in Configuration accepts it, and `PresignFails` follows.
`pkg/grpc/field_mask.go:21` returns the paths as they were split and not as they were trimmed, which shows in no answer as long as
every path is refused anyway (`masked_read`). No field has the option that the interceptor for annotations looks for, so nested ones are
refused by the table's CHECK alone, and the client is told UNKNOWN. `pkg/grpc/fields.go:109` hands bytes to the
schema, which would refuse every annotated field if there were one. `domain/taxonomy.go:71` writes to a nil map.

Because of the first row of the table (`fresh_url`), `document_life` uses crossed credentials: the one configuration with which the
code's URLs work.

## Assumptions

- UUIDs are never generated twice. PostgreSQL executes one statement atomically and durably.
- The provider answers a presigned PUT as S3 documents it, with conditional writes (`If-None-Match: *`).
- A volume's name is never pointed at another bucket by a new configuration, and objects are not
  changed past the provider.
- Publishers are created and deleted by SQL clients; the code has no operation for it.
- `mime.ExtensionsByType` is a fixed relation.
- `uuid.Parse` and the parser of RFC 3339 accept fixed sets of texts. go-jet renders a tree as its
  template says. PostgreSQL and CEL evaluate conditions as FilterMeaning says; integers are small enough
  for the floats the builder compares those in JSON with. `x in []` is left out of the instances.
- A JSON text whose strings have no quote, backslash or control character is read as it stands. Which other texts are JSON, and of what, is
  not spelled out character by character: the instances give it for the ones they use (`OtherQueries`). The keys of a filter are always
  plain, as CEL's grammar has only identifiers after a dot.
- A document's key that is not there, or a column that is NULL, has no value in CEL either.
- net/http and pgxpool do what they document: Shutdown waits for connections, `Close` for those
  that are acquired, and refuses those who wait.

## Not modelled

Logging, the text of errors and TLS have no state and no property. The generated protobuf code is modelled where a
mounted service uses it (messages, methods, options); clients, descriptors, the generated go-jet code and what
protobuf does with bytes are taken to do what their inputs say. The parser of CEL is a library: the
filters are trees.

- The analysis, artifact, feed and publisher APIs have messages and interfaces but no implementation, and
  `NewServer` mounts none of them: there is no behaviour to model.
- The artifact tables exist in Migration as objects; their columns are left out, as no code reads or writes them.
- `sql.SetTxInContext` is called by nobody, so `TxFromContext` always answers with the pool.
- The taxonomy is loaded by nobody, and would panic.
- The crawler packages are empty but for message types.
- Message fields nobody reads (`page_size`, `page_token`, `order_by`, `show_deleted`, `update_mask`) are left out;
  a method that would read them is a change of the code and of Api alike.
- Variables of the environment for parts of a volume have dots in their names and are left out of Configuration.
- goose is modelled by the order of its statements, without the session lock of its provider API, which
  `goose.Up` does not use.

## Order in which the models build on each other

1. DocumentTable, ObjectStorage, DocumentService, FileRegistry, DocumentRepository, and their proofs.
2. ReadMask, FilterBuilder, FilterMeaning, DocumentReads, then TreeRecursion, FilterProofs and the proofs of the reads.
3. Configuration, Server and the proofs of its safety.
4. Api, Requests and their proofs, on DocumentTable.
5. Migration and its proofs, on its own, then VersionedSchema and its refinement.

What would come next is bound to the code's growth: `UpdateDocument` as soon as it is implemented (the version and
`lost_update` will then be a question of the API), a command that calls `Migrate`, and artifacts when a
handler writes them.
