# TLA+ model of BitLink

BitLink is a link shortener and file host inside a small HTTP server written in
C++ on Boost.Asio and SQLite. This directory holds TLA+ modules that model its
core, TLC configurations that check them on small instances, and proofs checked
by TLAPS. File names and line numbers refer to the repository (`src/`,
`include/`, `tests/` inside it).

Run a check with `tlc -workers 2 -config ShortenerServer.cfg MCShortener.tla`,
a proof with `tlapm ShortenerProofs.tla`.

## 1. The system

```
 clients ── TCP ──> server/handler_server ──> session (one per connection)
                    accept loop                │ handle_read / handle_write
                    io_context + threads       v
                                     HandlerDispatcher ──> a new handler per request
                                                            │
        EchoHandler, StaticFileHandler, HealthHandler,      │
        NotFoundHandler, SleepHandler, ApiHandler <─────────┤
                                                            v
                                                   URLShortenerHandler
                                                    │               │
                                   URLShorteningService       FileUploadService ──> upload directory
                                                    │               │
                                           SQLiteDatabase      SQLiteDatabase ──> one WAL database file
```

| component (source) | state it keeps | operations | what is hard | what makes it correct |
|---|---|---|---|---|
| `SQLiteDatabase` (`database/sqlite_database.cc`) | one connection, its prepared statements, each perhaps left at a row; in the file: `links`, `clicks` | `insert_link`, `get_link`, `code_exists`, `delete_link`, `record_click`, `get_click_stats` | one connection per service and request, no busy timeout; statements that were not reset keep a read transaction, and so an old snapshot, open | no acknowledged row is lost; rows do not change; clicks belong to their link |
| `URLShorteningService`, `FileUploadService`, `SlugGenerator` | none of their own; the upload directory | `shorten_url`, `resolve_code`, `record_access`, `get_stats`, `delete_link`; `upload_file`, `get_file_path`, `record_file_access`, `delete_file`; `generate_unique_code` | check of a code and its insert are two steps; file and row are two stores; results that mean "failed" and "not there" are the same value | a code has one owner; a file row has its whole file; failed requests leave nothing behind; every request ends |
| `URLShortenerHandler` | two services per request | `/shorten`, `/upload`, `/r/{code}`, `/f/{code}`, `/stats/{code}`, `/qr/{code}`, the main page | opens and closes two connections per request on any thread | an acknowledged link is served; statistics add up; only served visitors are counted |
| `session` (`session.cc`) | `request_data`, the pending operation, the reply being written | `start`, `handle_read`, `handle_write` | TCP cuts the stream anywhere; bodies contain empty lines; replies that need several writes; `delete this` | each request is handled once, whole and in order, and answered |
| `server`, `handler_server`, `StartWorkerThreads`, `main` | the `io_context`, the acceptor, the threads | accept, run handlers, stop, join | a thread pool shared by everybody; exceptions out of handlers; signals; failed accepts | a session is run by one thread at a time; the loop ends for a reason only; one awake thread serves everybody; a stop ends `main` |
| `ApiHandler`, `RealFileSystem` | JSON files `<root>/<entity>/<id>` | POST, GET, PUT, DELETE, list | check-then-act between threads, truncate then write, failures nobody sees | only requests that overlap disturb each other: ids, bodies and listings of what was created before stay |
| `HandlerDispatcher`, `HandlerRegistry` | the map of locations, the map of factories | `CreateHandlerForRequest`, `RegisterHandler` | longest prefix match at its edges | the longest location that is a prefix by components is chosen; a request that starts with a slash is answered |
| `NginxConfigParser`, `ServerConfig` | the token state, the stack of blocks | `ParseToken`, `Parse`, `ParseConfig` | quotes, comments, nesting; duplicate locations | a file is accepted iff it is well formed, and what is started is what it says |
| `Request`, `HTTPParser` | none | `parse_request`, `get_header`, `parse_form_data`, `parse_multipart_form` | text taken apart at line ends and put together again; content that looks like a boundary, a header end or an escape | the fields and files of a request are those that were sent |
| `URLValidator`, `FileValidator` | none | `validate_and_normalize`, `validate_file_type`, `sanitize_filename` | several functions look for the same part of a URL, each in its own way; a name is cleaned, cut and renamed in turn | only good URLs are accepted, and they lead where they led; a stored name is one component and keeps its extension |
| `JSONBuilder`, `QRCodeGenerator` | a map of fields; a CRC table | `add`, `add_array`, `build`; `generate_png`, `generate_data_url` | escapes; lengths, blocks and checksums that must fit together; numbers that do not | what is written reads back as what was meant |
| `Response`, `MimeTypes`, `LinkData`, `Logger` | none that anything reads | format | – | – |

Interactions: handlers of different sessions run at the same time on the
threads of the pool; they share the database file, the upload directory and the
API's files, and nothing else but `HandlerRegistry` (written before the threads
start), `HandlerDispatcher` (read only) and `SlugGenerator::gen_` (a static
generator without a lock). A session and its handlers share the session object,
which has no lock either and relies on having one asynchronous operation at a
time.

## 2. Modules

| module | models | extends |
|---|---|---|
| `LinkDb` | the database file and the connections of `SQLiteDatabase` | – |
| `Shortener` | handler, services, slug generator and upload directory on top of `LinkDb` | `LinkDb` |
| `LinkPromise` | abstract: a table of links, each told to its requester after it was made | – |
| `ShortenerProps`, `MCShortener` | its properties and its refinement of `LinkPromise`; its instances for TLC | `Shortener` |
| `ShortenerProofs` | proofs: the database, its rows and the promise; snapshots, clicks and statistics; files and visitors | `ShortenerProps` |
| `Exchange` | abstract: what a connection promises its client | – |
| `Session` | one connection: client, TCP stream and `session` | – |
| `SessionProps`, `MCSession` | its properties and its refinement of `Exchange`; its instances | `Session` |
| `SessionProofs` | the proofs | `SessionProps` |
| `Text` | characters, positions, lines and numbers: what `std::string` and `std::istream` do for the parsers | – |
| `HttpParser`, `UrlValidator`, `FileValidator`, `JsonBuilder`, `QrGenerator` | the class of that name, as operators | `Text` |
| `Intake` | a request of `URLShortenerHandler` from its text to the text of the answer | these five |
| `IntakeProps`, `MCIntake` | its properties; its instance | `Intake` |
| `SequenceLemmas` | proofs: induction over numbers and sequences; the operators of `Text` | `Text` |
| `IntakeProofs` | proofs: the stored name, the path of a form, and the stored URL | `IntakeProps`, `SequenceLemmas` |
| `UploadProofs` | proofs: the path of an upload | `IntakeProofs` |
| `ServerLoop` | `io_context`, threads, accept loop, sessions as seen by the loop, signal, join | – |
| `ServerLoopProps`, `MCServerLoop` | its properties; its instance | `ServerLoop` |
| `ServerLoopProofs` | the proofs | `ServerLoopProps` |
| `ApiStore` | `ApiHandler` on `RealFileSystem`, a step per call of the file system | – |
| `ApiStoreProps`, `MCApiStore` | its properties; its instance | `ApiStore` |
| `ApiStoreProofs` | the proofs | `ApiStoreProps` |
| `ConfigParser` | `NginxConfigParser`: tokens, stack of blocks, tree of statements | – |
| `Startup` | `main` up to the event loop: `ServerConfig`, registrations, `HandlerDispatcher` | `ConfigParser` |
| `StartupProps` | their properties | `Startup` |
| `ConfigTreeProps`, `MCStartup` | the tree of statements written out again, and its property; their instances | `StartupProps`; `ConfigTreeProps` |
| `StartupProofs` | the proofs | `ConfigTreeProps`, `SequenceLemmas` |

Each models one layer, and each abstracts the layer above it to what it can
cause: for `ServerLoop` a request is quick, slow or throws; for `Session` a
request has a reply of some length; for `Shortener` a request is a call of the
handler on a thread that is scheduled, whose input is valid or not. `Intake` is
about that input: it says, for one request at a time, what the text means that
`Session` cuts out of the stream, and what the service is given.

### 2.1 LinkDb

`links`, `clicks` and `version` are the committed state of the file; `version`
counts commits as the WAL does, and needs no bound because each request commits
at most once. `open[k]` are the queries of connection `k` that were left at a
row (the prepared statements `stmt_get_link_`, `stmt_code_exists_`,
`stmt_get_stats_`), `view[k]` the snapshot they keep. `writer` is the WAL write
lock.

Each call of `SQLiteDatabase` resets its own statement first and steps it once.
`get_link` and `code_exists` return at the first row without a reset
(`sqlite_database.cc:301`, `:346`), so the read transaction stays open until the
same statement is used again or the connection is closed; `Sees` and
`StopAtRow` say so. A write takes the lock or fails at once: the code sets no busy
timeout (`:277`, `:370`, `:425`), and SQLite refuses to write from a snapshot that is
not the newest (`sqlite3WalBeginWriteTransaction` in the vendored `sqlite3.c`).
A write is two steps, `BeginWrite` and `Commit`/`Rollback`, so that other
connections meet the lock. `insert_link` and `record_click` are cut by the
primary key and the foreign key; `delete_link` cascades to the clicks.

A row's destination column is abstracted to the request that stored it, `by`: a
URL stands for the request that shortened it, a path for the request that
uploaded it.

### 2.2 Shortener

A request `r` has a program counter `pc[r]` over the calls of its route, one
action per call that reads or changes what requests share:

| action | code |
|---|---|
| `HandleRequest`, `ServicesFail`, `RejectInput` | `URLShortenerHandler::handle_request`, `initialize_services`, the validation in each `handle_*` |
| `DrawFreeCode`, `DrawUncheckedCode`, `DrawTakenCode` | one attempt of `SlugGenerator::generate_unique_code`: the code is free; `code_exists` failed, which reads as free; the code is taken |
| `OpenFile`, `WriteFile`, `WriteFileFails`, `CleanUpFile`, `RemoveFile`, `RemoveFails` | `write_file_to_disk` (opened and truncated, then written), `remove_file_from_disk` |
| `StartWrite`, `CommitLink`, `CommitClick`, `CommitDelete`, `*Refused` | `insert_link`, `record_click`, `delete_link`, and what their callers do with the result |
| `Acknowledge` | what `shorten_url` and `upload_file` do after `insert_link` returned, and the answer |
| `ResolveCode`, `CheckExists`, `GetFilePath`, `GetFileMetadata`, `QueryFails` | `resolve_code`, `record_access`, `get_file_path`, `record_file_access` |
| `ServeFile`, `ReadFile`, `ServeFails` | `create_file_response`: `exists`, then open and read; a call that throws, or a file that does not open, answers 500 |
| `CountTotal`, `CountDaily`, `CountFails` | the two queries of `get_click_stats`; the first is left at its row, so both see one snapshot |
| `DestroyHandler` | the destructors of the handler's services, which close their connections |
| `Crash` | the process dies and is started again |

`generate_unique_code` draws from all codes, and its generator is shared without
a lock, so a draw is any code. `delete_link` and `delete_file` are public calls of the
services that no route makes: `MayDo` gives them to requests in one instance
only. Texts of requests and responses are the subject of `Intake`.

`LinkPromise` is what all this amounts to for somebody outside: a table with one
link per code. `Create` fills an empty code with a link that was not made before, `Tell` tells the
requester of a link that was made, `Erase` empties a code and drops its visits, `Visit` is counted
for a code that has a link. The row is committed within `insert_link` and the answer made after it returned
(`url_shortening_service.cc:28`), so others may visit or delete the link before its requester hears of it, and
a crash may leave one that nobody was told of. `ImplementsLinkPromise` maps `table` to the committed `links`, `told` to the
requests that were answered with their code (`Acknowledged`), `gone` to
`erased` and `visits` to `clicks`; the disk, the snapshots, the locks, faults and
crashes are stutters.

A click is committed before `create_file_response` runs, so a visitor for whom the
disk then fails is turned away with 500 and stays counted. `CountedWasServed` leaves out that request and no other.

The daily query has `LIMIT 30`, so total and days agree only while a link's
clicks fall on at most 30 days; the model has no days, and `StatsConsistent` is
about that case.

### 2.3 Session and Exchange

Tokens are request lines, header lines, the empty line, and pieces of the body;
`gap` is a piece of a body that contains `\r\n\r\n`, as multipart bodies do.
`handle_read` looks for whole tokens only, so cutting the stream between tokens
loses no behaviour that matters. `HandleRead` is the whole handler: it appends
what arrived, finds the header's end, refuses a malformed request line, reads
Content-Length as the code does (not when it is the last header; a value that
is no number makes `stoul` throw), waits, or trims, handles and starts the reply.

`async_write` writes what the send buffer of the socket has free within the call (`StartReply`), the rest
after `handle_read` returned, when the client has made room by reading (`ContinueWrite`). Its buffer is the
local `response_str`, so that what it then sends is undefined: the
model chooses between intact and not. The send buffer holds `Room` pieces and the client's receive buffer
`Window`; how much of what the client has not read lies in which is up to the network, so the first write takes any
of the amounts in `Taken`, which may be nothing when a client pipelines and does not read. A piece remembers how many unread ones it
was made `behind`: `OnlyRestsSpoiled` says that a piece that had room behind these arrives intact.
`OperationFails` is a read or a write that ends with an error, after which the session deletes itself.

The client may send a request before the reply to the last one arrived
(`Pipelining`), and each request of the script is framed by the rules or not
(`Framed`: Content-Length is not the last header and is a number). `kept` remembers
whether the client has kept to the rules so far.

`Exchange` says what a connection promises as long as it has: requests are handled
once, whole and in order, and each reply arrives as it was made, at least when the send
buffer has room for all of it. From the first request that breaks the rules nothing is promised.
`ImplementsExchange` is the refinement: `got` of `Exchange` is the sequence of
complete replies received, everything else has the same name. One instance has
polite and hasty clients, because the promise is part of the abstract state.

The refinement is proved for messages that HTTP allows, `HttpMessage`: a head that ends at the
first empty line, and a body of the length that Content-Length gives. `MCSession` asserts that
those of the instance are such. One kind of message it excludes is worth a word: a head whose lines
end in LF with a body that contains CRLF CRLF, where `handle_read` finds the end of the head in the body.

### 2.4 ServerLoop

`ready` is the queue of handlers whose operation completed. A thread in `run()`
takes the oldest (`Take`) and runs it to its end (`HandleAccept`, `HandleRead`,
`HandleReadThrows`, `HandleReadError`, `HandleWrite`, `HandleWriteError`, `HandleAcceptError`).
A reply that was begun is being written until its client has read it (`WriteCompletes`), which may be never, or resets the
connection (`Reset`); `handle_write` then reads on or deletes the session.
`server::handle_accept` is virtual and bound by `start_accept`, so
`handler_server::handle_accept` is what runs, which does not accept again after
an error. An exception leaves `run()`, and a worker ends (`thread_generator.cc:12`). On the thread of
`main` it leaves the `try` first (`unwinding`): `handler_server` and the dispatcher are destroyed, a pending accept is
aborted, while the workers run on; then the catch stops the `io_context` (`StopAfterException`, `main.cc:139`), and `main` joins the
workers. A worker that runs a handler in between uses objects that are gone (`Destroyed`): an accept is started on a
closed acceptor (`StartAccept`), or the base class handles it, or the process ends (`UseDestroyed`). When no handler and no operation is left, `run()` returns in every
thread. `signal_handler` stops the `io_context`.

### 2.5 ApiStore

A request makes one call of the file system per step (`exists`,
`create_directories`, open and truncate, write, `is_directory`,
`is_regular_file`, open for reading, read, `directory_iterator`, `remove`), and
the requests of different threads interleave between any two. A file is an
inode, named by the request that created it, with a sequence of blocks; a body is
written and read block by block, at the offsets of the open file, so that two
writers of one file mix and a longer older body shows behind a shorter one. A
listing reads the names at once and asks for each whether it is still a regular
file, as the loop of `get_json_list_of_dir` does; what the iterator shows of
names that come and go meanwhile is up to the system, and the properties speak
of the others only. `overwrite_file` returns 0 whatever happens, and nobody looks:
`WriteFails` answers as `WriteBlock` does. A PUT on an entity tries to open a
directory for writing, fails, and is answered with 200 (`OpenElsewhere`).

Any call may fail, as often as `MaxFaults` allows: `exists` catches the error and says that there is nothing
(`ExistsFails`), which a POST reads as a free id; a file that does not open for reading is answered with 500, and a read that
breaks off with what was read (`ReadFails`); the other calls throw out of `handle_read` (`Throws`), the client gets no answer, and the
thread is lost as in `HandleReadThrows` of `ServerLoop`.

A POST on an instance instead of an entity takes the path of the instance for a directory: `create_directories` throws if a file is
there, and else makes it (`folders`), so that an instance that was deleted comes back as a directory under requests that
took it for a file. The files in it are left out: no other request reaches them.

### 2.6 ConfigParser and Startup

`ConfigParser` is the loop of `NginxConfigParser::Parse`, a step per token, with
`last_token_type`, `expect_listen_arg` and the stack of open blocks, where the
code has pointers into the tree (`open`: a block becomes the child of its
statement when it is closed). `ParseToken` is what it returns: the states of its
characters make words, marks, comments and quoted strings, which are the lexemes
of a file. Two things it does at the end of a file are kept: a word that no
delimiter follows is dropped, and such a quoted string is an error.

`Startup` continues with `ServerConfig::ParseConfig`, a step per top level
statement, the default location, the validation, the handler registrations and
the default `/health` (`StartServing`), each exception being caught in `main`,
which then exits. The grammar the parser is held against (`WellFormed` in `StartupProps`)
knows nothing of tokens and stacks: it speaks of positions of the whole file, what stands
before each, how many braces are open there, and which word follows a `listen`.
Location paths and URIs have characters (`Spelling`, `Uris`),
because a match depends on them; all other words are names. The `assert`s around
`RegisterHandler` are evaluated: in a build with `NDEBUG` they, and the
registrations of Health and Sleep, would be gone.

### 2.7 Intake, and the parsers and validators

A text is a sequence of characters; a longer string in it is a word of letters
that nothing cuts (`"form-data"`). `HttpParser`, `UrlValidator`, `FileValidator`,
`JsonBuilder` and `QrGenerator` are the functions of their class, with the code's
searches for a delimiter kept as searches (`Find`, `FindFirstOf`), so that two functions that
look for the host of a URL in different ways remain different. The regular
expression of `URL_PATTERN` is cut at its delimiters: no class of characters in it
contains the delimiter that follows, so there is one way to match.

`Intake` is a request on its way through `URLShortenerHandler`: the client makes a
text of what it means (`Compose`), `HandleRequest` is `Request::parse_request` and the route, then

| action | code |
|---|---|
| `ParseForm`, `ShortenUrl` | `handle_shorten_url`: `parse_form_data`, the `url` field; `validate_and_normalize`, the answer |
| `FindFirstBoundary`, `ParsePart`, `UploadFile` | `extract_uploaded_file`: `extract_boundary`, one round of the loop of `parse_multipart_form` per step; `upload_file`'s validation and the sanitized name |
| `HandleStats`, `HandleQrCode` | `handle_stats` for clients that ask for JSON; `handle_qr_code` |
| `Respond`, `Fail`, `Succeed` | `create_json_response`, `create_error_response` and the fields of each answer |

The code is given and storing succeeds: what may happen to that is `Shortener`'s.
The lists of domains, extensions, types and reserved names are represented by some
members of each kind; text of an error message is a word, except where it quotes input.
The matrix of a QR code is an input, since libqrencode makes it. A CRC is
four fixed bytes.

## 3. Checks

Every property has a mutant: a plausible bug in a definition that models code,
written beside it, under which TLC finds the property violated.

| run | instance | shows | distinct states |
|---|---|---|---|
| `ShortenerServer` | 3 requests (two creators or a creator and two visitors, or statistics), 2 codes, 2 names, 2 attempts, 1 fault, 1 crash | `TypeOK`; `AckedLinkServed`: whoever asks for a link that was acknowledged before gets it; `StatsConsistent`: total = sum of days though clicks are recorded in between; `CountedWasServed`: a counted visitor was not turned away, unless the disk failed under the visit; `NoFileLeftBehind`: only crashes and failing disks leave files behind | 820 000 up to symmetry |
| `ShortenerService` | 2 creators, a visitor, a deleter, 1 code, 1 attempt, 1 fault, 1 crash | `AckedLinkKept`: an acknowledged link stays until deleted; `FileBehindLink`: a row of type file has its complete file; `ClickOfSeenLink`: no click is kept for another link than the one seen; `RowsStable`; `ImplementsLinkPromise` | 3 470 000 |
| `ShortenerAnswered` | as `ShortenerServer`, 1 code, so that all codes can be taken; 1 fault, no crash | `EveryRequestAnswered` under fair threads: a request that finds every code taken gives up after `MaxAttempts` | 104 000 |
| `Session` | 4 messages, polite or pipelined, one of them misframed, one malformed; a reply of two pieces, room for one in the send buffer and one in the client's; reads of up to 6 tokens | `ImplementsExchange`; `EveryMessageAnswered`; `TypeOK`; `NothingHandledTwice`: no byte is handled twice or out of order; `OnlyRestsSpoiled`: only what the first write had no room for may arrive spoiled | 290 000 |
| `ServerLoop` | main and 2 workers; a plain, a slow, a throwing client; a failed accept; a signal | `OneHandlerPerSession`, `StopsForAReason`, `LossesAccounted`, `EverybodyServed`, `StopEndsMain` | 165 000 |
| `ApiStore` | a creator with two blocks; a creator, writer or deleter; a reader, lister, deleter, creator, PUT or POST on the instance; 1 fault, 1 crash | `IdsSharedOnlyByOverlap`, `CreatedIsRead`, `CreatedIsListed`, `SettledFileWhole`: races between a check and a write touch only requests that overlap; `EveryApiRequestAnswered` | 662 000 |
| `Startup` | all texts of up to 5 of 7 lexemes, all texts of up to 3 of 16 statements, all URIs of up to 4 of 3 characters | `AcceptsWellFormed`: the parser's accepted language is the grammar; `ParsedAsWritten`: its tree is the text; `ServesTheConfiguration`: the port, the handlers, and an answer for each URI with a slash; `RoutedByComponents`: the prefix match on strings is the one on components | 175 000 |
| `Intake` | 4 000 requests: URLs put together from 50 hosts and all kinds of the other parts, forms of up to 2 fields, uploads of up to 2 parts, 400 file names, statistics, matrices of 2 to 6 modules | `UrlAcceptance`: what is accepted is a good URL by its parts, and what is good is accepted; `UrlTargetKept`: the normal form leads to the same place and is a fixpoint; `FormAsSent`, `UploadAsSent`: fields and files arrive byte by byte; `StoredNameSound`; `AnswerReadsBack`: a reader of JSON gets what the handler meant; `QrReadsBack`: a reader of PNG sees the matrix | 15 000 |
| `ShortenerLostClick`, `ShortenerSameName`, `SessionLengthLast`, `StartupSleep` | | violations: section 5 | |

**Bounds.** A race for a code needs two creators and one code; one code and two
names (or two codes) make the second attempt, the loser's cleanup and the reuse
of a deleted code happen. A third request observes. One fault and one crash at
any step reach each error path and each state a crash can leave behind; several
are covered by the theorems. In `Session` the parts of a message are enough for
each branch of `handle_read` and `MaxRead` lets a read end at, before and behind
the end of a request. In `ServerLoop`, three threads leave one over when one
is held by a slow request and one is lost. In `ApiStore` two requests race and a
third observes, or races as well; two blocks are the least a reader or a writer can be
interrupted in. Three requests create an instance, delete it and make a directory of it; that a fourth then
finds a directory where it had checked for a file (`RemoveDirectory`, and the read that fails on one) is more than the run has, and
is covered by the theorems of `ApiStoreProofs` only. In `Startup` five lexemes are a block in a block with a statement
beside it or a listen with two words behind it; three statements are a listen and
two locations that collide, or nest, or of which one is refused. In `Intake` the code's
limits are constants and small, so that texts lie below, at and above each: `MaxDomain` 15
(253 in the code), `MaxLabel` 3 (63), `MaxField` 3 and `MaxFile` 4 (25 MB), `MaxName` 4 (255) with
`Slack` 2 (20), `BlockSize` 36 (65 535), so that images have one to several blocks, `QuietZone` 1 (4) and
`QrSize` 5 (200), less and more than the side of the matrices. Parts of a URL, a form or
an upload are varied two or three at a time, since each function looks at few of them.
The other bounds are constants too: `MaxFaults`, `MaxCrashes`,
`MaxAttempts` (100 in the code), `MaxRead`, `Room`, `Window`, `MaxAcceptErrors`.

**Deadlock.** `CHECK_DEADLOCK FALSE` everywhere: each instance has finitely many
requests and ends when they are done, or when the server has ended.

**Fairness.** `Shortener`: weak fairness of each request's own steps; the
operating system schedules the threads, and no call blocks, since there is no busy
timeout. `Session`: weak fairness of the server's handlers and of the client's
reading of replies, which makes room for `ContinueWrite`; nobody has to send or to stay. `ServerLoop`: weak fairness of
each thread that no slow request holds, of the accept, of the catch and of join; a slow request is
never required to end, so `EverybodyServed` does not rest on it, and
`StopEndsMain` excepts it. No client has to do anything, above all not to read its reply, so `EverybodyServed` promises a
reply that is begun. The ready queue is first-in first-out as in
`io_context`, which is why weak fairness of the threads is enough. `ApiStore`: weak
fairness of each request's own steps, as in `Shortener`; `Crash` and the arrival
of requests need none. `Startup` and `Intake` are sequential and have safety properties only.

## 4. Proofs

Every safety property that a run checks is a theorem as well, for every value of the
constants, except those named at the end; so are the two refinements. Each module
proves an inductive invariant (`Init => Inv`, `Inv /\ [Next]_vars => Inv'`), with one case per
action, and the properties from it. The invariants were first checked by TLC, except those that TLC cannot evaluate
because they say that a text or a list exists. The assumptions are the named
`ASSUME`s of the modules, which TLC evaluates in each run, and five hypotheses that
are stated in the theorems that need them:

- `DistinctUploads`: no two uploads use the same sanitized name. Without it the code breaks
  `FileBehindLink` (`ShortenerSameName`, section 5).
- `RoutesOnly`: requests come from the routes of the handler, none of which deletes.
- `HttpScript`: clients send messages of HTTP (section 2.3).
- `WellFormedUploads`: the names of an upload have no line end and no quote (or, without quotes, no `;`, and no blank at an
  end), no name has `filename=` in it, no content has the boundary in it, and the type of the request is told by a
  `Content-Type` header if there are parts. A client that writes names as they are cannot be
  understood otherwise. The uploads of the run satisfy it; `MCIntake` asserts that.
- `WellFormedUrls`: the client means the parts that a reader finds in its URL. Each part begins or ends with its delimiter and has
  none that ends it, a colon in a host stands between brackets, and a URL without a scheme has no `://`. Nothing is said of
  what the parts have otherwise, nor of brackets, dots, case or the number of the port. `MCIntake` asserts it of the URLs of the run.

| module | theorems | for all |
|---|---|---|
| `ShortenerProofs` | `Typing` (`TypeOK`), `AcknowledgedLinksAreKept` (`AckedLinkKept`), `RowsAreStable` (`RowsStable`, an action property), `ShortenerKeepsItsPromise` (`ImplementsLinkPromise`); `ClicksAreOfTheLinkSeen` (`ClickOfSeenLink`), `StatisticsAreConsistent` (`StatsConsistent`); `FilesAreBehindTheirLinks` (`FileBehindLink`) and `AcknowledgedLinksAreServed` (`AckedLinkServed`), under `DistinctUploads`; `CountedVisitorsWereServed` (`CountedWasServed`), under both; `LostRacesLeaveNoFile` (`NoFileLeftBehind`), under `RoutesOnly` | requests, codes, names, calls, attempts, faults, crashes |
| `SessionProofs` | `SessionTyping` (`TypeOK`), `RequestsAreSlices` (`NothingHandledTwice`), `FirstWritesArriveIntact` (`OnlyRestsSpoiled`); `SessionIsAnExchange` (`ImplementsExchange`), under `HttpScript` | scripts, cuts of the stream, lengths of replies, sizes of the read and the write |
| `ServerLoopProofs` | `LoopTyping` (`TypeOK`), `SessionsAreOneThreads` (`OneHandlerPerSession`), `LoopStopsForAReason` (`StopsForAReason`), `LossesAreAccounted` (`LossesAccounted`) | threads, clients |
| `ApiStoreProofs` | `ApiTyping` (`TypeOK`), `IdsAreSharedOnlyByOverlap` (`IdsSharedOnlyByOverlap`), `CreatedIsAlwaysRead` (`CreatedIsRead`), `CreatedIsAlwaysListed` (`CreatedIsListed`), `SettledFilesAreWhole` (`SettledFileWhole`) | requests, bodies, faults, crashes |
| `StartupProofs` | `StartupTyping` (`TypeOK`), `ParserAcceptsItsGrammar` (`AcceptsWellFormed`), `ServesWhatTheFileSays` (`ServesTheConfiguration`), `TreeIsTheFile` (`ParsedAsWritten`), `RequestsAreRoutedByComponents` (`RoutedByComponents`) | files, words, locations, URIs |
| `IntakeProofs` | `StoredNamesAreSound` (`StoredNameSound`), `FormsAreReadAsSent` (`FormAsSent`); `UrlsLeadWhereTheyLed` (`UrlTargetKept`), under `WellFormedUrls` | file names, forms, URLs, limits with `AsksAssumption` and `FileAssumption` |
| `UploadProofs` | `UploadsAreReadAsSent` (`UploadAsSent`), under `WellFormedUploads` | numbers, names and contents of parts, both line ends |

`ShortenerProofs` begins with the lemmas on the database: each operation preserves
`DbTypeOK`, and what it does to `links`, `clicks` and the snapshots. `SequenceLemmas` has what the
last five theorems of the table need: induction, what each function of `Text` returns, where words stand in a text (`At`) and are found, and how lists of lists are put together.

**Induction.** The library's induction theorems take a predicate as a parameter, which no prover here can
instantiate. `Induction` and `SequenceInduction` say the same of a set: one that has 0 (or the empty sequence) and
with each member the next one (or each longer by one element) has them all. They follow from the theorem that a
well founded relation has minimal elements. With `Recursion` and `SameRecursion` they also give what a recursive function computes: that it
exists, and that two which start alike and step alike are equal.

**Rows and the promise.** `IInv` is `TypeOK`, and for each request `StepOK`, what a program
counter says about the request's own variables. Typing alone is not inductive: `CommitLink`
stores a row at `code[r]`, so a request past its draw must have settled on a code; `ReadFile`
looks at `seen[r].by`, so it must have read a row; `DrawTakenCode` counts `tries`, so a
request that still draws must have attempts left. `AckedLinkKept` is inductive, together with `IInv`, when it speaks of the request from its insert on and
not only from its answer (`InsertedKept`).
Two lemmas carry it: `LinksStep` (the rows change only when a request inserts its own row where there
was none, or deletes one with its clicks and remembers its owner in `erased`) and `AckStep` (a
request gets to its acknowledgement only by such an insert, and its code does not
change afterwards). An insert of another request cannot hit that row, because of the
primary key; a deletion that does hit it puts the request into `erased`. For the refinement,
`PromiseStep` takes the three cases of `LinksStep`: an insert is `Create` because the
requester has no row yet, nor had one; a deletion is `Erase`;
a step that leaves the rows alone is a stutter, a `Visit` when it commits a click, or `Tell` when it is `Acknowledge`, whose
requester has made its row since the request went past `CommitLink`.

**Clicks and statistics.** `SnapInv` says of each request which calls its kind makes (`PathOK`),
that a write in progress holds the lock on the newest snapshot if it has one (`LockOK`), and that a
visitor's connection stays in the snapshot of `get_link` up to the commit of the click, as that of
the statistics does between its two queries (`SnapOK`). So the row that was seen is still the row when the click is
committed, which is `ClickInv`, and the two queries see the same clicks.

**Files and visitors.** `RowInv` gives each row, in the table, in a snapshot or in the hands of a request, its
owner, whose insert is done: it is about to be told of the row, was told, or was cut off. `FileInv` strengthens `FileBehindLink` by the two moments
at which it could break: the file is there before its row is inserted, and the row is gone before
`delete_file` removes the file. `VisitInv` follows a visitor that asked for an acknowledged link:
its first look-up runs on a connection with no query open (`FreshDb`), so it sees the link, and
each later call continues with the row it found. `RowsHeld` says that without deletions the row a visitor has
read stays. `LeftInv` accounts for each file on the disk: its row, an upload under way, a crash or a fault.

**Sessions.** `StreamInv` and `HandledInv` order everything the server has read: what was handled lies before
what was handled later and before what is on the wire. `request_data` continues it only while a read is
pending, because `handle_write` clears it, so the invariant speaks of `phase`. `RestInv` counts: an unsent rest is of the last reply,
of which as much is on its way as the send buffer had room for behind what the client had not read. For the refinement, `ExchangeInv` says that as long as the
client keeps to the rules at most one message is not handled, which is what `request_data` and the wire
hold (`MessageInv`); at most one reply is under way, the last (`ReplyInv`); and one that fits a
write has no rest (`ShortInv`). The step that handles a request is the hard one: that `handle_read` finds the end of
exactly this message in a stream that was cut anywhere is shown from `HttpMessage`.

**Event loop.** `KindInv` makes each queued or running handler agree with the state of its connection;
`HandsInv` says that of a connection in the hands of the loop one handler is queued or running, and never
two, which gives `OneHandlerPerSession`. `AcceptInv` remembers that only a failed accept, or an
exception on `main`, ends the accept loop, and `CatchInv` that after such an exception `main` is unwinding or the loop is stopped; `StopInv` joins them.
`LossInv` counts the threads lost against the sessions leaked, which an exception increases together.

**API.** `CallInv` says which calls a method makes and what it has in its hands. `FileInv` is about
files: a file that was never shared is what its last writer has written so far. `FolderInv`: each directory
at the path of an instance was made by a POST on it. `ProbeInv`: each id that POST has passed was taken by another request, which wrote
the file or made the directory (`Makers`), so that by the pigeonhole principle it never runs out of ids, which `TypeOK` needs.
`OverlapInv`, `ListInv` and `ReadInv` carry what was created before a request arrived through the steps of that request.

**Start.** `GrammarInv(n)` says what the parser remembers of the `n` lexemes it has read: `last` is the
kind of the last one that counts, the stack is as high as braces are open, `expectListen` holds iff the last word
was `listen`, and each position read so far is well placed. At the end of the file, and at a token that is refused,
this decides `WellFormed`, both ways (`EndIsWellFormed`, `RefusedIsNotWellFormed`). `StackInv` types the stack: each open block below the top ends with the
statement that opened the next, so that `back()` never meets an empty vector. `Configured(n)` relates `port` and `locations`
to the first `n` statements; that a list without duplicate paths makes one handler each (`RegistrationsIs`),
and that the longest match is a location whose handler can be made (`SlashHasHandler`), give the rest.

Tree: `NginxConfig::ToString` calls itself for each block. `ToTokens` does the same in rounds, each of which writes out
the blocks of a text and leaves the blocks in them for the next, so that no recursion over trees is needed. `Becomes(x, n, y)`
says that `n` rounds make `y` of `x`; texts can be put together on both sides (`TwoBecome`), and words stay
(`WordsStay`). `TreeOf` is the invariant: of each open block the statements that are complete become, in as many rounds as lexemes were
read, the text that was read of them, and the text before a block ends with the words and the brace that opened it
(`Opened`). A word and a `;` only touch the top (`NextWordRead`, `StatementRead`); `{` opens one more text (`BlockStarts`);
`}` costs one round, and puts the text of the block into the one that holds it (`ChildRead`, `BlockEnds`). At the end one
block is open, and its text is the file.

Routing: the split of a text at the slashes tells texts apart (`SplitTells`), and a location
is a list of first components exactly if it is the URI, or is a prefix of it that a slash follows (`FirstPieces`, `SplitOfTwo`).
That is what `FindLongestPrefixMatch` tests on characters; more components are a longer prefix
(`SplitOfPrefix`), so the longest match has the most.

**Requests.** `StoredNameSound` follows a name through `sanitize_filename`: the last dot stays the last dot when characters
are dropped and blanks are trimmed, since no character of an accepted extension is ever dropped; cutting the stem of a long name leaves
the extension, for which the limit must have room (`FileAssumption`); and the underscore before a reserved name does not
make it too long. `FormAsSent` goes the way of a form backwards. `EncodingReadsBack`: for every text, `url_decode` of
`url_encode` is the text; it is shown character by character, and needs that no escape is cut at the
joint of two encoded texts (`DecodeOfTwo`). The encoded text has no `=`, `&` or line feed, so that the pairs are the pieces
of the body between `&` (`LinesOfForm`), the first `=` of each ends its name (`PairTextIs`), and `FormGivenBack`
follows by induction over the pairs. `RequestIsRead` does the same for the lines of a request: `parse_request`
takes the text of any method, path, header and content without a line feed apart again. `FormInv` carries this through
the steps of the handler.

`UrlTargetKept` takes the text of a URL apart and puts it together again, stage by stage of `normalize_url`, each with what `find` sees there:
the fragment (`FragmentCut`), the case of scheme and host (`LowerStage`), the default port (`RemoveStage`) and the path (`PathStage`);
`NormalIs` says what becomes of the parts. Two things make this harder than it sounds. The code finds the user, the host and the port
by searches that stop in different places, which `SkipUser` and `ColonsPlain` settle unless the URL is one that `Misread` names.
And the lower-casing of a host in brackets goes to the first colon only, so a host such as `[A]` may change without being an address. There
the checks of the result help: what is accepted and opens a bracket closes it behind a colon (`BracketPaired`), and the stored host is then
the one that was sent (`AuthorityIs`). `TargetKept` concludes that the parts stay, and, since they are of the same kind as before, that a second
`normalize_url` changes nothing. A host that ends in several dots loses one each time, which is why the property excepts it.

**Uploads.** Here the body has line feeds, so the pieces of the text are told by where they stand. `RowStands` says at which position each
part of a list starts when all are put behind each other; `PartStands` where its line, its blank line and its content are. `PartRead` then
follows one round of `parse_multipart_form` over a part as a client writes it: `SkipLineEnd`, the end of the headers (`HeadersEndRead`), the
line `Content-Disposition` (`LineRead`), the name and file name, in quotes or not (`LineNames`), the next boundary (`MarkerFound`), and the line end that is taken off
the content (`ContentRead`). `UploadIsRead` and `BoundaryRead` say that the body is the form without its last line feed and that `extract_boundary` gets the boundary
from the header, with quotes or without, under a name in upper or lower case. The parser looks for CRLF CRLF before LF LF:
with lines that end in LF, a blank line of the other kind further on misleads it, so that `UnmixedForm` has to show that there is none across the joints of
parts (`QuietTogether`); that is what `LineEndsMixed` excludes in `UploadAsSent`. The invariant, `UploadInv`, says in `BeforeRound` that some number of parts
was read and kept (`FiledTo`) and that `pos` is behind the boundary of the next one; only of an empty form the round finds no part (`EmptyForm`).

**Only model-checked.** Liveness, which is outside what TLAPS proves here: `EveryRequestAnswered`,
`EveryMessageAnswered`, `EverybodyServed`, `StopEndsMain`, `EveryApiRequestAnswered`. And the other properties of `Intake`: `UrlAcceptance`,
`AnswerReadsBack` and `QrReadsBack`. Each would need a specification of several more parsers (or
of base 64 and PNG) for all texts, with the lemmas of `SequenceLemmas` as a start.

## 5. Where the code departs from what it says

- **A visit is redirected and not counted** (`ShortenerLostClick`,
  `EveryVisitCounted`). `record_click` fails at once when another connection
  writes, or has committed since this connection's `get_link`;
  `handle_redirect` ignores the result (`url_shortener_handler.cc:396`).
  `tests/sqlite_database_test.cc:483` expects all concurrent clicks to be written.
- **Same name, same code** (`ShortenerSameName`, `FileBehindLink`). The code is
  not reserved when the file is written; the loser of the insert removes the
  winner's file (`file_upload_service.cc:55`).
- **Content-Length as the last header** (`SessionLengthLast`,
  `OnlyCompleteProcessed`). The value is not read, and the request is processed
  without its body (`session.cc:106`).
- **SleepHandler cannot be configured** (`StartupSleep`,
  `RegisteredHandlersServe`). `config/complete_server_config.conf:34` has a
  location for it and `main` registers it, but
  `ServerConfig::CreateHandlerRegistrations` does not know it and skips the location
  (`server_config.cc:94`); `tests/concurrency_test.sh:236` expects its request to be
  slow.

Further behaviour that no document denies: a file link that is deleted, and whose
code is given to another file between the two look-ups of a visit, charges the new
link with the visit (`ClickOfSeenLink` is therefore about URLs, and
`CountedWasServed` is checked without deletions); requests that a client pipelines
are dropped in part; a failed accept ends the accept loop; a reply that needs several
writes continues from the buffer of a local variable that is gone
(`session.cc:167`, undefined behaviour, in the model a choice between intact and
spoiled); two POST that overlap may share an id and lose a body; a failed write of the API
is answered with success; an `exists` that fails reads as a free id, and POST overwrites the instance there
(`real_file_system.cc:35`); a visitor for whom the disk fails is counted and gets 500
(`url_shortener_handler.cc:403`); an upload that fails halfway leaves its partial file
(`file_upload_service.cc:49`); an empty listing is malformed JSON
(`real_file_system.cc:54`); a value such as `7up` for `data_path` is read as a number
and replaced by the default; a query string directly behind a location does not
match it; a last word without a delimiter behind it is dropped, so that
`listen 80; bar` is accepted.

Of the parsers and validators:

- The first colon behind the host is taken for the port's, and for a default port, wherever
  it is: `http://a.com/x:y` is refused with "Invalid port number", and so is a URL whose
  default port was removed before; an `@` in a path, or in a query without a path, is taken for
  the end of the user, and normalization may then change the path or the query. `Misread` in
  `IntakeProps` says which URLs these are.
- The test for 172.16–31 is never reached, because all names with the prefix `172.` are
  blocked before; public addresses there, and names such as `10.com`, are refused.
- Up to three dots behind a name are accepted, of which normalization removes one and
  the checks one each: `a...` passes as a name, and the stored URL is not yet normal.
- In Content-Disposition `name=` is also found in `filename=`, so a part whose
  `filename` comes first has that name.
- A part above its limit is dropped without a word: an upload of more than 25 MB is answered
  with "No file uploaded", and the message on its size is unreachable.
- A file name with nothing but dots and blanks before its extension loses the extension.
- `/stats/code?raw=1` looks up the code with its query, and returns zero clicks.
- `/qr/` makes an image for any code, also of no link.
- The comment at `url_shortening_service.cc:94` says that of IPv6 addresses the last 64 bits are
  removed; the code removes the last group.

## 6. Not modelled

The HTML of the main page and of the statistics page, headers of responses, how
addresses of visitors are shortened, MIME types by extension of files that are served,
logging, and the vendored libraries beyond what their callers see; of the PNG writer the
CRC of each chunk. `StaticFileHandler`, `EchoHandler`, `HealthHandler`,
`NotFoundHandler` and `SleepHandler` keep nothing. What only tests call is left out: the static
helpers of `JSONBuilder`, its objects, raw fields and indentation, `scan_for_viruses`,
`save_qr_code`, `URLValidator::url_decode`, `extract_quoted_value`, `FakeFileSystem`. The first creation of the
database file and the exclusive locks that open and close of the last connection
take are a fault of `ServicesFail`. Partial tokens of a request in `Session`, and timeouts,
which the server does not have.

## 7. Plan

Done: the database with the shortener on top and its abstract table of links, sessions
with their abstract exchange, event loop, API, start and routing, the input and output of a
request, and the theorems of section 4. Next, in this order:

1. `EntityStore` – an abstract API store with one step per request, implemented
   by `ApiStore` when requests do not overlap; its refinement proved in `ApiStoreProofs` from `StoreInv`.
2. Proofs: the escapes of `AnswerReadsBack`.
3. `DbFile` – the exclusive locks of the first open and the last close of the WAL
   file, which are a fault now.
4. The states of `ParseToken` on characters; `StaticFileHandler`'s paths.
