# A verification project for Scriba

Scriba is a collaborative text editor: Qt clients (`src/Client`) share documents
through a server (`src/Server`) that keeps accounts and files in MongoDB. Each
symbol of a document carries a fractional position (LSEQ), and each client keeps
a CRDT of symbols next to its `QTextEdit`.

This directory holds TLA+ modules translated from that code, TLC configurations
that check them on small instances, and TLAPS proofs. `PROJECT.json` maps every
definition to the lines it stands for and lists the runs, the hazards, the
findings and the theorems.

    tlc -config CollabEdit.cfg MCCollab.tla     # any run
    tlapm LseqProofs.tla                        # the proofs; also AccountsProofs,
                                                # FileStoreProofs, NetworkProofs,
                                                # PresenceProofs, FoldProofs,
                                                # CrdtProofs, CollabProofs

The proofs about the editors are long: `CrdtProofs` and `CollabProofs` take some
twenty minutes each with two threads.

## 1. Inventory

| component | state | operations | what makes it correct |
|---|---|---|---|
| LSEQ allocation (`CRDT.cpp`, `symbol.h`) | strategy cache | `generatePositionBetween`, `generateIdBetween` | a new position lies strictly between its neighbours, belongs to one site, and the recursion ends |
| CRDT replica (`CRDT.cpp`) | lines of symbols, size | local and remote insert, paste, erase, change, align; four binary searches | lines ordered and well formed, searches exact, replicas converge |
| text edit synchronisation (`editor.cpp`) | the text, flags | `on_contentsChange`, `on_insert*`, `on_erase`, `on_formatChange`, `textAlign`, `clear` | the text follows the CRDT; remote changes are not taken for local ones |
| client connection (`client.cpp`, `home.cpp`) | window, open file | messages in and out, load of a file in a nested event loop | nothing is lost while a file is loaded; the client and the server agree on the open file |
| operation relay (`server.cpp`) | symbols of open files, lists of clients | operations, open, close | every operation reaches every other editor of the file, and none else |
| file store (`server.cpp`, `mongo.cpp`) | memory, `changed` flags, database | create, open, close, save by timer, lost connection | every edit gets stored; memory is freed just when nobody has the file open |
| accounts (`server.cpp`, `mongo.cpp`, `login.cpp`, `signup.cpp`, `modify.cpp`) | users in the database, the user of each worker, session and forms of each client | sign-up, login, logout, change of nickname and password, lost connection | one session per user; client, worker and database agree; what a user is told is stored; no form waits for ever |
| presence and colours (`editor.cpp`, `highlighter.cpp`, `colors.h`) | users known with the index of their colour, bar, remote cursors | connection and disconnection notices, cursor moves, loads, logins | bar, colours and cursors agree with each other; the bar becomes the server's list; no index is given twice |
| framing (`byte_reader.h`, `serverworker.cpp`) | bytes read, expected size | bytes in pieces, several messages at once | messages out are the messages in, in order |
| worker threads (`server.cpp`, `serverworker.cpp`) | threads, load counts, the queue of the main thread | accept, read, disconnect | counts are the workers of a thread; a worker's end is the last that is heard of it |
| widgets and resources | none of interest | | |

How they interact. A user's edit changes the text edit first, whose
`contentsChange` signal updates the CRDT, which allocates positions and sends an
operation. The server updates its map of symbols (keyed by the position as a
string), marks the file as changed and forwards the operation to the other
clients in the list of the file. A client that receives an operation updates the
CRDT first, then the text edit, whose signal comes back to `on_contentsChange`:
whether the change is local or remote is told by comparing the length of the
text with the size of the CRDT. All request handlers of the server run in its
main thread; the worker threads only read and write sockets.

Hard behaviours. Concurrent edits of the same place; operations that arrive
while a document is being loaded (the progress dialog runs the event loop) or
after it was closed; messages on their way when a client joins or leaves;
crashes between two database calls; requests sent before the answer to the last
one; binary searches and string keys at their boundaries. `PROJECT.json` lists
each at its line under "hazards".

## 2. Plan

Order: what the product depends on most first.

1. `Lseq`, `LseqProofs`: allocation of positions. **Done, proved.**
2. `Crdt`, `FoldProofs`, `CrdtProofs`: the replica and its text edit, as operators,
   and what each handler makes of a replica in order. **Done, proved.**
3. `Collab`, `CollabProofs`: editors and the relay, composed from `Crdt`. **Done**, with
   the replacement of a selection; **every invariant proved** for orderly users.
4. `FileStore`: open files, their storage, crashes. **Done.**
5. `Accounts`, `AccountsProofs`: sign-up, login, nickname and
   password with lost connections and failing calls. **Done; every property proved.**
6. `Documents`: the abstract specification of the files. `FileStore` implements it:
   **done, checked and proved** in `FileStoreProofs`, with type correctness,
   `UnchangedIsStored`, `OperationsReachTheirFile`, `HeldWhileOpen`,
   `NoDeletedWorkers` and `MembersEdit`.
7. `Presence`, `PresenceProofs`: notices, bar, colours, cursors.
   **Done; the invariants proved.**
8. `Framing`, `Network`, `NetworkProofs`: messages cut out of byte streams, lost
   connections, the pool of threads. **Done; the invariants proved.**
9. `Channel`: the abstract specification of a connection, which `Network`
   implements. **Done, checked and proved** in `NetworkProofs`.

Left for whoever goes on:

- `SharedDocument`: a set of symbols with atomic edits that the server and the
  settled editors of `Collab` implement. `Effect` of `CollabProofs` is what its edits
  would be; the known limits of section 6 are where it would not refine.
- What of the invariant of `Collab` is left when users are not `Orderly`, above all
  when two of them paste: types and order of the symbols, without the text.
- Shared links in `FileStore`, profile images in `Accounts`, undo and redo in
  `Collab`.

No module needs a `RECURSIVE` operator: recursion in the code is a loop of actions
(`Lseq`), a recursive function (`Narrow`, `ReadOn`) or a fold, which `FoldProofs`
shows to go through its sequence one element at a time.

## 3. Modules and how they correspond to the code

### Lseq

One behaviour allocates positions one after the other. `Start` is the entry of
`localInsert`, which passes the positions of two neighbours; `Case1`, `Case2`,
`Case3Less`, `Case3Equal` and `InvalidOrdering` are the branches of
`generatePositionBetween`, whose tail recursion is a loop, one step per call
(`level` is the number of identifiers pushed so far); `Finish` builds the symbol.
`clear` empties the strategy cache, as `CRDT::clear` does when the user leaves the
document. The digits drawn are nondeterministic within the interval that
`generateIdBetween` computes. Neighbours are *any* two ordered positions
allocated so far: a replica may hold any part of them, since symbols are erased
and others are still on their way. An allocation with no symbol after it happens
only for the terminator, the first symbol of a new file.

### Crdt

Operators on a record `symbols, size, text, state`, one per function of
`CRDT.cpp`. A position is a number: `Lseq` shows that a new one is strictly
between its neighbours and belongs to the site that made it, and comparison is
all that the rest of the code does with it. The four binary searches differ in
what they read at the end and share the loop (`Narrow`, whose rounds are `Half`). The
oddities are kept: `findIndexInLine` returns `false`, the index 0, for a symbol that is
gone; the number of lines stands for the size of a line; `handleRemoteErase` tells the
text edit one place for all symbols. `state` becomes `"aborted"` when an index leaves
its range (QVector asserts; undefined in a release build) and `"adrift"` when a
remote change is taken for the user's. A replica in these states is not followed
further, and `RemoteStaysRemote` checks that it never gets there.

Formats and alignments are model values, characters are strings of a small set
where `"NL"` and `"NUL"` are the ones that end lines. An alignment is kept for
symbols that end a line only: the code sets it for no other.

### Collab

The replicas of `Clients`, a queue per connection and direction, and the server.
`User*` actions are the user's operations with everything they call up to the
message sent; `Server*` the handlers of the server with the forwarding;
`ReceiveOperation`, `ReceiveFile` and `LoadStep` those of the client. A load is a
loop whose rounds are steps, because `QProgressDialog::setValue` runs the event
loop from the third symbol on and messages are handled in between. `stored` is
the server's map for the one document; `KeyRank` is the order of its string keys,
which is not the order of the positions. An editor that closed the document for good
(`"gone"`) still takes the operations sent to it, but what they make of its empty
replica is followed no further: nobody sees it, and `Rejoin` is for those who come
back.

`UserReplaces` is typing or pasting over a selection. Qt reports one change with
both counts, and `on_contentsChange` erases and inserts; when the counts are equal
it takes the change for one of format, unless `MyQTextEdit` noted a key or a paste
(`noted`). At position 0 the code computes the counts from their difference, because
Qt reports too many there, with the same outcome.

What users do is a scenario, a record chosen at the start of a behaviour
(`Scenarios`: who has the document open, who can build which position, which
positions each user erases, replaces or formats, which kinds of action each does,
and the bounds): one run looks at several, and some combinations really diverge
(section 6).

### FileStore

The server's `files` and `bucket` in the database; `symbols_list`, `changed` and
`mapFileWorkers` in memory; per user a worker with its `filename`, and a client
with its window and `openfile`. The symbols of a file are a count of the
operations that made them. `serving` is what the server is in the middle of: its
handlers run to the end before the next event, and the database calls are steps
so that a crash may come between them. A save walks over the files held, and the
old copy of each is deleted before the new one is stored. Files are read in the
order of a map in the code and in any order here. `shared` has the files whose
link the author has seen: others open those only, and how they come by the link is
left out. A file is named as the server stores it: `Home` sets `openfile` to the
name as typed, which differs after a trailing blank (a hazard without a property).

Behaviour that is undefined in the code ends the model: an operation for a file
that is not held (a null pointer), and a list with a deleted worker. The
properties `OperationsReachTheirFile` and `NoDeletedWorkers` look at exactly the
states before it.

### Documents

What the store promises: each file is a document and a saved copy. An operation
changes the document of its file, a save replaces the copy in two steps while the
document stays, and a crash takes every document back to its copy. Everything is
guarded by `AllSaved`, but the second half of a save and the crash: at most one copy
is missing at any time. `FileStore` maps `doc` to what is in memory, if it is, and
to the database otherwise (`Document`), and `saved` to the database. Who has what
open, when files come into the memory and leave it, requests, answers, lost
connections and the flags are all stuttering. That a file leaves the memory as it
was stored is what makes this true.

### Accounts

Three layers: the users with their windows (`Login`, `Signup`, `Modify`; `session`
is the client's `m_loggedIn` with its names), the server's handlers, and the
database calls, each a transaction whose result is the right one or an error that
`Failing` allows. Connections are numbered, and the server has a worker for each,
made by `incomingConnection` and taken away by `userDisconnected`, which comes
after the requests that arrived. A connection is made by the first request of the
login or the sign-up window and closed by a logout, a refused login and each
answer to a sign-up. It may also be lost: a prefix of what was on its way arrives
at each side, and what the client has read (`inbox`) is handled after the
connection is gone, because `on_byteArrayReceived` is connected by a queued
connection. The warning of a lost connection runs an event loop, in which answers
are handled and the user does nothing (`warned`).

`told` is history: the password a user was last told to have, by the answer to a
sign-up or to a change of password. It is no variable of the program.

Scenarios (`Starts`) say who is logged in at the start, how many requests each
user makes and how many connections are lost: all of it at once is too much.

### Framing

The reader of `byte_reader.h` as operators, for both ends: a size before each
message, bytes kept between calls, every complete message emitted. A byte is a pair
of its message and its place, so that whatever is read can be told from what was
sent; lengths are scaled down (`Header` 2 for the 8 bytes of the code, `Size`). A
size read out of the middle of a message is taken for one so large that the reader
waits for ever (`Endless`). The code appends what arrives while it works; that is as
if it had arrived before.

### Network

Connections between `Client` objects, which connect again and again, and the workers
that `incomingConnection` creates in a pool of threads: the first ones in threads of
their own, later ones in the thread with the least load. Bytes of each direction are
a stream that is read in any pieces. What a worker or a client's socket says reaches
its program through a queue (`events`, `posted`), because the signals are queued. A
connection ends by `disconnectFromHost`, which writes what is left first, or by a
failure, which loses the end of both streams.

`onReadyRead` of the client is queued as well, so that it may run after the
connection was lost and the reader cleared (`ClientReadsLate`): the socket still
holds bytes, `m_received_data` then begins the next connection with them, and all
that follows is garbled. `IsChannel` and `EverythingArrives` name this case
(`Spoiled`) as their exception. `setSocketDescriptor` may fail, which leaves the
client without a worker. `stopServer` has no caller.

### Channel

What a connection promises: messages of a link are handled one at a time, once, in
order. `Network` implements it whatever pieces the bytes come in, and when
connections end and begin with messages of the last one still queued.

### Presence

Clients (programs), on which users log in one after the other, and the server's
lists. Per client: the highlighter's `users` with their index of a colour, the last
index `current`, the bar `peers`, and `remote_cursors` with their colours. The server
sends the list of the others with a file and tells them; it tells who comes and goes
and forwards cursors. The load of a file is one step or, if the scenario says so
(`nested`), several with the event loop in between. `openfile` decides which notices
a client takes; it is set when a load ends and keeps its name when the file is
closed. The files asked for exist. The list has 19 colours (a comment says
twenty-two); an index past them is shown in white, although another comment says a
random busy colour is given: the set of used colours is never filled, so that the
index only grows. The user of the program is always known (`addLocal`), and stays
known when another logs in on it.

### Modules with proofs

`LseqProofs`, `AccountsProofs`, `FileStoreProofs`, `NetworkProofs` and
`PresenceProofs` extend their modules. `FoldProofs` is about `FoldLeft` with any
operator; `CrdtProofs` and `CollabProofs` extend `Collab` and instantiate it with the
bodies of the loops (section 7).

## 4. Runs

Passing runs:

| run | instance | what it shows |
|---|---|---|
| `Lseq` | BASE 4, BOUNDARY 3, 2 sites, 4 positions of depth up to 3 as neighbours | a position is strictly between, one site's, at most one level deeper; the missing branch is never reached; allocations end |
| `CollabEdit` | six scenarios in a document of two lines, whose keys sort against the positions. `Pair`: 2 editors, 3 actions, each types (also newlines), erases, formats and aligns its own. `Watched`: 1 author with groups of 2 symbols, 1 follower, 3 actions. `Three`: 3 editors type and paste up to 3 symbols in the same places, one erases and formats all, 2 actions. `Joining`: one opens while another types or closes. `Replacing`, `Rewriting`: one types or pastes over selections while another types or watches | lines well formed, text follows, nothing is taken for the user's, every search exact, editors converge and in the end settle and agree |
| `FileStore` | 2 users, 2 files, one of them new, 1 edit, 1 lost connection, 1 crash | flags, memory and database agree; operations reach their file; `FileStore` implements `Documents` |
| `FileMembers` | 2 users, 2 files with symbols, 1 edit, 1 lost connection | lists are those who edit; no deleted worker in a list; every edit is stored in the end |
| `Accounts` | 2 clients, 2 users (one registered), 2 passwords, 2 nicknames, 2 connections | one session per user; clients, workers and database agree; changes are the user's own; nobody waits in vain |
| `Network` | 3 clients, 2 threads, up to 4 connections; 2 messages over 2 connections of one client; 3 over one; 1 between two | each connection is a channel (`Network` implements `Channel`); loads are right; the end of a worker is heard once, last, and always; everything arrives |
| `Presence` | 3 clients, 3 users, 2 files, 2 colours; four scenarios of logins, files opened, cursors moved and connections lost | bars, colours and cursors agree; the bar becomes the server's list when the notices on their way have arrived |

Runs that find a disagreement are in section 6.

Bounds, and why they are enough to meet the interesting cases:

- `Lseq`: BASE 4 and BOUNDARY 3 are the smallest values where an interval holds
  more digits than the boundary and where both strategies draw different ones;
  depth 3 reaches every branch after every other. The proofs remove the bounds.
- `MaxPos` 10 (6 in the runs that find a disagreement): between any two symbols there is room for each editor, and
  once more where an editor types in the place where another does. Two
  characters on two lines and three actions give lines that are split, joined and
  emptied; a window of the binary search with two elements needs three symbols,
  which a pasted group of three has.
- `ops`, 2 or 3 actions: two are concurrent, a third is done on their result
  or while one is on its way.
- `group` 3 for pastes of three editors: two of the other editor's symbols fall in between.
- `MaxEdits`, `MaxDrops`, `MaxCrashes`: one of each; a crash or a lost
  connection may come at every step. `MaxListed` 2 would let a client be twice in
  a list; `MaxAsked` is how many requests of a client are on their way.
- `Accounts`: two clients are enough for two of anything that races (logins,
  sign-ups of a name, a logout and a login). Two connections are one for each
  client, or two of one client one after the other. Two requests of each
  client (one of the second, when the first may lose its connection), or three of
  one: an old password entered, checked and replaced. `Failing` has the errors of
  login and sign-up, which the server looks at; the others are in section 6.

- `Network`: a header of 2 and contents of 1 or 2 bytes can be cut everywhere a
  longer message can: inside the size, after it, inside the contents, between two
  messages. 4 connections in 2 threads put two into each thread and end in every
  order. A second connection of a client shows what the first left behind.
- `Presence`: 3 users let two come, go and come back in the view of a third. 2
  colours run out. The scenarios have one lost connection or one cursor moved,
  2 logins on a client or 2 files on each.

`Presence` uses the symmetry of clients and users, which its invariants do not tell
apart. The other runs use none: positions belong to editors, files to authors,
connections to their numbers.
Every configuration sets `CHECK_DEADLOCK FALSE`, because users may stop, which
ends a behaviour of each model.

## 5. Fairness

- `Lseq`: weak fairness of the calls and of `Finish`; they follow each other in
  one event handler. Starting an allocation is the user's choice.
- `Collab`: weak fairness of what takes the next message from a queue of the
  server (`ServerTakes`), of an editor (`TakesMessage`), and the next symbol of a
  load (`TakesSymbol`): event loops run, and TCP delivers. No fairness of users.
- `FileStore`: weak fairness of the rest of a handler (`Continues`) and of the
  client's (`Hears`). The handlers of requests and the timer are enabled only
  while the server is idle, which it is again and again and not for ever; the
  Qt event loop serves an expired timer and every socket in turn, which is strong
  fairness. No fairness of users, drops or crashes. `EditsAreStored` is checked
  in `FileMembers`, without a crash: a crash loses what was typed since the last
  save, by design.
- `Network`: weak fairness of each event loop: that of the server's main thread
  (`ServerHandles`, `userDisconnected`), those of the clients (reading and handling),
  those of the threads of workers (reading, noticing the end). The bytes of a
  connection that lasts arrive by TCP. No fairness of connecting, sending, losing
  connections or of `ClientReadsLate`.
- `Presence`: none; `PeersCatchUp` speaks of the state after the notices on their way.
- `Accounts`: none. That a user's form does not wait for ever is stated as an
  invariant, `WaitingIsPending`: as long as it waits, a request or an answer that
  ends the wait is on its way.

## 6. Findings

Runs that TLC ends with a counterexample:

| run | what happens |
|---|---|
| `LseqThrow` | `Invalid ordering` is thrown for neighbours in the right order: the padding of the first (digit 0, own site) meets a second identifier with digit 0 of a lower site |
| `CollabDoubleErase` | an erasure of a symbol already gone erases the first symbol of the line (`return false` is index 0, and `findPosition` returns true) |
| `CollabPasteText` | a paste with a foreign symbol inside is one piece in the text and two in the CRDT; a third insertion into that place then splits lines in the wrong place |
| `PresenceGhost` | a notice that arrives after the file was closed is taken for it (`openfile` keeps its name), and its user stays in the bar when the next file is opened |
| `FileCrash` | a crash between the deletion of the old copy and the upload loses the file; a crash between the two halves of a creation leaves a listed file that cannot be read |

Known limits of the properties. The code breaks them in the scenarios below, which
the passing runs leave out; each line says which constants bring one back.

| scenario | what happens | constants |
|---|---|---|
| concurrent formats of a symbol, or alignments of a line | they end crosswise: the last to arrive wins at each editor, `Converged` fails | `Pair` with `touch \|-> All` |
| a key that sorts after the terminator's | it is loaded first and taken for the user's typing, `LinesWellFormed` and `Converged` fail | `Joining` with a `KeyRank` that puts another position after `MaxPos` |
| an erasure or a change in the middle of a load | it names a symbol not there yet: it is lost or takes another, `Converged` and `LinesWellFormed` fail | `Joining` where c1 only erases, with `touch \|-> OnlyFirst`, and c2 only opens |
| an operation after the document was closed | it goes to the empty CRDT and is taken for the user's: whoever opens the document again does not settle, `EventuallyConverged` fails | `CollabEdit` with `Rejoin = TRUE` |
| one symbol typed over another with Shift, as a capital letter | `MyQTextEdit` does not note keys with modifiers, equal counts are taken for a change of format: the text has the new symbol, the CRDT and everybody else the old one, `TextFollowsApart` fails | `Rewriting` with `noted \|-> BOOLEAN` |
| a file without symbols | it is opened at the server and not at the client, `MembersEdit` fails | `FileMembers` with `Existing = {}` |
| a user who asks twice for a file | listed twice and taken out once; the deleted worker stays in the list, `NoDeletedWorkers` fails | `FileMembers` with `Impatient = TRUE`, `MaxAsked = 2` |
| a user who asks for a second file | operations go to it before it is shown, `OperationsReachTheirFile` fails | `FileStore` with `Impatient = TRUE`, `MaxAsked = 2` |
| the update of a nickname fails | worker and client keep the new one, `NicknamesAgree` fails | `Accounts` with `<<"nickname", "QUERY_ERROR">>` in `Failing` |
| the update of a password fails, or the hashing of a sign-up | answered as a success, `ToldIsStored` fails | `Accounts` with `<<"password", "QUERY_ERROR">>` or `<<"signup", "CRYPTO_ERROR">>` in `Failing` |
| the answer to a login is handled after the connection was lost | the client has a session in the window of the login and ignores later answers to logins; `SessionsMatch` and `WaitingIsPending` name it as their exception | `LeftOver` |
| bytes are read after the connection was lost | the next connection begins with them and is garbled for good; `IsChannel` and `EverythingArrives` name it as their exception | `Spoiled` |
| a client opens two files, or handles notices in the middle of a load | notices are dropped or taken for another file; `PeersCatchUp` names it as its exception | `Calm` |

## 7. Proofs

### LseqProofs

`LseqProofs` proves for *every* `BASE > 1`, `BOUNDARY > 1`, set of integer sites
and every neighbour (the assumptions `BaseAssumption`, `BoundaryAssumption`,
`SitesAssumption`, `BoundsAssumption` of `Lseq`, all of which the code's
`BASE = 32`, `BOUNDARY = 10` and integer hashes satisfy):

- `Inductive`: `Spec => []IInv`;
- `AllocatedStrictlyBetween`, `AllocatedByOneSite`, `NoMissingBranch`,
  `DepthBounded` and `TypeCorrect` for the properties of the run `Lseq`.

`StrictlyBetween` is not inductive: it says something of the last state of an
allocation only. `IInv` says what holds between calls. Every position in use is
`WellFormed`: its last digit is not 0, so that there is room below it (positions
ending in 0 would make the next allocation impossible). While the calls go on,
the identifiers pushed are those of the first neighbour, padded, and either the
second neighbour still counts and they are a prefix of it too (`Tight`), or it
was dropped because they already sort before it (`Loose`). `Case2` and
`Case3Less` go from tight to loose, `Case3Equal` keeps either, and `Case1`
ends the allocation: the new digit is above the first neighbour's, and in the
tight case below the second's. The missing `else` would need a first digit above
the second: in the tight case this contradicts the order of the neighbours, in
the loose case the second is the padding `BASE`. `PushIInv` is the lemma for the
three cases that push and go on, `Case1Result` the arithmetic of the last.

`IInv` was checked by TLC before it was proved.

### AccountsProofs

For any clients, users, passwords, nicknames, scenarios and bound on connections
(the assumptions `RegisteredAssumption` and `StartsAssumption` of `Accounts`):

- `OneSessionHolds`: `Spec => []OneSession`. Inductive once the shape of
  `workers` is known (`SessionInv`): every action but a login leaves each worker
  the user name it had, or none (`NamesKept`, `KeptOneSession`), and
  `checkCredentials` gives a name that no other worker has. The argument needs
  nothing about messages on their way, connections or failures: it rests on the
  loop over `m_clients` and on handlers that do not interleave.
- `ToldIsStoredHolds`: `Spec => []ToldIsStored`, if `Failing` has none of the
  errors that are answered as a success (`AnsweredAsSuccess`). The hypothesis is
  needed, as section 6 shows, and it is the only one: the answers that come with
  other errors are truthful. `StoredInv` adds the shape of `accounts` and `told`.
  `signup` needs that the check and the insertion are one transaction, and
  `updatePass` that the user exists when the password is verified.

### AccountsProofs: sessions

For the same constants, with every error that `Failing` may have unless said
otherwise: `TypesKept`, `SessionsMatchHolds`, `WaitingIsPendingHolds`,
`OwnChangesHolds`, and `NicknamesAgreeHolds` if the update of a nickname does not fail
(`~NicknameFails`; section 6 shows that the hypothesis is needed). The assumptions are
those of `Accounts`: what users enter is not the empty text, different users are
logged in at the start, and there are enough connections for them.

None of the properties is inductive: each says what holds when all was heard, or when
a request is handled. All follow from `Inv` (`Invariant`: `Spec => []Inv`):

- `LinksInv`: the requests on their way in a connection that take a login are of the
  user of its worker. It holds although the server does not compare the two
  (`updateNick` and `updatePass` take the user name from the request), because a
  client at home has the session that its worker gave it, and a worker changes its
  user only when nobody is logged in with it. `OwnChanges` follows at once, and so does
  that a request which takes a login is never ignored (`LoggedInHeard`).
- `SocketsInv`: clients have connections of their own, have nothing to hear from a
  former one while they have one, and the end of a connection is the last that its
  worker hears.
- `ClientInv`: for a connected client whose user is at home, `HomeOK`: the user is the
  worker's, and the last nickname asked for is the session's (`EndsWith`). For one in
  the windows of login and sign-up, `DoorOK`: its worker has a user only if the answer
  that says so is on its way, every form that waits has a request or an answer on its
  way, and of the forms there is none but that of the window shown (`WindowOK`). So the
  first answer about a form is what the form waits for (`PendingForm`), and logins sent
  twice do no harm: the second answer is a refusal, heard by who is logged in, or the
  connection is closed before it.

The parts are predicates of values and not of variables, so that they need no proof
where a step leaves the values alone (`ClientKept`). `SendsInv`, `SendsInSessionInv`,
`ClosesInv`, `StaysInv` and `ServerInv` do the work for the five ways in which
connections change; each action has a lemma that names its case. For nicknames,
`NicknamesStored` (a worker's nickname is the one in the database) is kept with the
help of `OneSession`: no other worker has the user whose nickname changes. TLC checked
`Inv` and `NicknamesStored` on the instance of `Accounts` before they were proved.

### FileStoreProofs

For any users, files, authors, files stored at the start and bounds (the assumptions
of `FileStore`: authors are users, and the words that stand for no file and for a
deleted worker name none), with connections that drop and crashes at every step, if
users wait for an answer before they ask again (`~Impatient`; without it the
properties fail, section 6):

- `TypesKept`, `UnchangedIsStoredHolds`, `OperationsReachTheirFileHolds`,
  `HeldWhileOpenHolds`, all from `Invariant`: `Spec => []Inv`;
- `IsDocumentsHolds`: `Spec => IsDocuments`, the refinement of `Documents`.

None of the properties is inductive, since each needs to know what may be on its way.
`RequestsInv` says it of each request in a queue: a user who asked for a file has
asked for nothing else and heard no answer; nothing but the loss of the connection
follows a request to ask or to close; operations and requests to close name the file
of the sender's worker, which is open and has symbols stored or half saved.
`ClientInv` says what the client's window and the answer to it have to do with
that, and `StoreInv` what memory and database have to do with each other in each
stage of a handler (`Rest` is what follows a save). There is a lemma for each action;
`UserKept` and `OthersKept` are for the users with whom nothing happens.

For the refinement, `CopyInv` says of files without symbols what `UnchangedIsStored`
leaves out. `NextDocuments` maps each action: `handleOperation` to `Edits`,
`insertNewFile` to `Creates`, the halves of a save to `Deletes` and `Stores`, a crash
to `Crash`, and all others to a stutter. The hard one is `finishLeaving`, which takes
symbols out of the memory: they are stored, because the save before it walked over
every file held and nothing came in between.

### FileStoreProofs: lists

The lists of those who have a file open, for any users, files and bounds, with files
that are created, connections that drop and crashes at every step. Two conditions:
users wait for an answer before they ask again (`~Impatient`), and no client is sent a
file without symbols (`[]FilesFound`). Both are needed, since the client ignores such a
file while the server lists the client, and one who asks twice is listed twice
(section 6):

- `NoDeletedWorkersHolds` and `MembersEditHolds`, from `MembersKept`:
  `Spec /\ []FilesFound => []MembersInv`;
- `FilesFoundHolds`: where all files were stored at the start and the server does not
  crash, as in the run `FileMembers`, the second condition holds. A file that is new,
  or whose old copy was deleted when the server crashed, may have no symbols.

A worker is deleted when its connection is lost, and taken out of one list only: that
of its current file. So `MembersInv` says that a list holds a client once
(`IsInjective`), that no client is in two lists, and that who is in one has it for its
file (`MemberInv`). This stays so because who is in a list asks for nothing: in the
window of the files, such a client has a request to close or an answer that opens the
file on its way. That a lost connection always takes the client out needs
`SessionInv`: a client that is gone, and whose worker is not, has the notice of it among
its requests, or being handled. TLC checked `MembersInv` on two instances before it was
proved, one of them with a new file and a crash, as far as `FilesFound` holds.

### NetworkProofs

For any clients, threads, messages, lengths and bounds: `TypesKept`,
`LoadsMatchHolds`, `PlacedOnLeastHolds`, `EndIsLastHolds`, `IsChannelHolds`. Loads and events depend on
each other: the load of a thread goes down when the event of an end is handled, so
that an end must be in the queue once, and be its worker's last. `PlacedOnLeast` needs
that no worker is in a thread which is not started (`ThreadsStarted`): a new thread
has no worker, and among those started the loads are the numbers of workers.

`IsChannelHolds` says that `Network` implements `Channel`. It takes inductions over
the bytes a reader holds. The induction theorems of the library have an operator as
a parameter, which no prover here can instantiate, but that a set of numbers has a
least one has none: `LeastNumber`, from the well-foundedness of `<` on the natural
numbers, is cited with the set of the numbers for which a claim fails. So `ReadOn`
is shown to be a function that satisfies its definition (`ReadOnDef`, from functions
that do for readers with fewer than `n` bytes), and what it returns is shown for
every reader:

- `ReadsInStep`: a reader whose bytes, with those still on their way, continue the
  stream after `j` messages emits the next ones, whole and in order, and then holds
  less than a message, of which it knows the size or nothing.
- `ReadingMiddle`: one that begins in the middle of a message reads no size that the
  stream could fill, and emits nothing for ever. This is what makes a cleared reader
  safe: the rest of a lost message is read late, or not at all.
- `ReadingSpoiled`: one with bytes of an earlier link in front emits only garbage or
  messages of its own link, never one of the earlier.

`ChannelInv` follows the messages of a link from the one end to the other: those
handled, those in the queue of the program (`Queued`, mixed with those of other
links), those in the bytes (`Coming`). A link is "on" while it lasts, and then these
are all that were sent; "late" when it was lost and what arrived may still be read;
and "over". The rest ties clients to their connections: one at most at a time
(`Ties`); a connection that was not made is empty (`Unused`); what a client holds
when it connects is nothing or harmful to itself alone (`Leftovers`); a message is
in the queue of the program at the end of its link (`Addressed`). `ChannelInv` was
checked by TLC on the instance of `Network` before it was proved.

### PresenceProofs

For any clients, finite set of users, files, number of colours and scenarios:
`TypesKept`, `PeersColouredHolds`, `ColoursDistinctHolds`, `CursorColoursHolds`. The
invariant adds that every index is at most `current`, that the bar holds just the
users with an index, and that a client past its login has a user. The users of a
list get the indices after `current` in the order of the list; that they differ
needs that the number of new users before one of them in the list (`Before`) tells
them apart, a fact about finite sets. Cursors keep their colour as `addUsers` gives
those that were there first the colour of the new user.

### PresenceProofs: catching up

`PeersCatchUpHolds`: for any clients, users, files and bounds, under the exception
that `PeersCatchUp` names itself (`Calm`). Two names are assumed not to be taken,
`NamesAssumption`: no user is `Nobody` and no file has the empty name.

The property speaks of the bar after all the notices on their way (`Shown`), which is
said without recursion: a user is in it whom a message brought, or who was there, and
whom no later message took out. Two lemmas then stand for the induction over the
queue: a message put at the end changes the result by that message (`ShownAppend`),
and handling the first message changes the bar and the queue but not the result
(`ShownTail`). So a step of the server has to keep pace only at the end of the queue,
and a step of a client only at its front.

`CalmInv` is what makes that possible. Per editor (`View`): the bar and the user are
just those whom the highlighter knows; the answer with the file is the first message
or was handled; every other message is about that file and about someone else; the
cursor of a user comes while the user is shown, so that no cursor of a stranger is
ever drawn. Per client (`ClientOK`): a user who opened no file yet has sent and been
told nothing; a file asked for is either still on the way to the server, or the user
is in its list; who edits has sent nothing but cursors. Per user (`ServerOK`,
`Orderly`): only a worker has requests on their way, a file is asked for first, and
after that or after a file is closed nothing comes but the end of the connection;
nobody tells a user who is not connected anything. The lists of the server hold each
user once, and just those whose worker has the file (`ListsOK`), so that
`closeFile`, which takes the name from the client, and `userDisconnected`, which takes
it from the worker, remove the same user. `CalmInv` was checked by TLC on
the instance of `Presence` before it was proved.

### FoldProofs and CrdtProofs

The loops of `CRDT.cpp` over the symbols of an operation are folds. `FoldProofs` has an
operator as a CONSTANT and proves `FoldedSteps`: what `FoldLeft` computes is reached from
the first value by one step per element. `FoldLeft` of the community modules is a fold
over the set of indices, so this takes a function over the subsets of `1 .. n`, built up
by induction for sets of numbers. That induction (`CanCount`) is a hypothesis there and
proved once in `CrdtProofs` (`UpTo`, from the well-foundedness of `<`), because every
instance repeats what its module holds and the prover carries it along in each step. A
module that wants to prove about a loop instantiates it with the loop's body
(`INSTANCE FoldProofs WITH Op <- ...`); the loop's invariant is then kept by each step.

`CrdtProofs` is about the operators of `Crdt`, for all of their arguments that can come.
A replica is in order (`Good`) when no line is empty, each but the last ends with its
only newline (`Shape`), all symbols are sorted by position (`Sorted`), the terminator is
last and only there (`Ended`), the text is their characters without it and the size
their number (`Follows`). The lemmas say:

- of the binary search, that the window keeps the place of the position in it and
  halves, so that it ends with two elements at most; and hence of `findPosition` and
  `findInsertPosition`, that they find a symbol that is there, and otherwise the first
  symbol after the position, in whatever line it is (the line's last symbol, its
  newline, decides);
- of places in the text, that a line and an index in it are an offset in the symbols and
  the same one in the text: blocks end at the newlines just as lines do;
- of `insertChar`, `EraseSymbol` and the changes of one symbol, what the lines are
  afterwards: the flat sequence of symbols with one more, one less, or another at the
  same place. A newline splits a line or joins two;
- of each handler, that it takes a replica in order which holds the symbols X to one in
  order which holds X with the effect of the operation: `localInsertGroup`,
  `localErase`, `localChangeGroup`, `localChangeAlignment`, and `handleRemoteInsert`,
  `...Paste`, `...Erase`, `...Change`, `...AlignChange` if the operation makes sense for X.
  For the remote ones this contains that the change of the text is not taken for the
  user's, because the size is changed before the text is.

That an operation makes sense (`Fits` in `CollabProofs`) is what the code relies on
without a check: symbols that are inserted are new and go before the terminator; those
that are erased are there, as they are; and between the first and the last of a group
lies no other symbol (`Solid`), since the text edit is told one place for all.

### CollabProofs

Six theorems, one for each invariant of the run `CollabEdit`: `CollabTypeOK`,
`CollabLinesWellFormed`, `CollabTextFollows`, `CollabRemoteStaysRemote`,
`CollabLookupsExact`, `CollabConverged`. Each says `Spec => [](Orderly => ...)`: for any
editors, document, positions, characters, formats, keys, scenarios, number of actions
and size of groups, and for any interleaving of users, server and loads.

The assumptions are named in `Collab` and `Crdt`. `DocumentAssumption`: a document has one
terminator, its last symbol, and positions are of one symbol. `ValuesAssumption`: nobody
types a terminator. `KeyRankAssumption`: different positions have different keys
(`Symbol::positionString`). That a position is built by one site only is part of a
scenario (`owner`), and proved in `LseqProofs`.

`Orderly` is what users must do, each part because the code fails without it (section 6):

- what users erase, format or align is disjoint (`touch`): or else operations that cross
  end differently at each editor, and an erasure of what is gone takes another symbol
  (`CollabDoubleErase`);
- `OneUserPastes`: groups of several symbols come from one user while the others only
  watch, or each operation has one symbol: or else what another typed lies between the
  symbols of a group (`CollabPasteText`);
- the keys that replace a selection are noted;
- who closes the document does not come back (`~Rejoin`);
- when anyone opens the document later, others only type in the meantime, and the
  terminator has the greatest of the keys: or else an erasure names a symbol that was not
  loaded yet, or the terminator is not loaded first.

Each part speaks of the scenario and not of what happens in it; five of the six scenarios
of `CollabEdit` are orderly.

None of the six is inductive: to say what an editor holds after a message one must know
that the message makes sense there, although it was made for what another editor held
some time ago. The invariant (`CollabInv`, with `Facts` for orderly users) speaks of
contents, sets of symbols, on which an operation has an `Effect`:

- `Leads(X, q, Y)`: each message of the queue q fits the content that the ones before it
  made of X, and the last content is Y;
- `InStep`: there is a content to which the messages on their way to an editor lead from
  what it holds, and to which the messages on their way to the server lead from what
  the server holds. So an editor and the server are two ways to the same content, which
  neither of them may ever hold;
- `Window`: this in each phase of an editor. One whose request is on its way has nothing
  to hear; one that was answered, or is loading, is in step with what it will hold when
  the load is done, and an operation handled in the middle of a load (from the third
  symbol on) is one insertion, that goes before the terminator loaded first.

The heart of the proof is that operations of different users commute (`UsersCommute`):
if two fit the same content, each fits what the other makes of it, and the contents
after both are the same. With this an operation made by one user, put at the end of the
queue to the server, passes by all that is on its way to that user (`PassesBy`), and one
that the server takes from a queue and puts at the end of the others passes by all that
their users sent meanwhile. So each of the actions keeps `InStep` for every editor: the
user's actions extend both ways to the content, the server moves a message from one way
to the other, the editor takes the first message of its own way. A replica in order
determines the rest: the sequence of symbols is the set sorted by position (`SameSorted`),
so that two replicas with the same set, or a replica and the server, agree
(`CollabConverged`).

`CollabInv` was checked by TLC on all states of `CollabEdit` before it was proved.

### Model-checked only

- Liveness (`AllocationEnds`, `EventuallyConverged`, `EditsAreStored`,
  `EverythingArrives`, `EndsAreNoticed`): beyond the proof system here. That an
  allocation, a load or a queue comes to its end is TLC's to say, on the instances of
  section 4.
- The scenario `Three` of `CollabEdit`, where three users paste: it is not `Orderly`, and
  within its two actions the invariants hold all the same. What pastes of two users do
  to each other after that is `CollabPasteText`.
- That a hypothesis is needed (`Orderly`, `~Impatient`, `FilesFound`, `~NicknameFails`,
  no error answered as a success): the runs and scenarios of section 6 show it.

## 8. What is not modelled, and why

- Undo and redo (`undoFlag`, `redoFlag`). What Qt undoes is an insertion or an erasure,
  which `on_contentsChange` sends like the user's own, so that `UserErases` and
  `UserInserts` have its outcome; what it is, Qt's stack decides. Undone formats and
  alignments (`checkAlignment`) are left out.
- The counts that Qt reports too high for a change at position 0 (QTBUG-3495): the
  code works with their difference, or erases and inserts again what did not change.
- Where a remote cursor is drawn in the text. In `Presence`: the creation of a file,
  a change of nickname while a file is open (bars are searched by nickname), a
  connection lost in the middle of a load, and a second request before the answer.
- Hashes of user names stand for the users (`fromStringToIntegerHash`): that two users
  have the same one is left out.
- How links are made, shown and given away, and the lists of files: `FileStore` keeps
  whether a file is `shared`. They are reads of the database and one insertion into
  a set, and share no state with anything else.
- User names and nicknames with blanks at their ends: the server simplifies them
  (`server.cpp:613`), and a client keeps a nickname as it was typed, so that
  `NicknamesAgree` would not hold of such a one.
- Profile images, which are stored and sent along. Failing database calls of
  `FileStore`.
- `Accounts`, `FileStore`, `Presence` and `Collab` take it that messages arrive whole,
  once and in order while a connection lasts, which is `Channel`, and that handlers of
  the server do not interleave, which holds since workers pass messages to the main
  thread by queued signals. `Network` shows the one case where the first fails.
- `localChange` and `stopServer` have no caller. The answer to a close request is
  ignored by the client and left out.
- The check of the types of JSON fields in every request: the clients of this
  repository send them well formed.
- A server that cannot be reached: the requests of `Accounts` find it listening.
- Names of files with blanks at the end or with parentheses, which `home.cpp` and the
  server write in two ways (`home.cpp:42`, `showActiveFiles`).
- Widgets, printing, third-party code (`src/3rdparty`), resources, packaging.
