# screen-rs in TLA+

A verification project for screen-rs, a terminal multiplexer: a daemon holds a
session of windows, each a program behind a PTY, and clients attach to it over a
Unix socket. The modules here model what the daemon does with that session, what the
terminal behind each window does with its output, how the programs of screen-rs talk to each other,
and how a run of screen finds or starts a session. TLC checks them on small
instances, and TLAPS proves the safety of the session, the terminal, its parser, both copy modes, the
handshake, the attached client and the runtime directory for every instance. Line numbers are
those of `crates/screen-daemon/src/lib.rs`; in what concerns the terminal,
of `crates/screen-terminal/src/lib.rs`, and in what concerns the client and the commands, of
`crates/screen-cli/src/main.rs`; unless a file is named.

## 1. The system: components, state, operations

| Component | State | Operations | Talks to |
|---|---|---|---|
| Session core (`screen-daemon/src/lib.rs`, `run_pty_session`, `SessionState`) | the window table, `selected`, `next_id`, `next_number`, settings; the vector of attached clients; the main loop's place | one loop: poll signals, accept connections, drain client events, poll output, check exits | clients through sockets and one `mpsc` channel; windows through PTYs |
| Client reader threads (`spawn_client_reader`) | the socket's reading half | decode a message, send a `ClientEvent`, end with `Detach` | the channel to the loop |
| Regions and layouts (`lib.rs`, `rendering.rs`) | `regions`, `focused_region`, `saved_regions`, `saved_layouts` | split, remove, only, focus, resize; the same again as commands; save and load | the window table, by index |
| Commands (`execute_command_string`) | none | about a hundred commands from `screen -X` or a client's command line | every part of the session |
| Attach handshake, password, ACL (`accept_connections`, `peer_cred.rs`) | the password, users and their rights | Hello, challenge, admission or refusal, one-shot requests | the client list, the session |
| Copy mode of the daemon | one cursor, mark, search and flag for all clients; paste buffers | enter, move, search, mark, yank, paste | the screens of the windows |
| Bell, activity and silence | per-window flags and times | raised by output, told to clients | broadcasts |
| Mouse (`mouse.rs`) | none | decode, forward, click on the hardstatus | clients, windows |
| Terminal emulation (`screen-terminal`) | two grids, cursor, margins, modes, scrollback, parser state | one per byte of output, resize, redraw | owned by a window |
| PTY library (`screen-pty`) | the master side and the child | spawn, read, write, resize, try_wait, terminate on drop | the kernel |
| Wire protocol (`screen-protocol`) | none | framing and codecs of 69 kinds of messages | both ends of the socket |
| Runtime directory and sockets (`screen-platform`, `socket_util.rs`) | a directory and the sockets in it, no lock | create, restrict, validate, probe, bind, remove | other runs of screen, daemons |
| Attached client (`screen-cli`, `attach_socket`) | two threads, the standard streams and their locks, escape key, flags, its own copy mode | forward keys, recognise `C-a` sequences, show output | the daemon |
| Commands and questions (`screen-cli`, `-X`, `-Q`) | none | connect, greet, send one message, read one answer | the daemon |
| Configuration (`screen-config`), formats (`screen-core`) | none | parse, source, expand | the session's start |

How they interact: the loop is the only writer of the session. Each attached
client has a reader thread that turns its messages into events on one channel;
the loop drains that channel once per pass. Whoever connects is served on the spot, by blocking
reads under a timeout, before the loop goes on. The daemon can take a client off its
list (a write fails, another client attaches in its place, a hangup, a detach
request) without the thread knowing, so events of clients that are no longer
listed still arrive, and the thread's own last `Detach` may find nothing. Windows
are children of the daemon; they exit when they like and the loop finds out by
`try_wait` at the end of a pass. A window that is killed keeps its row in the
table as a zombie, until `wipe`, `remove` or auto-nuke takes the row away. Runs of screen and daemons share
nothing but the names of sockets in one directory.

What is hard here, and hard to test:

* **Indices into a table that shrinks.** The session, every client (twice), every
  region and every saved region hold an index into the table. Three operations
  shorten the table; each mends only the session's own index.
* **A client list that shrinks anywhere.** Any write may remove any client, in
  the middle of an operation that goes on to use its place in the list.
* **Order within an operation.** Marking several exits before moving viewers on,
  nuking the dead before or after looking for viewers.
* **Two implementations of one feature.** Region events and region commands, copy mode in the client
  and in the daemon, one-shot requests and events, each with slightly different rules.
* **Zombies.** Dead windows that are still there, that circular searches must
  skip, and whose PTYs are reported as exited on every pass.
* **Numbers that are not identities.** Renumbering runs into the counter of
  `create_window`, and then look-ups by number find the first of two windows; pids come round.
* **Errors that end everything.** A `?` on one client's input or greeting ends the
  daemon for all.
* **A daemon that waits.** A peer that falls silent in the handshake holds up everybody; what is
  told to those who wait must still be true.
* **One copy mode for all.** Any client toggles it, moves its cursor and yanks, each with the window it
  looks at itself, while the history moves underneath.
* **A timeout in mid-frame.** `read_exact` under a read timeout throws away what it has read.
* **A grid in one vector.** The terminal scrolls, inserts and deletes by draining and
  inserting ranges of a flat vector of cells, with ranges computed from a region, a row and a count
  that any program may set as it likes, in any order.
* **A size that changes under everything.** A resize changes the dimensions, the margins and
  the cursor, but neither the grids nor the saved cursor; what was computed
  for one size is used with another.
* **Look, then act.** A run of screen probes sockets one by one, and then starts, attaches or
  removes by what it has seen.

What makes each component correct:

* session core: ids are never reused, the selected index stays in the table, a
  removal takes only dead windows, a window's exit is noticed, viewers are moved
  from dead windows to live ones, the daemon ends with its last window;
* clients: nobody stays on the list without a thread that will take it off;
* regions and layouts: the focus is always a region, and only removals make indices stale;
* handshake: only the admitted attach, whatever a peer sends first or second (and a peer whose user the
  system does not tell counts as root); alone, unless they ask to share;
* requests: an answer comes to whoever is owed one, and a success is one;
* copy mode and bells: marks and matches stay usable, a yank holds what was marked, a bell
  waits until somebody could hear it, unless those on the list have all hung up or it is the visible one;
* terminal: the cursor stays on the grid, the margins stay ordered, the grids
  keep their shape, the scrollback its limit; no sequence swallows what follows, no octet of text is lost, and what
  a client is shown is what is there;
* wire: what is received was sent, in order (after a timeout in mid-frame, as long as no payload looks like a frame), and nobody waits
  for what nobody owes;
* attached client: after a detach, and when the session or the terminal goes, it comes to its end unless it is in
  copy mode, asks for a password, waits for a daemon that owes nothing, or its keyboard thread is stuck; it ends with the
  terminal's own screen shown;
* runtime directory: it is private, a session that is there is found and never wiped, a start is honest.

## 2. The modules

| Module | What it is |
|---|---|
| `Basics` | saturating subtraction, minima, enumerations, the tail of a sequence |
| `WindowTable` | the table as a sequence of rows, and the pure searches and updates on it (`window_index`, `next_window_index`, `prev_window_index`, `kill_window`, `mark_exited`), indices counting from 0 as in the code |
| `ScreenSession` | the daemon: 15 variables, an action per signal, one-shot request, client event, command and loop step |
| `WindowLife` | the abstract specification that `ScreenSession` implements: how windows come, exit, die and go |
| `Viewing` | what clients look at: the daemon's copy mode, the history under it, bells |
| `Requests` | everybody who connects: the handshake, the password and the list of users, every one-shot message, timeouts and hang-ups, and what becomes of those who asked |
| `RemoteCommands` | the verbs of `-X` and `-Q`: the message each sends and what each takes for success |
| `Admission` | the abstract specification that `Requests` implements: who may be attached |
| `Launch` | the runtime directory, daemons coming and going in it, and the runs of screen that start, find, list and wipe |
| `Client`, `CopyMode` | the two threads of an attached client, and the keys of its copy mode |
| `Codec` | the payloads of all messages: what octets each becomes and what a receiver makes of them |
| `Wire` | their frames, and a connection that carries these in pieces |
| `Grid` | `ScreenGrid`: a flat vector of cells and what scrolls, shifts, writes and clears it |
| `Terminal` | `TerminalState`: 11 variables, an action per control character, completed escape sequence and call of the daemon |
| `EscapeParser` | the parser: one octet gives the next state and its effects, and what of the terminal's state the grid does not show |
| `Rendition`, `Redraw` | styles and the SGR sequences that set and describe them; a row written for a client and read by its terminal |
| `MC...` | the instances for TLC |
| `TerminalClaims` | what a test in the source says and the code does not keep |
| `BasicsProofs` | lemmas: least elements and induction on sets of naturals, enumerations, maxima, tails, flattened sequences, and folds as sequences of the values in between |
| `ScreenSessionProofs`, `TerminalProofs`, `TextProofs`, `ViewingProofs`, `RequestsProofs`, `LaunchProofs`, `ClientProofs` | what holds of the operators of `WindowTable`, `Grid` and `CopyMode`, the inductive invariants, and the theorems; `TextProofs` has those of `EscapeParser` and of `Redraw`, `ClientProofs` also those of `Codec` and `Wire` |

`ScreenSession` and `Requests` are built from `WindowTable`, `Requests` from `RemoteCommands` as well; `Terminal` from `Grid`,
`EscapeParser` and `Redraw` from `Rendition`, `Client` from `CopyMode`, `Wire` from `Codec`. The modules meet as follows.
`ScreenSession` sees a client that was let in (`Attach`) and requests that arrive; `Requests` says who is let
in, who asks and what they are told, with a smaller session behind it: windows, no views. `Requests` takes messages whole;
`Wire` says how they become so. `Launch` ends where a run has connected, `Requests` begins there. The daemon
owns a terminal per window and touches it only through the calls that `Terminal` has as actions;
`EscapeParser` ends in those calls. No property of one module depends on
another's state. Operators named `Slip...` are variants with one likely slip in them, kept beside the
right ones to see which property notices; no specification uses one.

### The session's state and actions

`windows` is `SessionState.windows`; a row keeps the id, the number, `alive`
(whether the daemon has been told that the window is dead), and what is behind the row:
`running`, `exited` (not yet, or still, reported by `try_wait`) or `none` (the
PTY was taken by `kill_window`). `clients` is the vector of attached clients, a
function from client ids, because the vector is in the order of ids and every
look-up but one is by id; the exception, the place a client had in the vector
(1060), is computed where it matters (`EvClick`). `readers` are the threads that
have not yet sent their last event. `regions`, `saved` and `layouts` keep only
which window each region shows; `layouts` has at most one name. `phase` is where
the loop is, or how the daemon has ended: `stopped` (a return), `failed` (an error
through `?`) or `panicked` (an index or `unwrap` out of range).

An action is one handler, with every look-up, clamp and broadcast it makes.
A broadcast may lose any subset of the clients. Inputs are chosen by `\E` from the
numbers that exist, since a request for a number nobody bears only answers
with an error. The events of one client in one pass are not kept in a queue: the
channel never orders events of two clients, and which event a client sends next is
free, so "some reader sends some event" has the same runs as a queue with
arbitrary contents. A client's `Detach` is its reader's last event (`EvDetach`).
`Features` switches parts of the interface on, so that an instance does not
pay for what its question does not use. Left out of the handlers: what they print or draw, and the
settings that shape only output.

### The terminal's state and actions

A grid is `[columns, rows, cells]` with `cells` the flat vector: it keeps the columns it was
made with when the terminal is resized, as in the code, and its cells
may become more than columns by rows. A cell is a glyph and a width: 2 before, 0 on, the second half of a
wide character. `primary` and `alternate` are the two grids, `alternate` empty or a set of one
(`using_alternate` and the grid that is made on entering, which is the only time the
code reads it). `scrollback` is a sequence of lines. `panicked` says that an index has left
its range: `Vec::drain` panics on a range that ends before it starts or beyond the
vector, and the operators `UpFits` and `DownFits` are those conditions.

Most sequences have an effect on three things, the grid, the cursor's row and the
scrollback, and a sequence can be several line feeds long (`CNL`). The model therefore
computes an effect, a record of those three and whether it went well (`Now`, `ScrollUp`, `Capturing`, `Fed`,
`Feeds`), and `Land` makes it the new state. An action starts where the parser
has completed a sequence and its parameters are numbers. They saturate at 2^16 - 1 (1054), and
every sum with one saturates and is then clamped to the screen (1250, 1276, 1401, 1645, 1796), so the model's unbounded
naturals give the same results. Sums of columns alone (913, 1603) would need a screen within eight
columns of 2^16 to overflow; such sizes are left out. One subtraction may go below zero: `insert_cells` and `delete_cells` subtract
the column from the grid's columns (302), and after a resize the cursor may be beyond them. A build that
checks for overflow panics (`Overflows`), one that does not wraps and
then shifts nothing (`Room`); the model has both outcomes.

`EscapeParser` is a Mealy machine: `Taken` gives the next state of the parser and the effects of one octet, `After`
applies them one after the other to style, charsets, title, bell, input modes and replies, and records the calls on the grid.
`Redraw` draws one row, because each row starts from a reset; the row is filled in any way at all.

### Clients, copy modes and bells

`Viewing` keeps the one copy mode of the session (`copy`, `mark`, `paste`), each window's history as an interval of line
numbers, which is enough to tell lines apart, and the bells that wait (`pending`). A client on the list may have hung up without
the daemon knowing. Three history variables record what the code keeps no trace of: `unheard` the bells that nobody who still
reads has been told of, `vain` those of them that have been sent, to nobody who reads or as the bare octet of the visible bell,
and `marked` what was marked; no action's guard reads them. `CopyMode` is the
client's own copy mode, a function from keys to views that `Client` runs; a line holds each of the `Queries` as many times
as `found` says, so that a search may find more or less than the one before. `Client` has the main thread, the
keyboard thread, the two locks of the standard streams that each holds for its life, the mutex of the bindings
with its poisoning, the flags and the session at the other end with a socket of bounded room. The session may end, or
time out, at every stage of the handshake, the main thread may wait for a password to be typed (`prompting`), and the
terminal may be closed (`closed`): from then on reading it gives its end. A
byte stands for all bytes that do the same.

### Requests and launches

`Requests` has a queue of peers that have connected, the peer the daemon serves (`loop`), a stream each way per peer,
and the session as far as the one-shot requests touch it. A peer is a run of a
command or a question, a client that attaches, a probe (`session_socket_entries` connects to see whether
somebody listens), a peer that falls silent, or one of another version. Two mishaps are the peer's: its credentials cannot be
had (`unknown`), and then `unwrap_or(0)` (3488) makes it `Root`; and its second message is not the answer that was asked for
(`confusion`, 3445-3453). An admitted client is sent a redraw only if the window it would see is in the table (3505).
`carriedOut` records whose request was carried out, for the property about it. A timeout may strike whenever nothing has come.

`Wire` takes octets as they are: the magic is an octet that a payload may contain too, and a reader that has lost the head
of a frame then takes what follows it for a header.

`Launch` has the directory's state (`absent`, writable by others, private, somebody else's), the sockets as a function from paths to the
daemons that bound them, a daemon per run that starts one, from `starting` to
`ended`, `killed`, or `aborted` (it could not restrict its socket or make it non-blocking, 569-572, and leaves it behind), and per run what it wants, where it is and what it has seen. `look` and `bind` are one
step each; `bind` and `listen` are two, since the library makes two calls. A run records the age of a socket when it looks at it
(`Date`) and chooses by what it has recorded, when the socket may have gone; one that was to choose the youngest, found none and
started a session attaches like any other, and gives up at several. Pids are reused when
nobody holds them. Creation times are replaced by the order of binding, of the sockets that were there
before as of the new ones (`LaunchAssumption`); ties and a clock set back are left out. `there` and `gone` in `scan` record the past for the properties.

## 3. What TLC checks

| Run | Question | Bounds |
|---|---|---|
| `clients` | does the table implement `WindowLife`, do the session's index and the forced moves of the clients stay right when two clients, one-shot requests and commands interleave with exits, kills, wipes and removals? | 3 ids, 2 clients |
| `regions` | can any mix of region events, commands and layouts leave the focus off the regions, or make an index stale without a removal? | 2 ids, 1 client |
| `settings` | under maxwin, auto-nuke, renumbering and clicks on the hardstatus, with fairness: is every exit noticed, and does the last one end the daemon? | 2 ids, 2 clients, limits none, 1, 2 |
| `viewing` | do clients that share one copy mode keep marks and matches usable, and does a bell wait until somebody could hear it? | 2 clients, 2 windows of 2 rows, histories of at most 3 lines, 2 lines of output |
| `requests` | does the handshake implement `Admission`, is a success one, does everybody who is owed an answer get it? | 3 peers, 2 windows, the scenarios of `MCRequests` |
| `launch` | is the directory private, does who attaches reach the session meant, is what is there found and spared, does every run come to an answer? | 3 runs, 2 pids, the scenarios of `MCLaunch` |
| `client` | when does an attached client end once it is to, and with which screen shown? | room for 1 frame, 1 unasked message, 4 users, 3 histories, 2 queries |
| `wire` | is what arrives what was sent, whatever the pieces, and what of it remains true after timeouts? | every kind of message, 2 per connection, 3 timeouts, octets below 4 |
| `text` | does the parser find back to text, and is a row shown as it is? | 22 octets, 2 sequences, 1 parameter and one more, titles of 4 octets; rows of 3 cells in 4 styles |
| `term_lines` | does scrolling any region from any row move whole lines, lose none, and keep to the region; do writing and editing in a row keep to the row? | 1 by 4 cells, counts 0 and 2, every margin, limits 1 and 0; 3 by 2 cells, narrow and wide characters |
| `term_screens` | do the grids survive resizes between two shapes, the alternate screen, and a restored cursor, in any order? | 1 by 2 and 3 by 1 cells, grids of at most 5 |
| `claim_term_panic` | expected to be violated: see below | 1 by 4 cells |

In `ScreenSession`: `SelectedInRange` (without regions the session's own index is in the table),
`NobodyViewsZombie` (after a pass nobody looks at an exited window while another
lives; auto-nuke is excluded, because the code then shortens the table after it has
moved the viewers, and mends nothing of theirs), `FocusValid`, `RangeKept` (indices go stale through removals only),
`LivesKept`, `ForcedMovesLeaveTheDead`, `SelectionFollows` (what a
step may never do to a client that did not ask, and to the
session's window under a wipe or the removals that follow exits; of the row that a kill itself removes under
auto-nuke it says nothing), and, under `LoopFairness`, `ExitNoticed` and `LastExitEndsSession`.
`LivesKept` is `WindowLife`'s specification with its sets read off the table: `running` the ids of the rows whose program runs,
`exited` of those that have exited and are not marked dead, `dead` of those that are marked. An id is given once; a window dies of a
noticed exit or a kill and of nothing else; the dead stay dead, and only they are removed, all or one; a killed window goes with
them at once under auto-nuke, alone of those that run (`RemovalSparesTheRunning`).

In `Viewing`: `MatchExists` (the place among the matches is one of them, through any later search, though copy mode
is left and entered by others), `BellKept` (a bell that waits has reached nobody, and one that has reached nobody waits, unless it was sent in vain: to clients
that had hung up, or as the visible bell's bare octet),
`YankHoldsMark` (what a client yanks of the marked window holds the marked line, wherever the cursor is by
then, unless the window has lost lines meanwhile, which moves its lines under the mark).

In `Requests`: `SharedByConsent` (who is inside beside earlier clients has asked for it), `SuccessIsDone` (what a
command that looks at its answer reports as done, the daemon has carried out), `AnswersAtLast` (everybody who is not silent gets
an answer, an error or the end of the stream, but for a client let in to a session without windows, `LeftWaiting`), and `AdmissionKept`, which is
`Admission`'s specification under the mapping `inside <- Members(inside)`: the rules in force at the moment of
admission, by the password that peer gave and the user its credentials name; a peer without credentials is root there too
(`anonymous`), so that this departure is in what is promised, and said.

In `Launch`: `SocketsArePrivate`, `NothingLeftBehind` (a daemon that ends by itself leaves no socket, except between its bind and its cleanup), `HonestStart`,
`ReachesTheOneMeant`, `FoundIfThere`, `WipeTakesOnlyTheDead`, and under fairness `EveryRunAnswers`. The
exceptions that the properties state are the code's: a start may take the socket of a killed daemon with the
same pid for its own (412); a wipe may take a socket that has been bound and not yet listened on
(`runtime.rs`:190), or one bound after the wipe had looked, and that session then serves where nobody can reach it.

In `Client` and `CopyMode`: `CursorVisible`, `TerminalRestored`, and under fairness `LeavesAtLast`: after a detach, or when the
session is gone, the client ends, or is in copy mode, or asks for a password; when the terminal is closed, it ends, or its keyboard
thread waits for standard output or has panicked (`Deaf`), or the main thread waits for the first output (`Awaiting`).
In `Wire`: `Faithful` (what arrives was sent; after a timeout in mid-frame only if no payload holds the magic, `Clear`), `FailureExplained`, `NothingOwed`. In the text run: `TerminatorEnds`, `TitleHasNoTerminator`,
`BrokenTextKept` of `EscapeParser`, and `RedrawShows` of `Redraw`. That run is the sum of two machines with
the styles in common: from its first state either the parser runs or the row is filled.

In `Terminal`: `GridCovered` (no grid loses cells, which the readers of lines index unchecked),
`ScrollsByRows` (draining and inserting ranges of the flat vector is scrolling
by rows: the definition in terms of rows is the reference, compared in every reachable state
for every count), `PanicsOnlyAstray` (an index leaves its range only with a grid that no longer has the
terminal's shape, or with the cursor below the region), `RegionKept`, `RowEditsStay` (what scrolls leaves the rows outside the region, what edits a row
leaves the other rows), `TapeContinues` (scrollback and screen are one tape that line feeds extend, without
losing, repeating or reordering a line), `PrimaryKept` (behind the alternate screen the primary one and the scrollback wait).

**Bounds.** `MaxIds` caps `next_id` (ids and numbers otherwise grow for ever),
`MaxClients` the clients that ever attach. Three windows are the least with which a removal
in the middle shifts an index that is not the last, and a circular search has a
choice; two clients are the least with which one acts on what the
other looks at, and with which an event finds its client gone.

A terminal of four rows is the least with rows above, in and below a region of two, which is the least that
can scroll without being wiped; one column is enough for what concerns whole lines, and one
glyph, since a blank is the other. What concerns cells of a row needs three columns, for a wide character and one it displaces,
and a second row to be spoilt. Each of the two terminals of `term_lines` has the actions of its question only (`LinesSpec`), and a
state with text in both short rows is not followed further; both may be given the other's size and their own again. The two shapes of
`term_screens` shrink one dimension while the other grows, either way. Counts are 1 (0 stands for it) and
2; larger ones are clamped where 2 is on these screens. `MaxCells` caps the cells
that lines deleted below the region add to a grid.

A history of three lines over two rows is the least that both grows and loses its oldest. In `viewing` each behaviour
is limited to two or three kinds of events (`MCUsers`), chosen so that every property's events meet each other; clients and windows are
interchangeable there, and no property is temporal, so symmetry is sound. `MaxCursor` caps the
cursor, which `j` moves past the last line in the daemon's copy mode.

Three peers are the least with one served, one waiting and one inside. A scenario (`MCScenarios`)
casts them: any command or question beside one that kills the window, wipes, quits the
daemon or falls silent; two that attach, with or without `-x` and with or without a password up front,
while a third changes the rules; attached clients beside peers that probe, fall silent or speak another version,
any of which may be killed; a client that attaches after the last window was killed and wiped; peers without credentials, with
root on the list, taken off it, or the list empty; and clients that answer the challenge with something else. Three runs of screen in
`launch`: a session or what a killed one left, another being started under a name that may be taken for the
first one's socket, and one that looks for either or wipes; the directory made by two at once. Two pids are the least
that both clash and come round. A daemon that cannot restrict its socket is one of the mishaps.

In `client` the histories have lines that only one of the two queries finds, so that a search with fewer matches follows one with
more; the terminal may be closed, and the session end, at any moment.

In `Codec` an octet has four values, so that payloads reach their limit at 16 octets; the limit's relation to the width of a
length is that of the code. The messages (`MCMessages`) are every kind with its largest and its lopsided values, and rows and
payloads at and over the limit. The magic is one of the four, and two of the payloads sent contain a frame. Two messages are the least whose frames can be confused. In `text` the
alphabet has one octet of each class that the parser tells apart, and the modes, styles and reports
one value of each kind.

**Fairness.** In `ScreenSession`, `PollQuiet` and the four steps that end the phases of a pass are weakly fair. The code justifies it
by a loop that never blocks for ever: sockets are non-blocking or under a timeout, the channel is drained with
`try_recv`, and every phase ends when its queue is empty. That a queue does get empty
is an assumption on the peers, that they do not send faster than the daemon drains. In `Requests` the
daemon's own step and each peer's next step are weakly fair, as each is a program that runs; what users do (`Begin`,
typing a password), what is killed and what falls silent are not. In `Launch` each run of screen is weakly fair, daemons are not: a daemon
may hang before it binds its socket. In `Client` the main thread, the grant of the lock of standard
output, the session's answers and the end of a buffer of keys are weakly fair; the user is not, and a prompt for the password waits
for the user, until the terminal is closed: then a read gives the end, which the threads that read find (`InputEnds`, `Prompted`,
`QuitCopyMode`, `QueryEnds`). Programs and signals are fair nowhere. `Viewing`, `Wire`,
`EscapeParser`, `Redraw` and `Terminal` have safety properties only.

Deadlock is not checked: a daemon, a client, a run of screen or a reader may end, and then the model stops by design.

### Where the code and what is said of it part

`claim_term_panic`: `DL` with the cursor two rows below the region drains a range that ends
before it starts (255), and the daemon panics, where a test (2388, 2399) says that no input does.

Others were met while modelling and have no run of their own. The models do what the code does.

* A client's index (3285: "Index into session.windows") runs off the
  table after `wipe`, `remove` or auto-nuke; `OtherWindow` and `WindowInfo` then index the table with it. Under
  auto-nuke the viewers of a killed window are not moved (1583),
  because its row has left the table before they are looked for.
* `quit` (5002: "Kill all windows and exit") sets a flag nobody reads.
* Two windows can bear one number, though renumbering looks for that (1633, 2795); `remove_window` can select a dead window (2293, 3029);
  loading a layout creates no window (4322, 4327).
* A silence is never reported: the time of the last activity is set (2123) just before the silence is measured from it
  (2180). `activity_notified` is set and never cleared (2124).
* A resize of the terminal leaves the grids as they are, so that columns and rows the screen has
  gained do not exist, and rows are read at the wrong places (702).
* In the terminal, `DL` one row below the region makes the grid
  grow, where a test (1985-1988) expects its length to be kept; the comments on
  `IND` (1619) and on capturing (1636) describe other conditions than the code
  (1609, 1645); the comment on a cell's width (171) promises a second half that
  overwriting (889) takes away.
* A bright colour is written for a client as another: 30 plus its number leaves the basic
  range, and bright red becomes 39, the default colour (1840 and on). `RedrawShows` leaves such rows out.
* In the attached client each thread holds the lock of one standard stream and wants the other's: the keys that show
  something, and copy mode, wait for ever (1485). The flash of the visual bell is written to the
  daemon's socket (1303), where it is no frame; the daemon writes its own to the clients' (2163).
* The end of the input of a closed terminal is to trigger a detach (comment at 1037-1038: "The stdin read will return EOF naturally,
  triggering detach"). The keyboard thread never reads it when it waits for standard output, which the main thread keeps, or has
  panicked (`Deaf` in `LeavesAtLast`).
* A bell is to be retained "until a client can observe" it (daemon, 2157). It is forgotten when all those on the list have hung up, and when
  it was the visible one, whose octets no client takes for a message (`vain` in `BellKept`).
* After a timeout in mid-frame what a reader takes next may be a payload, and a payload of input or output that contains a header is then
  a message that nobody sent (`screen-protocol/src/lib.rs`:475-492); the format has nothing to tell them apart (`Clear` in `Faithful`).
* A peer whose credentials cannot be had counts as root (`unwrap_or(0)`, daemon, 3488), whom the list may admit (`anonymous` in `Admission`).
* A client admitted to a session without windows is sent nothing (daemon, 3505) and reads without a timeout (1005): `LeftWaiting`.
* A daemon that cannot restrict its socket, or make it non-blocking, leaves it behind: its cleanup begins a line later (569-573).
* `-RR` without a session starts one and then attaches without the `-RR`: with another session of that name there by then it gives up
  (275-278, 3067).
* `redisplay` is carried out and reported as failed: the daemon answers nothing and the command takes the end of the
  stream for an error (2231, whose comment says "Error or nothing").
* A wipe ("Remove dead sessions", 148) may take the socket of a daemon that has bound it and does not yet listen.

## 4. What TLAPS proves

For any constants that satisfy the modules' named assumptions (`ConstantsAssumption`, `TerminalAssumption` and
`GlyphsAssumption`, `ParserAssumption`, `RedrawAssumption`, `ViewingAssumption`, `RequestsAssumption`, `LaunchAssumption`, `ClientAssumption`,
`CopyModeAssumption`, `BaseAssumption` and `WireAssumption`): any number of windows, clients, peers and
runs, any sizes, limits, passwords, users, names, histories and scenarios, any octets and any number of values of one, rows of any width in any
styles, any messages that hold what the types of their fields allow (`IsMessage`).

| Module | Theorem | Says |
|---|---|---|
| `ScreenSessionProofs` | `TypeCorrect` | `Spec => []TypeOK` |
| | `IdsStayOrdered` | `Spec => []IdsOrdered`: ids grow along the table and are never given twice |
| | `SelectedStaysInRange` | `Spec => []SelectedInRange` |
| | `AttachedKeepsReader` | `Spec => []AttachedHasReader`: a listed client has a thread whose `Detach` will unlist it |
| | `FocusStaysValid` | `Spec => []FocusValid` |
| | `ZombiesAreLeft` | `Spec => []NobodyViewsZombie` |
| | `RunningAreSpared` | `Spec => RemovalSparesTheRunning` |
| | `WindowsLiveAsPromised` | `Spec => LivesKept`: the refinement |
| | `ForcedMovesAreFair` | `Spec => ForcedMovesLeaveTheDead` |
| | `OnlyRemovalsMakeStale` | `Spec => RangeKept` |
| | `SelectionStaysPut` | `Spec => SelectionFollows` |
| `TerminalProofs` | `TypeCorrect` | `Spec => []TypeOK` |
| | `CursorStaysOnScreen` | `Spec => []CursorOnScreen` |
| | `MarginsStayInside` | `Spec => []MarginsInside` |
| | `HistoryStays` | `Spec => []HistoryHolds`: the scrollback's limit, and the width of its lines after a resize |
| | `GridStaysCovered` | `Spec => []GridCovered` |
| | `RowsScroll` | `Spec => []ScrollsByRows` |
| | `PanicsAreAstray` | `Spec => PanicsOnlyAstray` |
| | `PrimaryStays` | `Spec => PrimaryKept` |
| | `RegionsAreKept` | `Spec => RegionKept` |
| | `EditsStayOnTheLine` | `Spec => RowEditsStay` |
| | `TapeGoesOn` | `Spec => TapeContinues` |
| `TextProofs` | `TerminatorsAreFound` | `Spec => []TerminatorEnds` |
| | `TitlesAreClean` | `Spec => []TitleHasNoTerminator` |
| | `BrokenTextIsKept` | `Spec => BrokenTextKept` |
| | `SgrDiffReads` | the SGR sequence written between two styles, read in the one, gives the other |
| | `WhoAttachesSeesTheWindow` | `RowSpec => []RedrawShows` |
| `ViewingProofs` | `MatchStays` | `Spec => []MatchExists` |
| | `MarksEndWithTheMode` | `Spec => []MarkOnlyInCopyMode`: no way out of copy mode leaves a mark behind |
| | `BellsAreKept` | `Spec => []BellKept` |
| | `YanksHoldTheMark` | `Spec => YankHoldsMark` |
| `RequestsProofs` | `SharingIsWanted` | `Spec => []SharedByConsent` |
| | `SuccessIsReal` | `Spec => []SuccessIsDone` |
| | `HandshakeKeepsPromise` | `Spec => AdmissionKept`: the refinement, for peers with and without credentials, right and stray second messages |
| `LaunchProofs` | `SocketsStayPrivate` | `Spec => []SocketsArePrivate` |
| | `EndsLeaveNothing` | `Spec => []NothingLeftBehind` |
| | `StartsAreHonest` | `Spec => []HonestStart` |
| | `WhatIsThereIsFound` | `Spec => []FoundIfThere` |
| | `WipesAreRight` | `Spec => WipeTakesOnlyTheDead` |
| | `TheOneMeantIsReached` | `Spec => []ReachesTheOneMeant` |
| `ClientProofs` | `CursorIsVisible` | `Spec => []CursorVisible` |
| | `TerminalIsRestored` | `Spec => []TerminalRestored` |
| | `MessagesSurvive` | every message that its sender does not refuse decodes from its own encoding |
| | `ArrivalsWereSent` | `WireSpec => []Faithful`: always before a timeout in mid-frame, afterwards if no payload holds the magic |
| | `FailuresHaveTheirReason` | `WireSpec => []FailureExplained` |
| | `WaitingOwesNothing` | `WireSpec => []NothingOwed` |

**The session.** `TypeOK` is not inductive: the events that follow a region read
`regions[focused_region]`, and its being a number depends on the focus being
valid, hence on `FocusValid`; and `IdsOrdered` depends on the type of the table. `IInv` is
`TableInv /\ ClientInv /\ RegionInv /\ RestInv`: types with order and range of the table,
the clients with their readers, the regions with the focus. Rather than prove
each of some sixty actions against the whole of it, the proof first shows that a step has one of
a few effects on each group of variables (`StepOnTable`: ten effects, among them a push, a kill, a removal,
a move of the index, a marking; `StepOnClients`: three; `StepOnRegions`: eleven) and
then that each effect keeps its part (`TableInvStep`, `ClientInvStep`, `RegionInvStep`).
`NextIInv` puts them together and `AlwaysIInv` is the induction. The module begins with
what the effects rest on: that a circular search finds a live index of the
table, that an enumeration of the live rows keeps the order of ids, that
the clamps stay within the shorter table.

The deeper properties go from the effects to what rows and viewers are afterwards. `RunningLive` says that a row whose
program runs is not marked dead, which is what makes a removal of dead rows harmless: `LossOfStep` goes
through the effects and finds the loss of at most one running window, the one auto-nuke has just killed.
`NobodyViewsZombie` needs it too, because an exit must not make a zombie of a window that is looked at; and since only an exit
and `check_exits` lead to the top of the loop (`TopOfLoop`), the viewers are looked at after those two alone.
A client that did not ask is moved by `check_exits` and by a kill, and by nothing else (`MovesOfStep`), and these move it
off what they have just marked (`CheckMovesOffTheDead`, `KillMovesOffTheDead`). For `RangeKept`
the lemmas about the effects on clients and regions are stated for any set of indices (`ClientStep(U)`, `RegionsWithin(U)`): the type
invariant takes the naturals, this theorem the places of the table after the step. For `SelectionFollows`,
`DropFollows` counts: the place of a live row among the live ones is its place in the table less the
dead rows before it, which is what `remove_dead_windows` takes off. For the refinement `LifeStep` takes each effect to a step of `WindowLife` or to none of its steps, with a lemma for what
a kill, a marking, a removal and `remove_dead_windows` do to the three sets of ids (`KilledLives`, `MarkedLives`, `RemovedLives`, `LivesDropped`); that these move one id is that no
two rows share it (`IdsOrdered`), that a kill finds its window in one of them is `LiveKnown`, and that auto-nuke is in force when it
is asked for is that no step changes it together with the table (`SettingsStep`).

**The terminal.** None of the invariants is inductive alone. That the cursor stays on the screen needs the margins
on it; that a captured line is as wide as the screen needs nothing of the grid's shape, since
missing cells are read as blanks, but that the grid keeps its cells needs the
region not to end beyond it. `IInv` is `PlaceInv /\ GridInv /\ HistoryInv`, and
`Effects` is the set of effects that keep it; each operation on effects is shown to stay in that set
(`ScrollStays`, `CapturingStays`, `FedStays`, and `FeedsStay` for any number of line
feeds, by induction on the naturals), so that one lemma, `LandStep`, serves every sequence
that lands. The first part of the module has the operations on the flat vector: what keeps the
number of cells, what never lowers it, and, when the grid has its shape, that the
ranges fit and where each cell has come from (`RegionScrolls`). `PanicsAreAstray` uses the smaller set `Sound` of effects on
a grid in shape, closed under everything; `PrimaryStays` the set `Quiet` of those that leave the
scrollback.

What the cells contain is proved from the places: `MovedUp` and `MovedDown` say of a scrolled vector which cell is where, and
`ScrolledRows` turns that into rows, which is `ScrollsByRows`, the equality with the definition by rows for
every region and count. `RegionsAreKept` and `EditsStayOnTheLine` are further closed sets of effects, of those
that leave the rows outside a region (`OutsideAsIs`) or all rows but one (`ButForRow`). For `TapeContinues`
the invariant of a run of line feeds is an equation, not a set: after k of them the tape is the
old one with as many blank rows behind it as the cursor has not moved down, cut at the limit (`FedBy(k)`, `FeedAtTheBottom`).

**The parser.** `Fits` is the type of the parser's states with two facts that the type does not give: a title read so
far holds no terminator (`Clean`), and an ESC at its end, not taken for the start of one, has used up the room (`Closed`). Every
octet keeps `Fits` and has effects of the right form (`TakenLeads`). `After` applies a sequence of effects, a
recursive function; `AfterRuns` unfolds it once, into the terminal after each effect, and what one effect
keeps is then kept by induction over the places. From any state that fits, whatever octets follow, the terminators lead back
(`AlwaysEnds`). `BrokenTextKept` is about what is printed: `Prints(calls, s, k)` says that from the kth call on
the calls print exactly s, and a character that is cut short is printed octet by octet (`CharacterKept`).

**The redraw.** What is written is a fold over the cells of a row, and what the client's terminal shows a fold over what is written. `FoldExists` turns a
fold into the sequence of its values on the way, and the induction is then over places of that sequence. `SgrDiffReads` is the
lemma about one change of style: reading parameter by parameter, after each part of `StyleParams` (the reset, the attributes, the foreground,
the background) the style has those parts, whatever it was before. `RowInv` is what a row always has behind it: the two halves of a
wide character were written in one style. `Traced` says of the tokens of the first k cells that the client, having read
them, is in the style that the writer takes it to be in and sees those cells, or k + 1 of them behind the first half of a wide character
(`Reached`). What is trimmed at the end are spaces of one style (`TrimmedCell`), which the erased line
of the client shows as well, but for that style.

**Viewing.** `MatchExists` needs the matches to be numbers in order (`HitsInOrder`), `YankHoldsMark` the invariant
`MarkInv`: as long as the marked window keeps its lines in place, the mark is a position of its history and the line
there is the one that was marked. `IInv` adds the shape of copy mode (`Copies`) and of the histories (`ViewInv`). That a yank
from the mark to a cursor beyond the last line still holds the mark's line is a step of the last theorem. `BellKept` relates what the code keeps
(`pending`) to what it does not (who still reads): a bell that is taken off without having been heard must be in `vain`.

**Requests.** The claims are about peers that have long been judged, so the invariant follows a peer from its connection to
its end. `LoopInv` says that the peer served is not also waiting; `TalkInv` what each stream may hold: only that peer's greeting and its own request or
password; `Placed` where a peer may be by where the daemon is with it: until its greeting has been read it has sent
nothing else and has been answered nothing, and what it sends second is its request, its password, or a stray; `Told` that an answer which counts as success is on its way, or
was taken, only if the request has been carried out. With that, whatever the daemon reads after the greeting is the
served peer's own (`HeardIsSaid`), each outcome of a request that answers with success is done (`OutcomesAreSound`), and every step
maps to a step of `Admission` or leaves its variables (`Refines`), for every user that the peer may be taken for (`UsersOf`).

**Launch.** `IInv` is `ActorsInv` (a run past the directory has found or made it private; it starts one daemon), `DaemonsInv`,
`SocketsInv` (every socket lies under the path of the daemon that bound it, which has not ended by itself), `PidsInv` (of the daemons that have
had one pid at most one is alive, and only its own while a run waits), and `HonestStart`, which needs them all. `LookInv` adds what a run has
learnt: a session that was there from the beginning is still to be looked at or among the active,
never among the stale, and a dead one's socket is to be looked at or among the stale. `Steady` is
what a step never does: bring back a daemon or a socket. `LookStep` proves `LookInv` and `FoundIfThere`
together, since `-R` decides by the one and is judged by the other. `ReachesTheOneMeant` also needs the ages:
`AgesInv` says that they number the sockets in the order of binding, each once, so that a socket bound later is always younger
(`Ageing`). While a run looks it notes ages one by one; `Dated` says that none is younger than what now lies there, and that those of
the sessions that were there throughout are right. Between its choice and its `connect` a run's path may be unlinked and bound again by another daemon; that one is then younger than
any the run has seen, which is why `Aimed` (of a run that has chosen) allows the chosen daemon or a younger one, and why `Hit` (of one that has connected)
still gives the one meant.

**Client.** `IInv` is `MessagesInv` (what the session has sent is of the protocol's kinds, and a history is one that a window
may have), `ScreenInv` (the other screen is on only while copy mode opens, runs or has panicked) and `ViewInv`: in copy mode the view is good.
`GoodView` is stronger than the property: not only the cursor but the mark and every match are on lines of the
history, since `n` and `'` take the cursor to them; a search has its matches on lines, whatever the query (`MatchesOnLines`).

**The codec.** A number is read back octet by octet: `NumberBack` goes through the shifts of the number (`ShiftsFacts`), of which
the octets are the remainders. `TakeBack` is one field: taken off its own encoding with anything behind it, it gives the
value and leaves what is behind. `FieldsBack` and `RowsBack` are the folds over fields and rows, again with their values on the way; the
octets still to be read are the `Tails` of a flattened sequence. That `Len(value)` and the count of the rows are
not cut to the two octets they are written in is nobody's check: it follows, for each field, from the check
of the length of the whole payload, of which they are a part (`Len(f) <= MAX_PAYLOAD_LEN` in the proofs), and a row takes an octet
at least, so that there are never more rows than octets (`RowLength`, `RegionLength`). Then there is a case for each form of layout: `PlainBack`, without rows; `CountedBack`;
`ChunksBack`, whose count is the length of the payload divided by the width of a row; and `AttachBack`, which
no check protects and which needs none, because it has no lengths. The absence of a password or of a window's group is
the empty one in the model, as it is on the wire.

**Wire.** The theorems are about the connection, for any set of messages, any number of them, and timeouts anywhere. Since every message survives (`MessagesAreSendable`), its octets do not matter any more, only where frames begin and end.
`Laid(tape, s, k)` says that a tape is the frames of the messages of s after the kth, end to end (`LaidMore`: another one may be added;
`LaidFirst`: the first may be taken off). `Owed` is what the sender has still to write of its last frame. The invariant, `WireInv`, is about what is ahead of the
reader, which is what its read has taken, what is under way and what is owed, in one piece: either
it is `Aligned` (with the opening of the frame whose header it has before it, that is the tape after k messages) or it is
`Astray` (the first piece is not a magic, so the next header read ends it). Writing and taking change nothing of what is ahead; the
sender adds a frame at its end. A timeout loses what was taken, and as it strikes only when nothing is under way, what is ahead
is then what is owed: nothing, a whole frame, or a frame without its head (`OwedFacts`). In the first two cases the
reader had nothing of a frame it could lose (`AlignedEnds`: one frame and the last are longer than what was there), in the third it is astray.
Once the rest of a torn frame has been dropped by a second timeout the reader may be aligned again, with that frame missing;
hence the "until a second timeout" of `Faithful`, and `PickedFrom` in place of a prefix. That a reader astray finds no magic needs that no
payload holds one (`Free`), which is why the invariant is `Clear => WireInv` (`ClearInv`): before the first timeout nothing is asked of the
payloads, from then on it is asked of all that have been or will be sent.

**Only model-checked.** The liveness properties (`ExitNoticed`, `LastExitEndsSession`, `AnswersAtLast`, `EveryRunAnswers`, `LeavesAtLast`: the prover has
no fairness). **Only proved**, because the runs have enough to do: the type invariants of `ScreenSession` and `Terminal`,
`IdsOrdered`, `AttachedHasReader`, `RemovalSparesTheRunning` (which `LivesKept` all but implies), `CursorOnScreen`, `MarginsInside`, `HistoryHolds`, `MarkOnlyInCopyMode`.
The models that are proved about are written without recursive operators (a `CHOOSE` of the nearest live index,
order-preserving enumerations, functions over 0 .. n or over sequences); induction over naturals goes through sets (`InductiveSet`), because the library's
induction theorems take an operator, which the provers cannot instantiate.

## 5. What is not modelled, and what is left

Not modelled at all, since they are pure conversions with no state of their own: option parsing, configuration files, hardstatus
formats, encodings, termcap, utmp, the original program's structures and the discovery of its sockets; and
development tools. Left out of modelled components: the geometry of regions and the compositing of their contents, mouse reports,
hyperlinks and the search of dumps, columns in copy mode, registers beyond the newest paste buffer, logging, activity
and silence notification, which do nothing that could be stated (above), and the system calls of the PTY library.

What would come next, in this order:

1. the rectangles of regions, with resizes;
2. which of the clients' indices a removal makes stale, and by how much.
