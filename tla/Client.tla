------------------------------- MODULE Client -------------------------------
(***************************************************************************)
(* The attached client (attach_socket): a main thread that reads from the  *)
(* daemon and owns standard output, and a keyboard thread that reads       *)
(* standard input, finds the escape sequences and writes to the daemon.    *)
(* Between them are two locks that each holds for its life, the runtime    *)
(* bindings behind a mutex, the paste buffer and three flags.  At the      *)
(* other end is the session, as one client sees it.                        *)
(*                                                                         *)
(* A byte stands for all bytes that do the same (Bytes).                   *)
(***************************************************************************)
EXTENDS CopyMode

CONSTANTS Config,     \* what the configuration binds: bytes to commands
          Runtime,    \* what the daemon may bind later: a set of such functions
          Room,       \* the frames a socket holds
          Users,      \* bounds the keys: a user presses those of one of these sets
          MaxNews     \* bounds what the daemon sends unasked

(* What a byte behind the escape key does.  "ask" is every key that sends  *)
(* one message and nothing else, "show" every key that writes to standard  *)
(* output, "mute" the keys with no effect here (logging, last message,     *)
(* exchange file, the suspension of the whole process).                    *)
Bytes == {"escape", "meta", "enter", "detach", "power", "ask", "quit", "copy", "paste",
          "load", "show", "reset", "lock", "flash", "digraph", "mute",
          "plain"}

(* What a binding may say: a request of the daemon, a window without a     *)
(* program, or no known word.                                              *)
Commands == {"ask", "detach", "copy", "quit", "window", "unknown"}

ASSUME ClientAssumption ==
  /\ DOMAIN Config \subseteq Bytes /\ \A b \in DOMAIN Config : Config[b] \in Commands
  /\ \A r \in Runtime : DOMAIN r \subseteq Bytes /\ \A b \in DOMAIN r : r[b] \in Commands
  /\ Room \in Nat \ {0} /\ MaxNews \in Nat /\ Users \subseteq SUBSET Bytes

VARIABLES user,       \* the keys that are pressed
          main,       \* where the main thread is
          keyboard,   \* where the keyboard thread is
          toDaemon, toClient,
          session,    \* how the daemon sees this client
          misled,     \* its reader waits for the rest of a header that is none
          copying,    \* the daemon's flag of copy mode
          news,       \* what the daemon has sent unasked
          prefix,     \* the byte before was the escape key
          digraph,    \* which character of a digraph comes next
          wanted,     \* the key for which the keyboard thread waits for standard output
          detachRequested, screenLocked, visualBell,
          bindings, poisoned,   \* the runtime bindings and the state of their mutex
          paste,      \* the lines in the paste buffer
          first,      \* the message that followed the greeting
          view,       \* copy mode, once it runs
          alternate,  \* the terminal shows the screen of copy mode
          closed      \* the terminal has been closed

streams == <<toDaemon, toClient, session, misled, copying, news>>
keys    == <<prefix, digraph, wanted, screenLocked, visualBell>>
shared  == <<detachRequested, bindings, poisoned, paste>>
screens == <<first, view, alternate, closed>>
vars    == <<user, main, keyboard, streams, keys, shared, screens>>

NoView == View(<< >>, 0)
Note(kind) == [kind |-> kind]
Binds(r)   == [kind |-> "BindingsUpdate", map |-> r]
History(h) == [kind |-> "CopyModeData", lines |-> h]

Ended   == {"left", "failed", "panicked", "killed"}

\* main locks standard output when its loop starts and keeps it.
StdoutTaken == main \in {"loop", "opening", "browsing"}
\* The keyboard thread locks standard input when it starts and keeps it.
StdinTaken == keyboard \in {"reading", "typed", "ignored", "waiting"}

Running == main \notin Ended

(* Writing to the daemon waits for room; to a closed socket it fails.  A   *)
(* "Request" is any message that changes nothing between this client and   *)
(* the session: input, sizes, redisplays, questions.                       *)
CanWrite == session = "gone" \/ Len(toDaemon) < Room
Write(kind) ==
  /\ CanWrite
  /\ toDaemon' = IF session = "gone" THEN toDaemon ELSE Append(toDaemon, kind)

Init ==
  /\ user \in Users /\ main = "hello" /\ keyboard = "off"
  /\ toDaemon = <<"Hello">> /\ toClient = << >> /\ session = "hello"
  /\ misled = FALSE /\ copying \in BOOLEAN /\ news = 0
  /\ prefix = FALSE /\ digraph = 0 /\ wanted = "none"
  /\ detachRequested = FALSE /\ screenLocked = FALSE /\ visualBell = FALSE
  /\ bindings = << >> /\ poisoned = FALSE
  /\ paste = 0
  /\ first = "none" /\ view = NoView /\ alternate = FALSE /\ closed = FALSE

-----------------------------------------------------------------------------
(* The main thread.                                                        *)

Received == Head(toClient)
Receive(where, kinds) ==
  /\ main = where /\ toClient # << >> /\ Received.kind \in kinds
  /\ toClient' = Tail(toClient)

Answers == {"HelloAck", "PasswordChallenge", "Error", "PtyOutput", "Bell", "BindingsUpdate",
            "CopyModeData", "ChildExited", "Detach"}

\* Until it is attached, a client that cannot write gives up.
Attaching(next) ==
  IF session = "gone" THEN main' = "failed" /\ UNCHANGED toDaemon
                      ELSE main' = next /\ Write("Attach")

(* Hello has been answered: ask to attach.                                 *)
Greeted ==
  /\ Receive("hello", {"HelloAck"}) /\ Attaching("attach")
  /\ UNCHANGED <<user, keyboard, session, misled, copying, news, keys, shared, screens>>

(* A challenge asks the user ...                                           *)
Challenged ==
  /\ Receive("attach", {"PasswordChallenge"}) /\ main' = "prompting"
  /\ UNCHANGED <<user, keyboard, toDaemon, session, misled, copying, news, keys, shared,
                 screens>>

(* ... and is answered with what was typed, which is nothing at the end of *)
(* the input; a failing read ends the client.                              *)
Prompted ==
  /\ main = "prompting"
  /\ \/ Attaching("attach")
     \/ main' = "failed" /\ UNCHANGED toDaemon
  /\ UNCHANGED <<user, keyboard, toClient, session, misled, copying, news, keys, shared,
                 screens>>

Refused ==
  /\ Receive("hello", {"Error"}) \/ Receive("attach", {"Error"})
  /\ main' = "failed"
  /\ UNCHANGED <<user, keyboard, toDaemon, session, misled, copying, news, keys,
                 shared, screens>>

(* The first other message is kept, and the size is told if it is known;   *)
(* without a terminal for input the client prints the first output and     *)
(* leaves.  From here on a client with a terminal ignores its closing.     *)
Admitted(tty) ==
  /\ Receive("attach", Answers \ {"PasswordChallenge", "Error"})
  /\ tty => ~closed
  /\ \/ /\ first' = Received.kind
        /\ main' = IF tty THEN "starting" ELSE "snapshot"
        /\ keyboard' = IF tty THEN "reading" ELSE "off"
        /\ UNCHANGED toDaemon \/ (session # "gone" /\ Write("Request"))
     \/ session = "gone" /\ main' = "failed" /\ UNCHANGED <<toDaemon, keyboard, first>>
  /\ UNCHANGED <<user, session, misled, copying, news, keys, shared, view, alternate,
                 closed>>

Outcome(kind) == CASE kind \in {"ChildExited", "Detach"} -> "left"
                   [] kind = "Error" -> "failed"
                   [] OTHER -> "loop"

\* Output to a terminal that has been closed fails; elsewhere it may not.
Output(next) == main' \in {next} \union (IF closed THEN {"failed"} ELSE {})

SnapshotOf(kind) ==
  IF kind = "PtyOutput"
  THEN Output("left") /\ IF main' = "left" THEN Write("Detach") ELSE UNCHANGED toDaemon
  ELSE UNCHANGED toDaemon /\ main' = IF Outcome(kind) = "loop" THEN "snapshot" ELSE Outcome(kind)

Snapshot ==
  /\ \/ main = "snapshot" /\ first # "none" /\ SnapshotOf(first) /\ UNCHANGED toClient
     \/ first = "none" /\ Receive("snapshot", Answers) /\ SnapshotOf(Received.kind)
  /\ first' = "none"
  /\ UNCHANGED <<user, keyboard, session, misled, copying, news, keys, shared, view,
                 alternate, closed>>

(* Standard output is taken, and only output is done with the first        *)
(* message: bindings or a bell that came first are dropped.                *)
Start ==
  /\ main = "starting" /\ first' = "none"
  /\ IF first = "PtyOutput" THEN Output("loop") ELSE main' = Outcome(first)
  /\ UNCHANGED <<user, keyboard, streams, keys, shared, view, alternate, closed>>

(* What the loop only shows.                                               *)
Show ==
  /\ Receive("loop", {"PtyOutput", "Bell"})
  /\ IF Received.kind = "PtyOutput" THEN Output("loop") ELSE UNCHANGED main
  /\ UNCHANGED <<user, keyboard, toDaemon, session, misled, copying, news, keys, shared,
                 screens>>

Dismissed ==
  /\ Receive("loop", {"ChildExited", "Detach", "Error"})
  /\ main' = Outcome(Received.kind)
  /\ UNCHANGED <<user, keyboard, toDaemon, session, misled, copying, news, keys,
                 shared, screens>>

(* The map is replaced; a mutex poisoned by the keyboard thread's panic    *)
(* makes this thread panic.                                                *)
Rebind ==
  /\ Receive("loop", {"BindingsUpdate"})
  /\ IF poisoned THEN main' = "panicked" /\ UNCHANGED bindings
                 ELSE bindings' = Received.map /\ UNCHANGED main
  /\ UNCHANGED <<user, keyboard, toDaemon, session, misled, copying, news, keys,
                 detachRequested, poisoned, paste, screens>>

(* Copy mode shows its screen, and then locks standard input.              *)
OpenCopyMode ==
  /\ Receive("loop", {"CopyModeData"})
  /\ IF Received.lines = << >> THEN UNCHANGED <<main, alternate, view>>
     ELSE /\ main' = "opening" /\ alternate' = TRUE
          /\ \E page \in Pages : view' = View(Received.lines, page)
  /\ UNCHANGED <<user, keyboard, toDaemon, session, misled, copying, news, keys,
                 shared, first, closed>>

\* The screen is drawn before every key, and drawing may panic.
Draw(v) == view' = v /\ main' = IF Unshowable(v) THEN "panicked" ELSE "browsing"

Browse ==
  /\ main = "opening" /\ ~StdinTaken /\ Draw(view)
  /\ UNCHANGED <<user, keyboard, streams, keys, shared, first, alternate, closed>>

SlipLeaveCopyMode == main' = "loop" /\ view' = NoView /\ UNCHANGED alternate
LeaveCopyMode == main' = "loop" /\ view' = NoView /\ alternate' = FALSE

Yank(key) ==
  /\ main = "browsing" /\ ~closed /\ view.query = "closed" /\ Yanks(view, key)
  /\ paste' = Len(Selection(view)) /\ LeaveCopyMode
  /\ UNCHANGED <<user, keyboard, streams, keys, detachRequested, bindings, poisoned,
                 first, closed>>

(* The quit keys, the end of the input, or a failing read.                 *)
QuitCopyMode ==
  /\ main = "browsing" /\ view.query = "closed" /\ LeaveCopyMode
  /\ UNCHANGED <<user, keyboard, streams, keys, shared, first, closed>>

CopyKey(key) ==
  /\ main = "browsing" /\ ~closed
  /\ \/ /\ view.query = "closed" /\ key # "quit" /\ ~Yanks(view, key)
        /\ Draw(Stepped(view, key))
     \/ view.query # "closed" /\ \E v \in QueryStepped(view, key) : 
          IF v.query = "closed" THEN Draw(v) ELSE view' = v /\ UNCHANGED main
  /\ UNCHANGED <<user, keyboard, streams, keys, shared, first, alternate, closed>>

(* At the end of the input a query is given up, and the next read gives    *)
(* copy mode up.                                                           *)
QueryEnds ==
  /\ main = "browsing" /\ view.query # "closed" /\ Draw([view EXCEPT !.query = "closed"])
  /\ UNCHANGED <<user, keyboard, streams, keys, shared, first, alternate, closed>>

(* A read of 100 ms that took nothing: the only look at the flag.          *)
Timeout ==
  /\ main = "loop" /\ toClient = << >> /\ session # "gone" /\ detachRequested
  /\ main' = "left"
  /\ UNCHANGED <<user, keyboard, streams, keys, shared, screens>>

SlipHungUp ==
  /\ main \in {"hello", "attach", "snapshot", "loop"} /\ toClient = << >> /\ session = "gone"
  /\ main = "snapshot" => first = "none"
  /\ detachRequested
  /\ main' = "failed"
  /\ UNCHANGED <<user, keyboard, streams, keys, shared, screens>>

(* A read that finds the socket closed ends the client.                    *)
HungUp ==
  /\ main \in {"hello", "attach", "snapshot", "loop"} /\ toClient = << >> /\ session = "gone"
  /\ main = "snapshot" => first = "none"
  /\ main' = "failed"
  /\ UNCHANGED <<user, keyboard, streams, keys, shared, screens>>

(* The terminal has changed its size.                                      *)
Resized ==
  /\ main = "loop" /\ ~closed /\ session # "gone" /\ Write("Request")
  /\ UNCHANGED <<user, main, keyboard, toClient, session, misled, copying, news, keys,
                 shared, screens>>

-----------------------------------------------------------------------------
(* The keyboard thread.                                                    *)

(* A read; what it takes is ignored while the screen is locked.            *)
Read ==
  /\ Running /\ keyboard = "reading" /\ ~closed
  /\ keyboard' = IF screenLocked THEN "ignored" ELSE "typed"
  /\ UNCHANGED <<user, main, streams, keys, shared, screens>>

BufferDone ==
  /\ Running /\ keyboard \in {"typed", "ignored"} /\ keyboard' = "reading"
  /\ UNCHANGED <<user, main, streams, keys, shared, screens>>

(* The end of the input, or a failing read.                                *)
InputEnds ==
  /\ Running /\ keyboard = "reading" /\ Write("Detach")
  /\ detachRequested' = TRUE /\ keyboard' = "ended"
  /\ prefix' = FALSE /\ digraph' = 0
  /\ UNCHANGED <<user, main, toClient, session, misled, copying, news, wanted,
                 screenLocked, visualBell, bindings, poisoned, paste,
                 screens>>

(* Enter unlocks; the rest of what was read is ignored all the same.       *)
Unlock ==
  /\ Running /\ keyboard = "ignored" /\ Write("Request")
  /\ screenLocked' = FALSE
  /\ UNCHANGED <<user, main, keyboard, toClient, session, misled, copying, news,
                 prefix, digraph, wanted,
                 visualBell, shared, screens>>

Typed == Running /\ keyboard = "typed"

(* The two characters behind the digraph key; the second completes a       *)
(* character, or none that is known.                                       *)
Collect ==
  /\ Typed /\ digraph > 0
  /\ digraph' = (digraph + 1) % 3
  /\ \/ UNCHANGED toDaemon
     \/ digraph = 2 /\ Write("Request")
  /\ UNCHANGED <<user, main, keyboard, toClient, session, misled, copying, news,
                 prefix, wanted,
                 screenLocked, visualBell, shared, screens>>

Escape ==
  /\ Typed /\ digraph = 0 /\ ~prefix /\ prefix' = TRUE
  /\ UNCHANGED <<user, main, keyboard, streams, digraph, wanted, screenLocked,
                 visualBell, shared,
                 screens>>

(* A byte for the window.  Here alone a failing write ends the thread.     *)
Input ==
  /\ Write("Request")
  /\ keyboard' = IF session = "gone" THEN "ended" ELSE "typed"

PlainByte ==
  /\ Typed /\ digraph = 0 /\ ~prefix /\ Input
  /\ UNCHANGED <<user, main, toClient, session, misled, copying, news, keys, shared,
                 screens>>

(* A bound command writes its message.  A window takes its arguments from  *)
(* the third word on, and the slice of a shorter command panics.           *)
Dispatch(command) ==
  CASE command = "ask"     -> Write("Request") /\ UNCHANGED keyboard
    [] command = "detach"  -> Write("Detach") /\ UNCHANGED keyboard
    [] command = "copy"    -> Write("CopyModeRequest") /\ UNCHANGED keyboard
    [] command = "quit"    -> Write("Shutdown") /\ UNCHANGED keyboard
    [] command = "window"  -> keyboard' = "panicked" /\ UNCHANGED toDaemon
    [] command = "unknown" -> UNCHANGED <<toDaemon, keyboard>>

Behind == Typed /\ digraph = 0 /\ prefix /\ prefix' = FALSE

ConfigBound(b) ==
  /\ Behind /\ b \in DOMAIN Config /\ Dispatch(Config[b])
  /\ UNCHANGED <<user, main, toClient, session, misled, copying, news, digraph, wanted,
                 screenLocked,
                 visualBell, shared, screens>>

(* The mutex of the runtime bindings is held while the command runs.       *)
RuntimeBound(b) ==
  /\ Behind /\ b \in DOMAIN bindings \ DOMAIN Config /\ Dispatch(bindings[b])
  /\ poisoned' = (bindings[b] = "window")
  /\ UNCHANGED <<user, main, toClient, session, misled, copying, news, digraph, wanted,
                 screenLocked,
                 visualBell, detachRequested, bindings, paste, screens>>

BuiltIn(b) == Behind /\ b \notin DOMAIN Config \union DOMAIN bindings

(* The keys that write one message and go on.                              *)
MessageOf == [ask |-> "Request", escape |-> "Request", meta |-> "Request",
              quit |-> "Shutdown", copy |-> "CopyModeRequest"]
Ask(b) ==
  /\ BuiltIn(b) /\ b \in DOMAIN MessageOf /\ Write(MessageOf[b])
  /\ UNCHANGED <<user, main, keyboard, toClient, session, misled, copying, news,
                 digraph, wanted,
                 screenLocked, visualBell, shared, screens>>

(* Detaching ends the thread; the power detach does not.                   *)
Detach(b) ==
  /\ BuiltIn(b) /\ b \in {"detach", "power"} /\ Write("Detach")
  /\ detachRequested' = TRUE
  /\ keyboard' = IF b = "detach" THEN "ended" ELSE "typed"
  /\ UNCHANGED <<user, main, toClient, session, misled, copying, news, digraph, wanted,
                 screenLocked,
                 visualBell, bindings, poisoned, paste, screens>>

Paste(b) ==
  /\ BuiltIn(b) /\ b = "paste"
  /\ IF paste = 0 THEN UNCHANGED toDaemon ELSE Write("Request")
  /\ UNCHANGED <<user, main, keyboard, toClient, session, misled, copying, news,
                 digraph, wanted,
                 screenLocked, visualBell, shared, screens>>

(* The exchange file, which any program may write, replaces the buffer if  *)
(* it can be read.  The keys that write or remove it change nothing here.  *)
Load(b) ==
  /\ BuiltIn(b) /\ b = "load" /\ paste' \in {paste, 0, 1}
  /\ UNCHANGED <<user, main, keyboard, streams, digraph, wanted, screenLocked, visualBell,
                 detachRequested, bindings, poisoned, screens>>

(* These keys want standard output, and wait while the main thread has it. *)
WantStdout(b) ==
  /\ BuiltIn(b) /\ b \in {"show", "reset", "lock"}
  /\ keyboard' = "waiting" /\ wanted' = b
  /\ screenLocked' = (screenLocked \/ b = "lock")
  /\ UNCHANGED <<user, main, streams, digraph, visualBell, shared, screens>>

GetStdout ==
  /\ Running /\ keyboard = "waiting" /\ ~StdoutTaken
  /\ IF wanted = "reset" THEN Write("Request") ELSE UNCHANGED toDaemon
  /\ keyboard' = "typed" /\ wanted' = "none"
  /\ UNCHANGED <<user, main, toClient, session, misled, copying, news, prefix, digraph,
                 screenLocked,
                 visualBell, shared, screens>>

(* Turned on, the visual bell flashes: two control sequences, which are    *)
(* written to the daemon, ten octets that are no frame.                    *)
Flash(b) ==
  /\ BuiltIn(b) /\ b = "flash" /\ visualBell' = ~visualBell
  /\ IF visualBell THEN UNCHANGED toDaemon ELSE Write("octets")
  /\ UNCHANGED <<user, main, keyboard, toClient, session, misled, copying, news,
                 digraph, wanted,
                 screenLocked, shared, screens>>

StartDigraph(b) ==
  /\ BuiltIn(b) /\ b = "digraph" /\ digraph' = 1
  /\ UNCHANGED <<user, main, keyboard, streams, wanted, screenLocked, visualBell,
                 shared, screens>>

Nothing(b) ==
  /\ BuiltIn(b) /\ b = "mute"
  /\ UNCHANGED <<user, main, keyboard, streams, digraph, wanted, screenLocked,
                 visualBell, shared,
                 screens>>

(* Any other key goes to the window behind the escape key.                 *)
Through(b) ==
  /\ BuiltIn(b) /\ b \in {"plain", "enter"} /\ Input
  /\ UNCHANGED <<user, main, toClient, session, misled, copying, news, digraph, wanted,
                 screenLocked,
                 visualBell, shared, screens>>

KeyPress(b) ==
  \/ ConfigBound(b) \/ RuntimeBound(b) \/ Ask(b) \/ Detach(b) \/ Paste(b) \/ Load(b)
  \/ WantStdout(b) \/ Flash(b) \/ StartDigraph(b) \/ Nothing(b) \/ Through(b)

-----------------------------------------------------------------------------
(* The session, as far as this client sees it: greeting, listed, dropped   *)
(* (off the list, but the reader thread still holds the socket), gone.     *)

Asked == Head(toDaemon)
Serve(when) ==
  Running /\ session \in when /\ toDaemon # << >> /\ toDaemon' = Tail(toDaemon)

\* A message that finds no room is lost.
Tell(ms) == toClient' = IF Len(toClient) + Len(ms) > Room THEN toClient ELSE toClient \o ms

Optional(ms) == {<< >>} \union {<<m>> : m \in ms}

Welcome ==
  /\ Serve({"hello"}) /\ Tell(<<Note("HelloAck")>>) /\ session' = "attach"
  /\ UNCHANGED <<user, main, keyboard, misled, copying, news, keys, shared, screens>>

Challenge ==
  /\ Serve({"attach"}) /\ Tell(<<Note("PasswordChallenge")>>) /\ session' = "challenged"
  /\ UNCHANGED <<user, main, keyboard, misled, copying, news, keys, shared, screens>>

(* Too bad a password, or no right to attach.                              *)
Refuse ==
  /\ Serve({"attach", "challenged"}) /\ Tell(<<Note("Error")>>) /\ session' = "gone"
  /\ UNCHANGED <<user, main, keyboard, misled, copying, news, keys, shared, screens>>

(* The redraw, a bell that is still owed, and the bindings if there are    *)
(* any.  Without a window there is no redraw.                              *)
Admit ==
  /\ Serve({"attach", "challenged"}) /\ session' = "listed"
  /\ \E redraw \in Optional({Note("PtyOutput")}), bell \in Optional({Note("Bell")}),
        bound \in Optional({Binds(r) : r \in Runtime}) :
       toClient' = redraw \o bell \o bound
  /\ UNCHANGED <<user, main, keyboard, misled, copying, news, keys, shared, screens>>

Listening == {"listed", "dropped"}

(* The ten octets of a flash are less than a header.                       *)
Mislead ==
  /\ Serve(Listening) /\ Asked = "octets" /\ ~misled /\ misled' = TRUE
  /\ UNCHANGED <<user, main, keyboard, toClient, session, copying, news, keys, shared,
                 screens>>

(* The reader thread ends at a detach, and at a header without the magic,  *)
(* which it has read when whatever comes next completes it.                *)
Detached ==
  /\ Serve(Listening) /\ (Asked = "Detach" \/ misled)
  /\ IF session = "listed" THEN Tell(<<Note("Detach")>>) ELSE UNCHANGED toClient
  /\ session' = "gone" /\ misled' = FALSE
  /\ UNCHANGED <<user, main, keyboard, copying, news, keys, shared, screens>>

(* The daemon ends without a word.                                         *)
ShutDown ==
  /\ Serve(Listening) /\ ~misled /\ Asked = "Shutdown" /\ session' = "gone"
  /\ UNCHANGED <<user, main, keyboard, toClient, misled, copying, news, keys, shared,
                 screens>>

(* The request turns copy mode on or off; only on, the history is sent.    *)
CopyRequested ==
  /\ Serve(Listening) /\ ~misled /\ Asked = "CopyModeRequest"
  /\ copying' = ~copying
  /\ IF session = "dropped" THEN UNCHANGED toClient
     ELSE IF copying THEN Tell(<<Note("PtyOutput")>>)
     ELSE \E h \in Histories : Tell(<<History(h)>>)
  /\ UNCHANGED <<user, main, keyboard, session, misled, news, keys, shared, screens>>

Heard ==
  /\ Serve(Listening) /\ ~misled /\ Asked = "Request"
  /\ UNCHANGED <<user, main, keyboard, toClient, session, misled, copying, news, keys,
                 shared, screens>>

(* What other clients, windows and commands make the session send.  A      *)
(* client without room is taken off the list; it is not told.              *)
News(m) ==
  /\ Running /\ session = "listed" /\ news < MaxNews /\ news' = news + 1
  /\ IF Len(toClient) < Room THEN Tell(<<m>>) /\ UNCHANGED session
                             ELSE session' = "dropped" /\ UNCHANGED toClient
  /\ UNCHANGED <<user, main, keyboard, toDaemon, misled, copying, keys, shared, screens>>

(* Another client takes this one's place: it is told and taken off.        *)
Displaced ==
  /\ Running /\ session = "listed" /\ Tell(<<Note("Detach")>>) /\ session' = "dropped"
  /\ UNCHANGED <<user, main, keyboard, toDaemon, misled, copying, news, keys, shared,
                 screens>>

(* The last window has exited, the daemon has failed, or a client that     *)
(* says nothing while it attaches has run into the daemon's time limit.    *)
SessionEnds ==
  /\ Running /\ session # "gone" /\ session' = "gone" /\ misled' = FALSE
  /\ \/ UNCHANGED toClient
     \/ session = "listed" /\ Tell(<<Note("ChildExited")>>)
     \/ session \notin Listening /\ toDaemon = << >> /\ Tell(<<Note("Error")>>)
  /\ UNCHANGED <<user, main, keyboard, toDaemon, copying, news, keys, shared, screens>>

(* The terminal is closed.  Until the client ignores the signal, that ends *)
(* it, unless it was started with the signal ignored.                      *)
TerminalCloses ==
  /\ Running /\ ~closed /\ closed' = TRUE
  /\ \/ UNCHANGED main
     \/ main \in {"hello", "attach", "prompting", "snapshot"} /\ main' = "killed"
  /\ UNCHANGED <<user, keyboard, streams, keys, shared, first, view, alternate>>

-----------------------------------------------------------------------------
MainRuns ==
  \/ Greeted \/ Challenged \/ Refused \/ (\E tty \in BOOLEAN : Admitted(tty)) \/ Snapshot
  \/ Start \/ Show \/ Dismissed \/ Rebind \/ OpenCopyMode \/ Browse \/ Timeout \/ HungUp

SessionRuns ==
  \/ Welcome \/ Challenge \/ Refuse \/ Admit
  \/ Mislead \/ Detached \/ ShutDown \/ CopyRequested \/ Heard

UserActs ==
  \/ Prompted \/ TerminalCloses
  \/ Resized \/ QuitCopyMode \/ QueryEnds \/ (\E key \in CopyKeys : Yank(key) \/ CopyKey(key))
  \/ Read \/ BufferDone \/ InputEnds \/ Unlock \/ Collect \/ Escape \/ PlainByte
  \/ \E b \in user : KeyPress(b)

OthersAct ==
  \/ \E m \in {Note("PtyOutput"), Note("Error")} \union {Binds(r) : r \in Runtime} :
        News(m)
  \/ Displaced \/ SessionEnds

(* With the main thread the process ends, and nothing more is looked at.   *)
Next == MainRuns \/ GetStdout \/ SessionRuns \/ UserActs \/ OthersAct

(* The threads run; the user types or does not.  A buffer has an end, and  *)
(* of a terminal that has been closed every read gives the end at once.    *)
Fairness == /\ WF_vars(MainRuns)
            /\ WF_vars(GetStdout)
            /\ WF_vars(SessionRuns)
            /\ WF_vars(BufferDone)
            /\ WF_vars(closed /\ InputEnds)
            /\ WF_vars(closed /\ (Prompted \/ QuitCopyMode \/ QueryEnds))
Spec == Init /\ [][Next]_vars /\ Fairness

-----------------------------------------------------------------------------
(* Properties.                                                             *)

Copying == main \in {"opening", "browsing"}

(* Copy mode: whatever the keys, the cursor is on a line of the history    *)
(* and among the lines shown (on a terminal that shows any), the mark is a *)
(* line, and the place in the matches exists: a search for something with  *)
(* fewer matches does not leave it at the place it had among the others.   *)
CursorVisible ==
  main = "browsing" =>
    /\ view.cursor \in 0 .. Len(view.lines) - 1
    /\ view.page > 0 => view.cursor \in First(view) .. Beyond(view) - 1
    /\ view.mark \in {NoMark} \union 0 .. Len(view.lines) - 1
    /\ view.hits # << >> => view.hit \in 0 .. Len(view.hits) - 1

(* Of the many ways out of copy mode each gives the terminal its own       *)
(* screen back: the loop runs and the client ends with it, whatever was    *)
(* typed (unless a line that cannot be cut made it panic).                 *)
TerminalRestored == main \in {"loop", "left", "failed"} => ~alternate

\* It waits, without a time limit, for what an attached client is sent.
Awaiting == main \in {"attach", "snapshot"} /\ session \in Listening

\* The keyboard thread reads no more, and has not said so.
Deaf == keyboard = "panicked" \/ (keyboard = "waiting" /\ StdoutTaken)

(* A client whose user has detached, or whose session is gone, comes to an *)
(* end, even when the daemon has dropped it and does not answer; except    *)
(* that a copy mode that has begun goes on, and a prompt for the password  *)
(* waits for the user.  A client whose terminal has been closed comes to   *)
(* an end too, out of copy mode as well; but not if its keyboard thread    *)
(* waits for the standard output that the main thread keeps, or has        *)
(* panicked: that one never reads the end of the input which the comment   *)
(* at the signal counts on.  Nor does one that has been admitted and waits *)
(* for a first message, or for an output if its input is no terminal: a    *)
(* session without a window sends none.                                    *)
LeavesAtLast ==
  /\ (detachRequested \/ session = "gone") ~> (~Running \/ Copying \/ main = "prompting")
  /\ closed ~> (~Running \/ Deaf \/ Awaiting)
=============================================================================
