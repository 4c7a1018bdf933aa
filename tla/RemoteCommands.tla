--------------------------- MODULE RemoteCommands ---------------------------
(***************************************************************************)
(* The commands of screen -X and the questions of screen -Q: the message   *)
(* each sends to the daemon, and what each takes for success.  All of them *)
(* connect, greet, send one message and read one answer.                   *)
(***************************************************************************)
EXTENDS Naturals

\* The entries of several tables, which have no verb in common.
Table(tables) == [v \in UNION {DOMAIN t : t \in tables} |->
                    (CHOOSE t \in tables : v \in DOMAIN t)[v]]

(* The verbs by the message their function sends.                          *)
WindowVerbs  == [title |-> "WindowTitle", number |-> "RenumberWindow", redisplay |-> "Redisplay",
                 remove |-> "RemoveWindow", wipe |-> "WipeDeadWindows"]
DisplayVerbs == [echo |-> "Echo", log |-> "LogToggle", logfile |-> "LogFile",
                 other |-> "OtherWindow"]
WatchVerbs   == [monitor |-> "MonitorToggle", silence |-> "Silence", wrap |-> "WrapToggle"]
BufferVerbs  == [readbuf |-> "ReadBuf", writebuf |-> "WriteBuf", removebuf |-> "RemoveBuf",
                 register |-> "Register"]
FlowVerbs    == [flow |-> "FlowToggle", xoff |-> "Xoff", xon |-> "Xon", break |-> "BreakSignal"]
HistoryVerbs == [info |-> "WindowInfo", search |-> "SearchHistory", colon |-> "Command"]
ConfigVerbs  == [eval |-> "Command", password |-> "Command", multiuser |-> "Command",
                 acladd |-> "Command", acldel |-> "Command",
                 config |-> "Command"]     \* "config" for 32 more
LineVerbs    == [sessionname |-> "Command", exec |-> "Command", at |-> "AtWindow",
                 hardcopy |-> "Hardcopy"]

\* These take anything but an error for success.
TellingVerbs == Table({WindowVerbs, DisplayVerbs, WatchVerbs, BufferVerbs, FlowVerbs,
                       HistoryVerbs, ConfigVerbs, LineVerbs})

\* These want one answer and no other.
CreateVerbs == [screen |-> "CreateWindow"]
ListVerbs   == [windows |-> "WindowList", winlist |-> "WindowList"]
QuitVerbs   == [quit |-> "Shutdown"]
AskingVerbs == Table({CreateVerbs, ListVerbs, QuitVerbs})

\* And these do not care.
MovingVerbs  == [select |-> "SelectWindow", next |-> "NextWindow", prev |-> "PrevWindow",
                 kill |-> "KillWindow"]
TypingVerbs  == [stuff |-> "PtyInput", detach |-> "Detach"]
ControlVerbs == Table({MovingVerbs, TypingVerbs})

\* No daemon is asked; sleep, time, help, license, suspend.
LocalVerbs == {"sleep", "time", "help", "license", "suspend"}

(* Questions: two only see whether there is such a session, as do the time *)
(* and the version; some are known for not being questions.                *)
ListQuestions  == [number |-> "WindowList", title |-> "WindowList"]
InfoQuestions  == [info |-> "WindowInfo"]
Questions      == Table({ListQuestions, InfoQuestions})
EmptyQuestions == {"windows", "winlist", "lastmsg", "time", "version"}
NoQuestions    == {"sessionname", "stuff", "kill", "quit", "screen", "help", "license"}

Remote == Table({TellingVerbs, AskingVerbs, ControlVerbs})
Sends(r) == IF r.form = "query" THEN Questions[r.verb] ELSE Remote[r.verb]

(* Settled before anything is sent: success, failure, or to be asked.      *)
NeedsNumber   == {"number", "at"}
NeedsArgument == {"stuff", "sessionname", "exec", "at", "number"}
Beforehand(r) ==
  CASE r.form = "query" /\ r.verb \in NoQuestions         -> "failed"
    [] r.form = "query" /\ r.verb \in EmptyQuestions      -> "ok"
    [] r.form = "query" /\ r.verb \notin DOMAIN Questions -> "failed"
    [] r.form = "run" /\ r.verb \in LocalVerbs            -> "ok"
    [] r.form = "run" /\ r.verb \notin DOMAIN Remote      -> "failed"
    [] r.form = "run" /\ ~r.complete /\ r.verb \in NeedsArgument -> "failed"
    [] OTHER -> "asked"

(* The answers that count; "end" is the end of the stream, and an empty    *)
(* list of windows is no answer to a question about the selected one.      *)
Wanted(r) ==
  CASE Sends(r) = "CreateWindow" -> {"WindowCreated"}
    [] Sends(r) = "WindowInfo"   -> {"WindowInfo"}
    [] Sends(r) = "Shutdown"     -> {"ShutdownAck"}
    [] r.form = "query"          -> {"WindowList"}
    [] OTHER                     -> {"WindowList", "EmptyList"}
Exact(r) == r.form = "query" \/ r.verb \in DOMAIN AskingVerbs
SlipSucceeds(r, answer) == answer # "Error"
Succeeds(r, answer) ==
  CASE Exact(r)                          -> answer \in Wanted(r)
    [] r.verb \in DOMAIN ControlVerbs    -> TRUE
    [] OTHER                             -> answer \notin {"Error", "end"}
=============================================================================
