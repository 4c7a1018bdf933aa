--------------------------- MODULE ScreenSession ---------------------------
(***************************************************************************)
(* The session a screen daemon keeps (crates/screen-daemon/src/lib.rs):    *)
(* the window table, the attached clients, the split regions, and the main *)
(* loop of run_pty_session, which polls signals, accepts connections,      *)
(* drains the clients' events, polls the windows' output, checks for       *)
(* exited programs, and starts over.  The children of the windows, the     *)
(* peers behind the sockets and the signals are the environment.           *)
(***************************************************************************)
EXTENDS WindowTable, SequencesExt

CONSTANTS
    MaxIds,      \* bound: window ids the daemon hands out
    MaxClients,  \* bound: clients that ever attach
    Startup,     \* startup windows the configuration asks for, besides window 0
    RenumberTo,  \* numbers a user renumbers a window to
    Limits,      \* values of maxwin, NoLimit among them
    Features     \* the optional parts of the interface this instance uses

NoLimit == -1

ASSUME ConstantsAssumption ==
    /\ MaxIds \in Nat
    /\ MaxClients \in Nat
    /\ Startup \in Nat
    /\ Startup < MaxIds
    /\ RenumberTo \subseteq Nat
    /\ Limits \subseteq Nat \cup {NoLimit}
    /\ Features \subseteq {"regions", "layouts", "settings", "numbers", "mouse"}

VARIABLES
    windows,       \* SessionState.windows: the window table, zombies included
    selected,      \* SessionState.selected: an index into it
    nextId,        \* SessionState.next_id
    nextNumber,    \* SessionState.next_number
    maxwin,        \* SessionState.maxwin
    autoNuke,      \* SessionState.auto_nuke
    quitRequested, \* SessionState.quit_requested
    clients,       \* the attached clients, by id (the Vec is in id order)
    readers,       \* clients whose reader thread has not yet said Detach
    nextClient,    \* next_client_id
    regions,       \* SessionState.regions: the window index of each region
    focus,         \* SessionState.focused_region
    saved,         \* SessionState.saved_regions, empty when None
    layouts,       \* SessionState.saved_layouts for one name: {} or {its window numbers}
    phase          \* where the main loop is

tableVars   == <<windows, selected, nextId, nextNumber>>
settingVars == <<maxwin, autoNuke, quitRequested>>
clientVars  == <<clients, readers, nextClient>>
regionVars  == <<regions, focus, saved, layouts>>
vars == <<tableVars, settingVars, clientVars, regionVars, phase>>

Looping == {"signal", "accept", "events", "output", "exits"}
Ended   == {"stopped", "failed", "panicked"}

Client == [selected : Nat, last : Nat]

-----------------------------------------------------------------------------
(* What the operations of SessionState do to the table.  A definition named  *)
(* Slip... is its neighbour with one likely slip in it, kept to see which    *)
(* property notices; no specification uses one.                              *)

SlipDropDead(t, sel) ==
    /\ \E f \in Orders({k \in DOMAIN t : t[k].alive}) :
            windows' = [k \in DOMAIN f |-> t[f[k]]]
    /\ selected' = Lesser(sel, SatSub(Len(windows'), 1))

\* remove_dead_windows, from the table t and the selection sel.
DropDead(t, sel) ==
    /\ \E f \in Orders({k \in DOMAIN t : t[k].alive}) :
            windows' = [k \in DOMAIN f |-> t[f[k]]]
    /\ selected' = Lesser(SatSub(sel, Cardinality(DeadBefore(t, sel))),
                          SatSub(Len(windows'), 1))

SlipRemoveUnclamped(k) ==
    /\ ~At(windows, k).alive
    /\ windows' = RemoveAt(windows, k + 1)
    /\ selected' = selected

SlipRemoveAny(k) ==
    /\ windows' = RemoveAt(windows, k + 1)
    /\ selected' = IF windows' # <<>> THEN Lesser(selected, Len(windows') - 1) ELSE selected

\* remove_window: only the dead go, and only an index past the end is mended.
RemoveOne(k) ==
    /\ ~At(windows, k).alive
    /\ windows' = RemoveAt(windows, k + 1)
    /\ selected' = IF windows' # <<>> THEN Lesser(selected, Len(windows') - 1) ELSE selected

Full == maxwin # NoLimit /\ Len(windows) >= maxwin

TakeNumbers ==
    /\ nextId <= MaxIds
    /\ nextId' = nextId + 1
    /\ nextNumber' = nextNumber + 1

\* create_window up to the push; the caller says what is selected.
PushWindow ==
    /\ ~Full
    /\ TakeNumbers
    /\ windows' = Append(windows, [id |-> nextId, number |-> nextNumber,
                                   alive |-> TRUE, pty |-> "running"])

CreateWindow == PushWindow /\ selected' = Len(windows)

\* The limit refuses at once; a failed spawn has already used the numbers up.
CreateFails ==
    /\ \/ Full /\ UNCHANGED <<nextId, nextNumber>>
       \/ ~Full /\ TakeNumbers
    /\ UNCHANGED <<windows, selected>>

\* The check both renumbering paths share.
Renumber(n) ==
    /\ "numbers" \in Features
    /\ selected \in Idx(windows)
    /\ \A i \in Idx(windows) : At(windows, i).number # n
    /\ windows' = [windows EXCEPT ![selected + 1].number = n]

-----------------------------------------------------------------------------
(* The attached clients. *)

NoClients == [c \in {} |-> [selected |-> 0, last |-> 0]]

\* A write to a client that fails takes it off the list, and tells nobody.
Without(cs, gone) == [c \in DOMAIN cs \ gone |-> cs[c]]
Broadcast(cs) == \E gone \in SUBSET DOMAIN cs : clients' = Without(cs, gone)
SendTo(cs, c) == clients' \in {cs, Without(cs, {c})}

Viewing(c, i) == [clients EXCEPT ![c] = [selected |-> i, last |-> clients[c].selected]]

\* Clients that view a window in `gone` go on to the next live window of t.
MoveViewers(cs, t, gone) ==
    [c \in DOMAIN cs |->
        IF cs[c].selected \in gone /\ LiveIdx(t) # {}
        THEN [cs[c] EXCEPT !.selected = NextIndex(t, cs[c].selected)]
        ELSE cs[c]]

-----------------------------------------------------------------------------
Init ==
    /\ windows = [k \in 1 .. Startup + 1 |-> [id |-> k, number |-> k - 1,
                                              alive |-> TRUE, pty |-> "running"]]
    /\ selected \in Idx(windows)
    /\ nextId = Startup + 2
    /\ nextNumber = Startup + 1
    /\ maxwin \in {l \in Limits : l = NoLimit \/ l > Startup}
    /\ autoNuke \in BOOLEAN
    /\ quitRequested = FALSE
    /\ clients = NoClients
    /\ readers = {}
    /\ nextClient = 1
    /\ regions = <<>>
    /\ focus = 0
    /\ saved = <<>>
    /\ layouts = {}
    /\ phase = "signal"

-----------------------------------------------------------------------------
(* The top of the loop: signals, and the parent that may have gone. *)

PollQuiet ==
    /\ phase = "signal"
    /\ phase' = "accept"
    /\ UNCHANGED <<tableVars, settingVars, clientVars, regionVars>>

PollHangup ==
    /\ phase = "signal"
    /\ clients' = NoClients
    /\ phase' = "accept"
    /\ UNCHANGED <<tableVars, settingVars, readers, nextClient, regionVars>>

PollShutdown ==
    /\ phase = "signal"
    /\ clients' = NoClients
    /\ phase' = "stopped"
    /\ UNCHANGED <<tableVars, settingVars, readers, nextClient, regionVars>>

-----------------------------------------------------------------------------
(* accept_connections: attaches and one-shot requests, one per connection. *)

Accepting == phase = "accept" /\ UNCHANGED phase

\* Without multi_display the clients already there are detached first.
Attach(multi) ==
    /\ Accepting
    /\ nextClient <= MaxClients
    /\ LET kept == IF multi THEN clients ELSE NoClients
       IN  clients' = [c \in DOMAIN kept \cup {nextClient} |->
                          IF c = nextClient THEN [selected |-> selected, last |-> selected]
                                            ELSE kept[c]]
    /\ readers' = readers \cup {nextClient}
    /\ nextClient' = nextClient + 1
    /\ UNCHANGED <<tableVars, settingVars, regionVars>>

ShotDetach ==
    /\ Accepting
    /\ clients' = NoClients
    /\ UNCHANGED <<tableVars, settingVars, readers, nextClient, regionVars>>

ShotShutdown ==
    /\ phase = "accept"
    /\ phase' = "stopped"
    /\ UNCHANGED <<tableVars, settingVars, clientVars, regionVars>>

ShotCreate ==
    /\ Accepting
    /\ CreateWindow \/ CreateFails
    /\ UNCHANGED <<settingVars, clientVars, regionVars>>

ShotSelect ==
    /\ Accepting
    /\ selected' \in FirstLive(windows)
    /\ UNCHANGED <<windows, nextId, nextNumber, settingVars, clientVars, regionVars>>

\* No nuking and no mending of views here; the table cannot have become empty.
ShotKill(k) ==
    /\ Accepting
    /\ k \in First(windows)
    /\ windows' = Killed(windows, k)
    /\ Broadcast(clients)
    /\ UNCHANGED <<selected, nextId, nextNumber, settingVars, readers, nextClient, regionVars>>

ShotNext ==
    /\ Accepting
    /\ LiveIdx(windows) # {}
    /\ selected' = NextIndex(windows, selected)
    /\ UNCHANGED <<windows, nextId, nextNumber, settingVars, clientVars, regionVars>>

ShotPrev ==
    /\ Accepting
    /\ LiveIdx(windows) # {}
    /\ selected' = PrevIndex(windows, selected)
    /\ UNCHANGED <<windows, nextId, nextNumber, settingVars, clientVars, regionVars>>

ShotRenumber(n) ==
    /\ Accepting
    /\ Renumber(n)
    /\ UNCHANGED <<selected, nextId, nextNumber, settingVars, clientVars, regionVars>>

ShotRemove(k) ==
    /\ Accepting
    /\ k \in First(windows)
    /\ RemoveOne(k)
    /\ UNCHANGED <<nextId, nextNumber, settingVars, clientVars, regionVars>>

ShotWipe ==
    /\ Accepting
    /\ DropDead(windows, selected)
    /\ UNCHANGED <<nextId, nextNumber, settingVars, clientVars, regionVars>>

\* `?` on the HelloAck or on an answer: a peer that has hung up ends the daemon.
ReplyFails ==
    /\ phase = "accept"
    /\ phase' = "failed"
    /\ UNCHANGED <<tableVars, settingVars, clientVars, regionVars>>

\* write_to_window fails: the non-blocking PTY of a program that does not read is
\* full, or nobody is left behind that of one that has exited.
WriteFails(target) == target \in Idx(windows) /\ At(windows, target).pty # "none"

\* `?` on one-shot input.
ShotWriteFails ==
    /\ phase = "accept"
    /\ WriteFails(selected)
    /\ phase' = "failed"
    /\ UNCHANGED <<tableVars, settingVars, clientVars, regionVars>>

EndAccept ==
    /\ phase = "accept"
    /\ phase' = "events"
    /\ UNCHANGED <<tableVars, settingVars, clientVars, regionVars>>

-----------------------------------------------------------------------------
(* The events of the clients.  A client's reader thread sends them in order, *)
(* Detach last, and goes on doing so after the daemon has taken the client   *)
(* off its list: the event of reader c may find no client c.                 *)

Event(c) == phase = "events" /\ c \in readers
Listed(c) == Event(c) /\ c \in DOMAIN clients

\* Both the client and the session go to window i.
GoTo(c, i) == clients' = Viewing(c, i) /\ selected' = i

EvSelect(c) ==
    /\ Listed(c)
    /\ \E i \in FirstLive(windows) : GoTo(c, i)
    /\ UNCHANGED <<windows, nextId, nextNumber, settingVars, readers, nextClient, regionVars, phase>>

EvNext(c) ==
    /\ Listed(c)
    /\ LiveIdx(windows) # {}
    /\ GoTo(c, NextIndex(windows, clients[c].selected))
    /\ UNCHANGED <<windows, nextId, nextNumber, settingVars, readers, nextClient, regionVars, phase>>

EvPrev(c) ==
    /\ Listed(c)
    /\ LiveIdx(windows) # {}
    /\ GoTo(c, PrevIndex(windows, clients[c].selected))
    /\ UNCHANGED <<windows, nextId, nextNumber, settingVars, readers, nextClient, regionVars, phase>>

\* The swap comes first; then windows[selected] is read unchecked.
EvOther(c) ==
    /\ Listed(c)
    /\ clients' = Viewing(c, clients[c].last)
    /\ phase' = IF clients[c].last \in Idx(windows) THEN phase ELSE "panicked"
    /\ UNCHANGED <<tableVars, settingVars, readers, nextClient, regionVars>>

\* The client follows the first live window that bears the new one's number.
EvCreate(c) ==
    /\ Event(c)
    /\ \/ /\ PushWindow
          /\ IF c \in DOMAIN clients
             THEN \E i \in FirstLive(windows') :
                     /\ At(windows', i).number = nextNumber
                     /\ selected' = i
                     /\ SendTo(Viewing(c, i), c)
             ELSE selected' = Len(windows) /\ UNCHANGED clients
       \/ CreateFails /\ SendTo(clients, c)
    /\ UNCHANGED <<settingVars, readers, nextClient, regionVars, phase>>

EvKill(c, k) ==
    /\ Event(c)
    /\ k \in First(windows)
    /\ IF autoNuke THEN DropDead(Killed(windows, k), selected)
                   ELSE windows' = Killed(windows, k) /\ UNCHANGED selected
    /\ \E gone \in SUBSET DOMAIN clients :
          clients' = MoveViewers(Without(clients, gone), windows',
                        {i \in First(windows') : At(windows', i).number = At(windows, k).number})
    /\ phase' = IF windows' = <<>> THEN "stopped" ELSE phase
    /\ UNCHANGED <<nextId, nextNumber, settingVars, readers, nextClient, regionVars>>

\* The answer goes to a client that must be there: find(..).unwrap().
EvRenumber(c, n) ==
    /\ Event(c)
    /\ Renumber(n)
    /\ phase' = IF c \in DOMAIN clients THEN phase ELSE "panicked"
    /\ UNCHANGED <<selected, nextId, nextNumber, settingVars, clientVars, regionVars>>

EvRemove(c, k) ==
    /\ Event(c)
    /\ k \in First(windows)
    /\ RemoveOne(k)
    /\ UNCHANGED <<nextId, nextNumber, settingVars, clientVars, regionVars, phase>>

EvWipe(c) ==
    /\ Event(c)
    /\ DropDead(windows, selected)
    /\ UNCHANGED <<nextId, nextNumber, settingVars, clientVars, regionVars, phase>>

\* WindowInfo reads windows[client.selected] unchecked.
EvInfoPanics(c) ==
    /\ Listed(c)
    /\ clients[c].selected \notin Idx(windows)
    /\ phase' = "panicked"
    /\ UNCHANGED <<tableVars, settingVars, clientVars, regionVars>>

\* `?` on a client's input, which goes to the focused region's window, or, what
\* the mouse sends, to the client's own.
EvWriteFails(c) ==
    /\ Listed(c)
    /\ \/ Len(regions) > 1 /\ WriteFails(At(regions, focus))
       \/ (Len(regions) <= 1 \/ "mouse" \in Features) /\ WriteFails(clients[c].selected)
    /\ phase' = "failed"
    /\ UNCHANGED <<tableVars, settingVars, clientVars, regionVars>>

\* The events that only tell the clients something: echo, redisplay, resizing a
\* region, and those whose answer goes to one client.
EvTell(c) ==
    /\ Event(c)
    /\ Broadcast(clients)
    /\ UNCHANGED <<tableVars, settingVars, readers, nextClient, regionVars, phase>>

EvDetach(c) ==
    /\ Event(c)
    /\ clients' = Without(clients, {c})
    /\ readers' = readers \ {c}
    /\ UNCHANGED <<tableVars, settingVars, nextClient, regionVars, phase>>

EvShutdown(c) ==
    /\ Event(c)
    /\ phase' = "stopped"
    /\ UNCHANGED <<tableVars, settingVars, clientVars, regionVars>>

\* A click on the hardstatus moves every client.  The caller then reads
\* clients[idx], at the place c had before the broadcasts.
EvClick(c) ==
    /\ Listed(c)
    /\ "mouse" \in Features
    /\ clients[c].selected \in Idx(windows)
    /\ \E i \in FirstLive(windows), gone \in SUBSET DOMAIN clients :
          LET moved == [d \in DOMAIN clients |-> [selected |-> i, last |-> clients[d].selected]]
              place == Cardinality({d \in DOMAIN clients : d < c})
          IN  /\ clients' = Without(moved, gone)
              /\ phase' = IF place < Cardinality(DOMAIN clients \ gone) THEN phase ELSE "panicked"
    /\ UNCHANGED <<tableVars, settingVars, readers, nextClient, regionVars>>

-----------------------------------------------------------------------------
(* Region events.  Each sends the new layout to every client. *)

RegionEvent(c) == Event(c) /\ "regions" \in Features

EvSplit(c) ==
    /\ RegionEvent(c)
    /\ Len(windows) > 1
    /\ regions' = <<selected, IF LiveIdx(windows) = {} THEN 0 ELSE NextIndex(windows, selected)>>
    /\ focus' = 0
    /\ Broadcast(clients)
    /\ UNCHANGED <<tableVars, settingVars, readers, nextClient, saved, layouts, phase>>


\* regions.remove(focused_region) and the clamp, for the event and the command.
FocusedRemoved ==
    /\ Len(regions) > 1
    /\ focus' = Lesser(focus, SatSub(Len(regions) - 1, 1))

\* When one region is left the session shows its window, and has no regions.
EvRemoveRegion(c) ==
    /\ RegionEvent(c)
    /\ FocusedRemoved
    /\ LET rest == RemoveAt(regions, focus + 1)
       IN  IF Len(rest) = 1 THEN selected' = At(rest, 0) /\ regions' = <<>>
                            ELSE UNCHANGED selected /\ regions' = rest
    /\ Broadcast(clients)
    /\ UNCHANGED <<windows, nextId, nextNumber, settingVars, readers, nextClient, saved, layouts, phase>>

EvOnly(c) ==
    /\ RegionEvent(c)
    /\ \/ /\ saved # <<>>
          /\ regions' = saved
          /\ saved' = <<>>
          /\ focus' = IF focus < Len(saved) THEN focus ELSE 0
       \/ /\ saved = <<>> /\ regions # <<>>
          /\ regions' = <<>>
          /\ saved' = regions
          /\ UNCHANGED focus
    /\ Broadcast(clients)
    /\ UNCHANGED <<tableVars, settingVars, readers, nextClient, layouts, phase>>

\* FocusNextRegion and FocusPrevRegion: the session follows the region's index,
\* whatever the table now holds there.
EvFocus(c) ==
    /\ RegionEvent(c)
    /\ regions # <<>>
    /\ focus' \in {(focus + 1) % Len(regions), IF focus = 0 THEN Len(regions) - 1 ELSE focus - 1}
    /\ selected' = At(regions, focus')
    /\ Broadcast(clients)
    /\ UNCHANGED <<windows, nextId, nextNumber, settingVars, readers, nextClient, regions, saved, layouts, phase>>

-----------------------------------------------------------------------------
(* execute_command_string: `screen -X` runs it while connections are        *)
(* accepted, with an empty client list; an attached client's command line   *)
(* runs it among the events.                                                *)

Commanding ==
    /\ \/ phase = "accept"
       \/ phase = "events" /\ readers # {}
    /\ UNCHANGED phase

CmdSelect ==
    /\ Commanding
    /\ selected' \in FirstLive(windows)
    /\ UNCHANGED <<windows, nextId, nextNumber, settingVars, clientVars, regionVars>>

CmdMaxwin ==
    /\ Commanding
    /\ "settings" \in Features
    /\ maxwin' \in Limits \ {NoLimit}
    /\ UNCHANGED <<tableVars, autoNuke, quitRequested, clientVars, regionVars>>

\* The number of the selected window is looked up again, and its first bearer killed.
CmdKill ==
    /\ Commanding
    /\ selected \in Idx(windows)
    /\ \E k \in First(windows) :
          /\ At(windows, k).number = At(windows, selected).number
          /\ windows' = Killed(windows, k)
    /\ IF phase = "accept" THEN UNCHANGED clients ELSE Broadcast(clients)
    /\ UNCHANGED <<selected, nextId, nextNumber, settingVars, readers, nextClient, regionVars>>

\* exec and screen.
CmdCreate ==
    /\ Commanding
    /\ CreateWindow \/ CreateFails
    /\ UNCHANGED <<settingVars, clientVars, regionVars>>

CmdNext ==
    /\ Commanding
    /\ LiveIdx(windows) # {}
    /\ selected' = NextIndex(windows, selected)
    /\ UNCHANGED <<windows, nextId, nextNumber, settingVars, clientVars, regionVars>>

\* prev, and other, which does the same.
CmdPrev ==
    /\ Commanding
    /\ LiveIdx(windows) # {}
    /\ selected' = PrevIndex(windows, selected)
    /\ UNCHANGED <<windows, nextId, nextNumber, settingVars, clientVars, regionVars>>

\* The new region is the last window of the table, new or not.
CmdSplit ==
    /\ Commanding
    /\ "regions" \in Features
    /\ CreateWindow \/ CreateFails
    /\ IF Len(windows') > 1
       THEN /\ regions' = <<IF focus < Len(regions) THEN At(regions, focus) ELSE 0,
                            Len(windows') - 1>>
            /\ focus' = 1
       ELSE UNCHANGED <<regions, focus>>
    /\ UNCHANGED <<settingVars, clientVars, saved, layouts>>

CmdRemove ==
    /\ Commanding
    /\ "regions" \in Features
    /\ FocusedRemoved
    /\ regions' = RemoveAt(regions, focus + 1)
    /\ UNCHANGED <<tableVars, settingVars, clientVars, saved, layouts>>

CmdOnly ==
    /\ Commanding
    /\ "regions" \in Features
    /\ focus < Len(regions)
    /\ regions' = <<At(regions, focus)>>
    /\ focus' = 0
    /\ UNCHANGED <<tableVars, settingVars, clientVars, saved, layouts>>

CmdFocus ==
    /\ Commanding
    /\ "regions" \in Features
    /\ \/ focus > 0 /\ focus' = focus - 1
       \/ focus + 1 < Len(regions) /\ focus' = focus + 1
    /\ UNCHANGED <<tableVars, settingVars, clientVars, regions, saved, layouts>>

\* layout save: the numbers of the windows the regions show, leaving out the
\* indices that lead nowhere; without regions, that of the selected window.
CmdLayoutSave ==
    /\ Commanding
    /\ "layouts" \in Features
    /\ LET shown == IF regions = <<>> THEN <<selected>> ELSE regions
       IN  \E f \in Orders({k \in DOMAIN shown : shown[k] \in Idx(windows)}) :
              layouts' = {[k \in DOMAIN f |-> At(windows, shown[f[k]]).number]}
    /\ UNCHANGED <<tableVars, settingVars, clientVars, regions, focus, saved>>

SlipCmdLayoutLoad ==
    /\ Commanding
    /\ "layouts" \in Features
    /\ \E l \in layouts :
          \E f \in Orders({k \in DOMAIN l : l[k] \in Numbers(windows)}) :
             regions' = [k \in DOMAIN f |-> Bearer(windows, l[f[k]])]
    /\ UNCHANGED <<tableVars, settingVars, clientVars, focus, saved, layouts>>

SlipNumberForIndex ==
    /\ Commanding
    /\ "layouts" \in Features
    /\ \E l \in layouts :
          \E f \in Orders({k \in DOMAIN l : l[k] \in Numbers(windows)}) :
             regions' = [k \in DOMAIN f |-> l[f[k]]]
    /\ focus' = IF regions' = <<>> THEN focus ELSE 0
    /\ UNCHANGED <<tableVars, settingVars, clientVars, saved, layouts>>

\* layout load: the first window that bears each number, dead or alive.
CmdLayoutLoad ==
    /\ Commanding
    /\ "layouts" \in Features
    /\ \E l \in layouts :
          \E f \in Orders({k \in DOMAIN l : l[k] \in Numbers(windows)}) :
             regions' = [k \in DOMAIN f |-> Bearer(windows, l[f[k]])]
    /\ focus' = IF regions' = <<>> THEN focus ELSE 0
    /\ UNCHANGED <<tableVars, settingVars, clientVars, saved, layouts>>

CmdLayoutRemove ==
    /\ Commanding
    /\ "layouts" \in Features
    /\ layouts' = {}
    /\ UNCHANGED <<tableVars, settingVars, clientVars, regions, focus, saved>>

\* Tells the clients to detach and raises a flag.
CmdQuit ==
    /\ Commanding
    /\ "settings" \in Features
    /\ quitRequested' = TRUE
    /\ UNCHANGED <<tableVars, maxwin, autoNuke, clientVars, regionVars>>

CmdAutoNuke ==
    /\ Commanding
    /\ "settings" \in Features
    /\ autoNuke' \in BOOLEAN
    /\ UNCHANGED <<tableVars, maxwin, quitRequested, clientVars, regionVars>>

-----------------------------------------------------------------------------
(* The rest of the loop, and the environment. *)

EndEvents ==
    /\ phase = "events"
    /\ phase' = "output"
    /\ UNCHANGED <<tableVars, settingVars, clientVars, regionVars>>

\* The output of live windows goes to their viewers, or composited to everyone.
PollOutput ==
    /\ phase = "output"
    /\ phase' = "exits"
    /\ IF LiveIdx(windows) = {} THEN UNCHANGED clients ELSE Broadcast(clients)
    /\ UNCHANGED <<tableVars, settingVars, readers, nextClient, regionVars>>

\* A zombie keeps its PTY, so each pass finds it, and reports it, again.
CheckExits ==
    /\ phase = "exits"
    /\ LET gone   == ExitedIdx(windows)
           marked == Marked(windows)
           shown  == IF selected \in gone /\ LiveIdx(marked) # {}
                     THEN NextIndex(marked, selected) ELSE selected
       IN  /\ IF gone # {} /\ autoNuke THEN DropDead(marked, shown)
                                       ELSE windows' = marked /\ selected' = shown
           /\ \E lost \in SUBSET DOMAIN clients :
                 clients' = MoveViewers(Without(clients, lost), marked, gone)
           /\ phase' = IF gone # {} /\ LiveIdx(marked) = {} THEN "stopped" ELSE "signal"
    /\ UNCHANGED <<nextId, nextNumber, settingVars, readers, nextClient, regionVars>>

\* The program in window i exits; nobody in the daemon notices yet.
ChildExit(i) ==
    /\ phase \in Looping
    /\ At(windows, i).pty = "running"
    /\ windows' = [windows EXCEPT ![i + 1].pty = "exited"]
    /\ UNCHANGED <<selected, nextId, nextNumber, settingVars, clientVars, regionVars, phase>>

-----------------------------------------------------------------------------
Poll == PollQuiet \/ PollHangup \/ PollShutdown

Connection ==
    \/ \E multi \in BOOLEAN : Attach(multi)
    \/ ShotDetach \/ ShotShutdown \/ ShotCreate \/ ShotSelect \/ ShotNext \/ ShotPrev
    \/ \E k \in Idx(windows) : ShotKill(k) \/ ShotRemove(k)
    \/ \E n \in RenumberTo : ShotRenumber(n)
    \/ ShotWipe \/ ReplyFails \/ ShotWriteFails

ClientEvent(c) ==
    \/ EvSelect(c) \/ EvNext(c) \/ EvPrev(c) \/ EvOther(c) \/ EvCreate(c)
    \/ \E k \in Idx(windows) : EvKill(c, k) \/ EvRemove(c, k)
    \/ \E n \in RenumberTo : EvRenumber(c, n)
    \/ EvWipe(c) \/ EvTell(c) \/ EvInfoPanics(c) \/ EvWriteFails(c)
    \/ EvDetach(c) \/ EvShutdown(c) \/ EvClick(c)
    \/ EvSplit(c) \/ EvRemoveRegion(c) \/ EvOnly(c) \/ EvFocus(c)

Command ==
    \/ CmdSelect \/ CmdNext \/ CmdPrev \/ CmdCreate \/ CmdKill
    \/ CmdSplit \/ CmdRemove \/ CmdOnly \/ CmdFocus
    \/ CmdLayoutSave \/ CmdLayoutLoad \/ CmdLayoutRemove
    \/ CmdMaxwin \/ CmdAutoNuke \/ CmdQuit

Pass == EndAccept \/ EndEvents \/ PollOutput \/ CheckExits

Next ==
    \/ Poll
    \/ Connection
    \/ \E c \in readers : ClientEvent(c)
    \/ Command
    \/ Pass
    \/ \E i \in Idx(windows) : ChildExit(i)

Spec == Init /\ [][Next]_vars

\* The loop never stops going round.  For EndAccept and EndEvents this assumes
\* that the peers do not fill the two queues faster than the daemon drains them.
LoopFairness == WF_vars(PollQuiet) /\ WF_vars(Pass)

FairSpec == Spec /\ LoopFairness

-----------------------------------------------------------------------------
(* Properties *)

\* Every variable has its type; an index is a natural number that nothing
\* bounds, as a usize is.
TableType ==
    /\ windows \in Seq(Window)
    /\ selected \in Nat
    /\ nextId \in 1 .. MaxIds + 1
    /\ nextNumber \in Nat

SettingsType == maxwin \in Limits /\ autoNuke \in BOOLEAN /\ quitRequested \in BOOLEAN

ClientsType ==
    /\ nextClient \in 1 .. MaxClients + 1
    /\ DOMAIN clients \subseteq 1 .. nextClient - 1
    /\ clients \in [DOMAIN clients -> Client]
    /\ readers \subseteq 1 .. nextClient - 1

RegionsType ==
    /\ regions \in Seq(Nat)
    /\ focus \in Nat
    /\ saved \in Seq(Nat)
    /\ \A l \in layouts : l \in Seq(Nat)

TypeOK ==
    /\ TableType
    /\ SettingsType
    /\ ClientsType
    /\ RegionsType
    /\ phase \in Looping \cup Ended

\* No id is ever given to two windows, and removals keep the table in the order
\* of creation: what clients are told about a window id stays about that window.
IdsOrdered == OrderedBelow(windows, nextId)

\* Every client on the list still has a reader whose Detach will take it off,
\* however it was told to leave meanwhile.
AttachedHasReader == DOMAIN clients \subseteq readers

\* A region can always be reached through focused_region: no mix of the region
\* events of the clients, the region commands and the layouts saved and loaded
\* in between makes regions[focused_region] or
\* regions.remove(focused_region) run off the end.
FocusValid ==
    /\ regions # <<>> => focus < Len(regions)
    /\ Len(regions) <= 2 /\ Len(saved) <= 2
    /\ \A l \in layouts : Len(l) <= 2

\* Without regions the session's own index is in the table, whatever removals
\* and creations come in between, save when the table is empty.
SelectedInRange == "regions" \notin Features => selected \in Idx(windows) \cup {0}

\* When a pass of the loop is over, nobody looks at a window whose program has
\* been found exited while another window lives, even in the middle of removals.
NobodyViewsZombie ==
    phase = "signal" /\ LiveIdx(windows) # {} /\ ~autoNuke =>
        \A i \in ExitedIdx(windows) :
            ~At(windows, i).alive =>
                /\ selected # i
                /\ \A c \in DOMAIN clients : clients[c].selected # i

Indices ==
    {selected} \cup (UNION {{clients[c].selected, clients[c].last} : c \in DOMAIN clients})
               \cup {regions[k] : k \in DOMAIN regions} \cup {saved[k] : k \in DOMAIN saved}

\* Only the removal of windows makes an index stale: a step that does not
\* shorten the table keeps every index of the session, the clients, the regions
\* and the saved regions inside it.
RangeKept ==
    [][ Indices \subseteq Idx(windows) /\ Len(windows') >= Len(windows)
        => Indices' \subseteq Idx(windows') ]_vars

\* A program is never lost with a removal: a window whose program runs leaves
\* the table only by being killed, under auto-nuke, and then alone.
RemovalSparesTheRunning ==
    [][ LET lost == RunningIds(windows) \ Ids(windows')
        IN  /\ Cardinality(lost) <= 1
            /\ lost # {} => autoNuke /\ phase = "events" ]_vars

\* Windows are born, exit, are killed, found dead and removed as module
\* WindowLife promises, whatever the removals do to the places in the table.
Promise == INSTANCE WindowLife WITH
    next    <- nextId,
    running <- RunningIds(windows),
    exited  <- UnnoticedIds(windows),
    dead    <- DeadIds(windows),
    nuke    <- autoNuke
LivesKept == Promise!Spec

\* A client that did not ask to go elsewhere (its last_selected stays) is moved
\* only off a dead window, and onto a live one, as long as no window is removed.
ForcedMovesLeaveTheDead ==
    [][ Len(windows') = Len(windows) =>
        \A c \in DOMAIN clients \cap DOMAIN clients' :
            LET old == clients[c].selected
                new == clients'[c].selected
            IN  new # old /\ old \in Idx(windows)
                /\ clients'[c].last = clients[c].last /\ clients[c].last # old
                => ~At(windows', old).alive /\ At(windows', new).alive ]_vars

Survives(i) == At(windows, i).alive /\ (phase = "exits" => At(windows, i).pty = "running")

\* Wiping, and the removals of auto-nuke after exits, keep the session on the window
\* it was on if that window survives, wherever the removals have put it.  The row
\* that a kill takes away itself, under auto-nuke, is not spoken of here.
SelectionFollows ==
    [][ ShotWipe \/ CheckExits \/ (\E c \in readers : EvWipe(c)) =>
        \A i \in Idx(windows) : selected = i /\ Survives(i) =>
            At(windows', selected').id = At(windows, i).id ]_vars

\* An exit is noticed: as long as the daemon runs, a window whose program has
\* exited ends up dead or gone.
ExitNoticed ==
    \A n \in 1 .. MaxIds :
        (\E i \in ExitedIdx(windows) : At(windows, i).id = n /\ At(windows, i).alive)
        ~> (phase \in Ended \/ \A i \in Idx(windows) : At(windows, i).id = n => ~At(windows, i).alive)

\* When the last programs have exited, rather than been killed, and nobody
\* starts another, the daemon stops.
LastExitEndsSession ==
    <>[](RunningIds(windows) = {} /\ ExitedIdx(windows) # {}) => <>(phase \in Ended)
=============================================================================
