------------------------ MODULE ScreenSessionProofs ------------------------
(***************************************************************************)
(* Theorems about ScreenSession, for every value of its constants.         *)
(*                                                                         *)
(* The proofs go through what a step can do to each part of the state: the *)
(* fifty actions have ten effects on the window table (TableStep), three   *)
(* on the client list (ClientStep), and the region operations are few.     *)
(***************************************************************************)
EXTENDS ScreenSession, BasicsProofs

-----------------------------------------------------------------------------
(* The searches and updates of the window table. *)

\* The indices of a table are the naturals below its length.
LEMMA IndexFacts ==
    ASSUME NEW S, NEW t \in Seq(S)
    PROVE  /\ Len(t) \in Nat
           /\ DOMAIN t = 1 .. Len(t)
           /\ \A i \in Idx(t) : i \in Nat /\ i + 1 \in DOMAIN t /\ At(t, i) \in S
BY DEF Idx, At

\* next_window_index returns a live window whenever there is one.
LEMMA NextIndexIsLive ==
    ASSUME NEW t \in Seq(Window), NEW cur \in Nat, LiveIdx(t) # {}
    PROVE  NextIndex(t, cur) \in LiveIdx(t)
<1>. DEFINE D(i) == (i - cur - 1) % Len(t)
            Steps == {D(i) : i \in LiveIdx(t)}
<1>1. Len(t) \in Nat /\ Len(t) > 0
  BY IndexFacts DEF LiveIdx, Idx
<1>2. Steps \in SUBSET Nat /\ Steps # {}
  BY <1>1 DEF LiveIdx, Idx
<1>3. PICK m \in Steps : \A n \in Steps : m <= n
  <2>. HIDE DEF Steps
  <2>. QED  BY <1>2, LeastNat
<1>4. \E i \in LiveIdx(t) : \A j \in LiveIdx(t) : D(i) <= D(j)
  BY <1>3
<1>. QED  BY <1>4 DEF NextIndex

\* prev_window_index likewise.
LEMMA PrevIndexIsLive ==
    ASSUME NEW t \in Seq(Window), NEW cur \in Nat, LiveIdx(t) # {}
    PROVE  PrevIndex(t, cur) \in LiveIdx(t)
<1>. DEFINE D(i) == (cur - i - 1) % Len(t)
            Steps == {D(i) : i \in LiveIdx(t)}
<1>1. Len(t) \in Nat /\ Len(t) > 0
  BY IndexFacts DEF LiveIdx, Idx
<1>2. Steps \in SUBSET Nat /\ Steps # {}
  BY <1>1 DEF LiveIdx, Idx
<1>3. PICK m \in Steps : \A n \in Steps : m <= n
  <2>. HIDE DEF Steps
  <2>. QED  BY <1>2, LeastNat
<1>4. \E i \in LiveIdx(t) : \A j \in LiveIdx(t) : D(i) <= D(j)
  BY <1>3
<1>. QED  BY <1>4 DEF PrevIndex

\* What kill_window leaves: the same rows, but for the dead one.
LEMMA KilledFacts ==
    ASSUME NEW t \in Seq(Window), NEW i \in Idx(t)
    PROVE  /\ Killed(t, i) \in Seq(Window)
           /\ Len(Killed(t, i)) = Len(t)
           /\ \A k \in Idx(t) : /\ At(Killed(t, i), k).id = At(t, k).id
                                /\ At(Killed(t, i), k).number = At(t, k).number
                                /\ k # i => At(Killed(t, i), k) = At(t, k)
           /\ ~At(Killed(t, i), i).alive /\ At(Killed(t, i), i).pty = "none"
<1>. DEFINE k0 == i + 1
            e == [t[k0] EXCEPT !.alive = FALSE, !.pty = "none"]
<1>1. k0 \in 1 .. Len(t) /\ t[k0] \in Window
  BY DEF Idx
<1>2. e \in Window /\ e.id = t[k0].id /\ e.number = t[k0].number /\ ~e.alive /\ e.pty = "none"
  BY <1>1 DEF Window
<1>3. Killed(t, i) = [t EXCEPT ![k0] = e]
  BY <1>1 DEF Killed, Window
<1>. HIDE DEF e
<1>4. /\ Killed(t, i) \in Seq(Window)
      /\ Len(Killed(t, i)) = Len(t)
      /\ \A j \in 1 .. Len(t) : Killed(t, i)[j] = IF j = k0 THEN e ELSE t[j]
  BY <1>1, <1>2, <1>3, ExceptSeq
<1>. QED  BY <1>1, <1>2, <1>4 DEF Idx, At

\* What marking the exited leaves.
LEMMA MarkedFacts ==
    ASSUME NEW t \in Seq(Window)
    PROVE  /\ Marked(t) \in Seq(Window)
           /\ Len(Marked(t)) = Len(t)
           /\ \A k \in DOMAIN t : /\ Marked(t)[k].id = t[k].id
                                  /\ Marked(t)[k].pty = t[k].pty
                                  /\ Marked(t)[k].alive <=> t[k].alive /\ t[k].pty # "exited"
<1>. DEFINE row(k) == IF t[k].pty = "exited" THEN [t[k] EXCEPT !.alive = FALSE] ELSE t[k]
<1>1. ASSUME NEW k \in 1 .. Len(t) PROVE row(k) \in Window
  <2>1. t[k] \in Window
    OBVIOUS
  <2>2. [t[k] EXCEPT !.alive = FALSE] \in Window
    BY <2>1 DEF Window
  <2>. QED  BY <2>1, <2>2
<1>2. Marked(t) = [k \in 1 .. Len(t) |-> row(k)]
  BY DEF Marked
<1>. HIDE DEF row
<1>3. Marked(t) \in Seq(Window) /\ Len(Marked(t)) = Len(t)
  BY <1>1, <1>2
<1>4. \A k \in DOMAIN t : Marked(t)[k] = row(k)
  BY <1>2
<1>5. ASSUME NEW k \in DOMAIN t
      PROVE  /\ row(k).id = t[k].id
             /\ row(k).pty = t[k].pty
             /\ row(k).alive <=> t[k].alive /\ t[k].pty # "exited"
  <2>1. t[k] \in Window
    OBVIOUS
  <2>2. CASE t[k].pty = "exited"
    BY <2>1, <2>2 DEF row, Window
  <2>3. CASE t[k].pty # "exited"
    BY <2>3 DEF row
  <2>. QED  BY <2>2, <2>3
<1>. QED  BY <1>3, <1>4, <1>5

\* A number that some window bears has a first bearer.
LEMMA BearerFacts ==
    ASSUME NEW t \in Seq(Window), NEW n \in Numbers(t)
    PROVE  Bearer(t, n) \in Idx(t)
<1>. DEFINE B == {i \in Idx(t) : At(t, i).number = n}
<1>1. B \in SUBSET Nat /\ B # {}
  BY DEF Numbers, Idx
<1>2. PICK i \in B : \A j \in B : i <= j
  <2>. HIDE DEF B
  <2>. QED  BY <1>1, LeastNat
<1>3. i \in First(t) /\ At(t, i).number = n
  BY <1>1, <1>2 DEF First
<1>4. Bearer(t, n) \in First(t)
  BY <1>3 DEF Bearer
<1>. QED  BY <1>4 DEF First

\* What remove_dead_windows leaves: the live rows of the table, in their order.
LEMMA LivingFacts ==
    ASSUME NEW t \in Seq(Window),
           NEW f \in Orders({k \in DOMAIN t : t[k].alive})
    PROVE  LET u == [k \in DOMAIN f |-> t[f[k]]]
           IN  /\ u \in Seq(Window)
               /\ DOMAIN f = 1 .. Len(u)
               /\ \A k \in 1 .. Len(u) : f[k] \in 1 .. Len(t) /\ u[k] = t[f[k]] /\ t[f[k]].alive
               /\ \A j, k \in 1 .. Len(u) : j < k => f[j] < f[k]
               /\ \A p \in 1 .. Len(t) : t[p].alive => \E k \in 1 .. Len(u) : f[k] = p
<1>. DEFINE L == {k \in DOMAIN t : t[k].alive}
            u == [k \in DOMAIN f |-> t[f[k]]]
<1>1. IsFiniteSet(L)
  <2>1. IsFiniteSet(1 .. Len(t))
    BY FS_Interval
  <2>. QED  BY <2>1, FS_Subset
<1>2. Cardinality(L) \in Nat
  BY <1>1, FS_CardinalityType
<1>3. /\ f \in [1 .. Cardinality(L) -> L]
      /\ \A i, j \in DOMAIN f : i < j => f[i] < f[j]
  BY DEF Orders
<1>4. u = [k \in 1 .. Cardinality(L) |-> t[f[k]]]
  BY <1>3
<1>5. \A k \in 1 .. Cardinality(L) : f[k] \in L /\ t[f[k]] \in Window
  BY <1>3
<1>6. u \in Seq(Window) /\ Len(u) = Cardinality(L)
  BY <1>2, <1>4, <1>5, SMTT(20)
<1>7. DOMAIN f = 1 .. Len(u)
  BY <1>3, <1>6
<1>8. \A k \in 1 .. Len(u) : f[k] \in 1 .. Len(t) /\ u[k] = t[f[k]] /\ t[f[k]].alive
  BY <1>5, <1>6, <1>7
<1>9. \A j, k \in 1 .. Len(u) : j < k => f[j] < f[k]
  BY <1>3, <1>7
<1>10. \A p \in 1 .. Len(t) : t[p].alive => \E k \in 1 .. Len(u) : f[k] = p
  <2>1. L \subseteq Nat
    OBVIOUS
  <2>2. \A p \in L : \E k \in DOMAIN f : f[k] = p
    <3>. HIDE DEF u
    <3>. QED  BY <1>1, <2>1, OrdersOnto
  <2>. QED  BY <1>7, <2>2
<1>. HIDE DEF u
<1>. QED  BY <1>6, <1>7, <1>8, <1>9, <1>10 DEF u

\* The dead rows before an index are no more than the index.
LEMMA DeadBeforeBound ==
    ASSUME NEW t \in Seq(Window), NEW i \in Nat
    PROVE  Cardinality(DeadBefore(t, i)) \in 0 .. i
<1>1. IsFiniteSet(0 .. i - 1) /\ Cardinality(0 .. i - 1) = i
  BY FS_Interval
<1>2. DeadBefore(t, i) \in SUBSET (0 .. i - 1)
  BY DEF DeadBefore, Idx
<1>3. IsFiniteSet(DeadBefore(t, i)) /\ Cardinality(DeadBefore(t, i)) <= i
  BY <1>1, <1>2, FS_Subset
<1>. QED  BY <1>3, FS_CardinalityType

-----------------------------------------------------------------------------
(* The effects of a step on the window table. *)

NumbersKept == UNCHANGED <<nextId, nextNumber>>

Selects ==
    /\ NumbersKept /\ UNCHANGED windows
    /\ selected' \in Nat
    /\ \/ selected' \in Idx(windows)
       \/ "regions" \in Features /\ selected' \in {regions[k] : k \in DOMAIN regions}

Pushes == PushWindow /\ selected' \in Idx(windows')

Kills ==
    /\ NumbersKept /\ UNCHANGED selected
    /\ \E k \in Idx(windows) : windows' = Killed(windows, k)

KillsAndDrops ==
    /\ NumbersKept /\ autoNuke /\ phase = "events"
    /\ \E k \in Idx(windows) : DropDead(Killed(windows, k), selected)

Drops == NumbersKept /\ DropDead(windows, selected)

Removes == NumbersKept /\ \E k \in Idx(windows) : RemoveOne(k)

Renumbers == NumbersKept /\ UNCHANGED selected /\ \E n \in RenumberTo : Renumber(n)

Marks ==
    /\ NumbersKept
    /\ \E s \in Idx(windows) \cup {selected} :
          \/ autoNuke /\ DropDead(Marked(windows), s)
          \/ /\ autoNuke => ExitedIdx(windows) = {}
             /\ windows' = Marked(windows) /\ selected' = s

Exits ==
    /\ NumbersKept /\ UNCHANGED selected
    /\ \E i \in Idx(windows) :
          At(windows, i).pty = "running" /\ windows' = [windows EXCEPT ![i + 1].pty = "exited"]

TableStep ==
    \/ UNCHANGED tableVars \/ Selects \/ CreateFails \/ Pushes \/ Kills
    \/ KillsAndDrops \/ Drops \/ Removes \/ Renumbers \/ Marks \/ Exits

\* What First and FirstLive find are indices of the table.
LEMMA FirstIsIndex ==
    ASSUME NEW t
    PROVE  First(t) \subseteq Idx(t) /\ FirstLive(t) \subseteq Idx(t) /\ LiveIdx(t) \subseteq Idx(t)
BY DEF First, FirstLive, LiveIdx

\* A new window's place is in the new table.
LEMMA PushFacts ==
    ASSUME TableType, PushWindow
    PROVE  /\ windows' \in Seq(Window)
           /\ Len(windows') = Len(windows) + 1
           /\ \A k \in 1 .. Len(windows) : windows'[k] = windows[k]
           /\ windows'[Len(windows) + 1].id = nextId
           /\ Len(windows) \in Idx(windows')
<1>. DEFINE w == [id |-> nextId, number |-> nextNumber, alive |-> TRUE, pty |-> "running"]
<1>1. w \in Window
  BY ConstantsAssumption DEF TableType, Window
<1>2. windows' = Append(windows, w) /\ w.id = nextId
  BY DEF PushWindow
<1>. HIDE DEF w
<1>3. /\ windows' \in Seq(Window)
      /\ Len(windows') = Len(windows) + 1
      /\ \A k \in 1 .. Len(windows) : windows'[k] = windows[k]
      /\ windows'[Len(windows) + 1] = w
  BY <1>1, <1>2, AppendProperties DEF TableType
<1>. QED  BY <1>2, <1>3 DEF Idx, TableType

\* An index read from a region is one only while the focus is valid, so types
\* alone are not inductive.
Core == TypeOK /\ FocusValid

\* Taking out the focused region leaves some of the regions.
LEMMA RestOfRegions ==
    ASSUME RegionsType, FocusValid, Len(regions) > 1, NEW U, regions \in Seq(U)
    PROVE  /\ RemoveAt(regions, focus + 1) \in Seq(U)
           /\ Len(RemoveAt(regions, focus + 1)) = Len(regions) - 1
<1>1. focus + 1 \in 1 .. Len(regions)
  BY DEF RegionsType, FocusValid
<1>. QED  BY <1>1, RemoveAtFacts DEF RegionsType

\* Every action has one of these effects on the table.
LEMMA StepOnTable ==
    ASSUME Core, Next
    PROVE  TableStep
<1>. USE FirstIsIndex DEF Core, TypeOK, TableType
<1>. DEFINE Selection == UNCHANGED <<windows, nextId, nextNumber>> /\ selected' \in Idx(windows)
<1>1. ASSUME Selection PROVE TableStep
  BY <1>1 DEF TableStep, Selects, NumbersKept, Idx
<1>2. ASSUME CreateWindow \/ CreateFails PROVE TableStep
  BY <1>2, PushFacts DEF TableStep, CreateWindow, Pushes
<1>3. CASE Poll
  BY <1>3 DEF Poll, PollQuiet, PollHangup, PollShutdown, TableStep
<1>4. CASE Connection
  <2>1. ASSUME NEW multi \in BOOLEAN, Attach(multi) PROVE TableStep
    BY <2>1 DEF Attach, TableStep
  <2>2. CASE ShotDetach \/ ShotShutdown \/ ReplyFails \/ ShotWriteFails
    BY <2>2 DEF ShotDetach, ShotShutdown, ReplyFails, ShotWriteFails, TableStep
  <2>3. CASE ShotCreate
    BY <1>2, <2>3 DEF ShotCreate
  <2>4. CASE ShotSelect
    BY <1>1, <2>4 DEF ShotSelect
  <2>5. CASE ShotNext
    BY <1>1, <2>5, NextIndexIsLive DEF ShotNext
  <2>6. CASE ShotPrev
    BY <1>1, <2>6, PrevIndexIsLive DEF ShotPrev
  <2>7. ASSUME NEW k \in Idx(windows), ShotKill(k) PROVE TableStep
    BY <2>7 DEF ShotKill, TableStep, Kills, NumbersKept
  <2>8. ASSUME NEW k \in Idx(windows), ShotRemove(k) PROVE TableStep
    BY <2>8 DEF ShotRemove, TableStep, Removes, NumbersKept
  <2>9. ASSUME NEW n \in RenumberTo, ShotRenumber(n) PROVE TableStep
    BY <2>9 DEF ShotRenumber, TableStep, Renumbers, NumbersKept
  <2>10. CASE ShotWipe
    BY <2>10 DEF ShotWipe, TableStep, Drops, NumbersKept
  <2>. QED  BY <1>4, <2>1, <2>2, <2>3, <2>4, <2>5, <2>6, <2>7, <2>8, <2>9, <2>10 DEF Connection
<1>5. ASSUME NEW c \in readers, ClientEvent(c) PROVE TableStep
  <2>1. CASE EvSelect(c)
    BY <1>1, <2>1 DEF EvSelect, GoTo
  <2>2. CASE EvNext(c)
    BY <1>1, <2>2, NextIndexIsLive DEF EvNext, GoTo, Listed, ClientsType, Client
  <2>3. CASE EvPrev(c)
    BY <1>1, <2>3, PrevIndexIsLive DEF EvPrev, GoTo, Listed, ClientsType, Client
  <2>4. CASE EvOther(c) \/ EvTell(c) \/ EvInfoPanics(c) \/ EvWriteFails(c) \/ EvDetach(c) \/ EvShutdown(c) \/ EvClick(c)
    BY <2>4 DEF EvOther, EvTell, EvInfoPanics, EvWriteFails, EvDetach, EvShutdown, EvClick, TableStep
  <2>5. CASE EvCreate(c)
    BY <1>2, <2>5, PushFacts DEF EvCreate, TableStep, Pushes
  <2>6. ASSUME NEW k \in Idx(windows), EvKill(c, k) PROVE TableStep
    BY <2>6 DEF EvKill, Event, TableStep, Kills, KillsAndDrops, NumbersKept
  <2>7. ASSUME NEW k \in Idx(windows), EvRemove(c, k) PROVE TableStep
    BY <2>7 DEF EvRemove, TableStep, Removes, NumbersKept
  <2>8. ASSUME NEW n \in RenumberTo, EvRenumber(c, n) PROVE TableStep
    BY <2>8 DEF EvRenumber, TableStep, Renumbers, NumbersKept
  <2>9. CASE EvWipe(c)
    BY <2>9 DEF EvWipe, TableStep, Drops, NumbersKept
  <2>10. CASE EvSplit(c) \/ EvOnly(c)
    BY <2>10 DEF EvSplit, EvOnly, TableStep
  <2>11. CASE EvRemoveRegion(c)
    <3>. DEFINE rest == RemoveAt(regions, focus + 1)
                U    == {regions[k] : k \in DOMAIN regions}
    <3>1. rest \in Seq(U) /\ (Len(rest) = 1 => At(rest, 0) \in U) /\ U \subseteq Nat
      <4>1. regions \in Seq(U) /\ U \subseteq Nat
        BY DEF RegionsType
      <4>2. Len(regions) > 1
        BY <2>11 DEF EvRemoveRegion, FocusedRemoved
      <4>3. rest \in Seq(U)
        <5>. HIDE DEF U
        <5>. QED  BY <4>1, <4>2, RestOfRegions
      <4>. HIDE DEF U, rest
      <4>. QED  BY <4>1, <4>3 DEF At
    <3>. HIDE DEF rest
    <3>2. UNCHANGED tableVars \/ (selected' = At(rest, 0) /\ Len(rest) = 1)
      BY <2>11 DEF EvRemoveRegion, rest, tableVars
    <3>3. UNCHANGED <<windows, nextId, nextNumber>> /\ "regions" \in Features
      BY <2>11 DEF EvRemoveRegion, RegionEvent
    <3>4. UNCHANGED tableVars \/ selected' \in U
      <4>. HIDE DEF U
      <4>. QED  BY <3>1, <3>2
    <3>. QED  BY <3>1, <3>3, <3>4 DEF TableStep, Selects, NumbersKept
  <2>12. CASE EvFocus(c)
    <3>1. focus' \in Nat /\ focus' < Len(regions)
      BY <2>12 DEF EvFocus, RegionsType, FocusValid
    <3>2. selected' \in Nat /\ selected' \in {regions[k] : k \in DOMAIN regions}
      BY <2>12, <3>1 DEF EvFocus, RegionsType, At
    <3>. QED  BY <2>12, <3>2 DEF EvFocus, RegionEvent, TableStep, Selects, NumbersKept
  <2>. QED  BY <1>5, <2>1, <2>2, <2>3, <2>4, <2>5, <2>6, <2>7, <2>8, <2>9, <2>10, <2>11, <2>12
            DEF ClientEvent
<1>6. CASE Command
  <2>1. CASE CmdSelect
    BY <1>1, <2>1 DEF CmdSelect
  <2>2. CASE CmdNext
    BY <1>1, <2>2, NextIndexIsLive DEF CmdNext
  <2>3. CASE CmdPrev
    BY <1>1, <2>3, PrevIndexIsLive DEF CmdPrev
  <2>4. CASE CmdCreate \/ CmdSplit
    BY <1>2, <2>4 DEF CmdCreate, CmdSplit
  <2>5. CASE CmdKill
    BY <2>5 DEF CmdKill, TableStep, Kills, NumbersKept
  <2>6. CASE CmdRemove \/ CmdOnly \/ CmdFocus \/ CmdLayoutSave \/ CmdLayoutLoad \/ CmdLayoutRemove
             \/ CmdMaxwin \/ CmdAutoNuke \/ CmdQuit
    BY <2>6 DEF CmdRemove, CmdOnly, CmdFocus, CmdLayoutSave, CmdLayoutLoad, CmdLayoutRemove,
                CmdMaxwin, CmdAutoNuke, CmdQuit, TableStep
  <2>. QED  BY <1>6, <2>1, <2>2, <2>3, <2>4, <2>5, <2>6 DEF Command
<1>7. CASE Pass
  <2>1. CASE EndAccept \/ EndEvents \/ PollOutput
    BY <2>1 DEF EndAccept, EndEvents, PollOutput, TableStep
  <2>2. CASE CheckExits
    <3>. DEFINE gone   == ExitedIdx(windows)
                marked == Marked(windows)
                shown  == IF selected \in gone /\ LiveIdx(marked) # {}
                          THEN NextIndex(marked, selected) ELSE selected
    <3>1. marked \in Seq(Window) /\ Idx(marked) = Idx(windows)
      BY MarkedFacts DEF Idx
    <3>2. shown \in Idx(windows) \cup {selected}
      BY <3>1, NextIndexIsLive
    <3>3. \/ autoNuke /\ DropDead(marked, shown)
          \/ (autoNuke => gone = {}) /\ windows' = marked /\ selected' = shown
      BY <2>2 DEF CheckExits
    <3>4. NumbersKept
      BY <2>2 DEF CheckExits, NumbersKept
    <3>. HIDE DEF shown
    <3>. QED  BY <3>2, <3>3, <3>4 DEF TableStep, Marks
  <2>. QED  BY <1>7, <2>1, <2>2 DEF Pass
<1>8. ASSUME NEW i \in Idx(windows), ChildExit(i) PROVE TableStep
  BY <1>8 DEF ChildExit, TableStep, Exits, NumbersKept
<1>. QED  BY <1>3, <1>4, <1>5, <1>6, <1>7, <1>8 DEF Next

-----------------------------------------------------------------------------
(* What each effect leaves of the table's type, its order, and the session's *)
(* own index.                                                                *)

InTable(i, t) == i \in Idx(t) \cup {0}

\* The updates that keep every row's id keep the order.
LEMMA SameIdsOrdered ==
    ASSUME NEW t \in Seq(Window), NEW u \in Seq(Window), NEW n \in Nat, Len(u) = Len(t),
           \A k \in 1 .. Len(t) : u[k].id = t[k].id,
           OrderedBelow(t, n)
    PROVE  OrderedBelow(u, n)
<1>1. Idx(u) = Idx(t)
  BY DEF Idx
<1>2. \A i \in Idx(t) : At(u, i).id = At(t, i).id
  BY DEF Idx, At
<1>. QED  BY <1>1, <1>2 DEF OrderedBelow

\* The order does not depend on how far above the ids the next one is.
LEMMA OrderedBelowMore ==
    ASSUME NEW t \in Seq(Window), NEW n \in Nat, NEW m \in Nat, n < m, OrderedBelow(t, n)
    PROVE  OrderedBelow(t, m)
<1>1. \A i \in Idx(t) : At(t, i) \in Window
  BY IndexFacts
<1>2. \A i \in Idx(t) : At(t, i).id \in Nat
  BY <1>1 DEF Window
<1>. QED  BY <1>2 DEF OrderedBelow

\* remove_dead_windows keeps the type and the order, and mends the selection.
LEMMA DropFacts ==
    ASSUME NEW t \in Seq(Window), NEW s \in Nat, DropDead(t, s)
    PROVE  /\ windows' \in Seq(Window)
           /\ selected' \in Nat /\ InTable(selected', windows')
           /\ \A n \in Nat : OrderedBelow(t, n) => OrderedBelow(windows', n)
<1>1. PICK f \in Orders({k \in DOMAIN t : t[k].alive}) : windows' = [k \in DOMAIN f |-> t[f[k]]]
  BY DEF DropDead
<1>2. /\ windows' \in Seq(Window)
      /\ \A k \in 1 .. Len(windows') : f[k] \in 1 .. Len(t) /\ windows'[k] = t[f[k]]
      /\ \A j, k \in 1 .. Len(windows') : j < k => f[j] < f[k]
  BY <1>1, LivingFacts
<1>3. selected' \in Nat /\ InTable(selected', windows')
  <2>1. Cardinality(DeadBefore(t, s)) \in 0 .. s
    BY DeadBeforeBound
  <2>. QED  BY <1>2, <2>1 DEF DropDead, Lesser, SatSub, InTable, Idx
<1>4. ASSUME NEW n \in Nat, OrderedBelow(t, n) PROVE OrderedBelow(windows', n)
  <2>1. \A k \in 1 .. Len(windows') : f[k] - 1 \in Idx(t) /\ At(t, f[k] - 1) = windows'[k]
    BY <1>2 DEF Idx, At
  <2>2. \A i \in Idx(windows') : /\ i + 1 \in 1 .. Len(windows')
                                 /\ f[i + 1] - 1 \in Idx(t)
                                 /\ At(windows', i) = At(t, f[i + 1] - 1)
    BY <1>2, <2>1 DEF Idx, At
  <2>3. \A i, j \in Idx(windows') : i < j => f[i + 1] - 1 < f[j + 1] - 1
    BY <1>2, <2>2 DEF Idx
  <2>. QED  BY <1>4, <2>2, <2>3 DEF OrderedBelow
<1>. QED  BY <1>2, <1>3, <1>4

\* remove_window keeps them too; it leaves an index that was in the table in it.
LEMMA RemoveFacts ==
    ASSUME TableType, NEW k \in Idx(windows), RemoveOne(k)
    PROVE  /\ windows' \in Seq(Window)
           /\ selected' \in Nat
           /\ InTable(selected, windows) => InTable(selected', windows')
           /\ \A n \in Nat : OrderedBelow(windows, n) => OrderedBelow(windows', n)
<1>1. /\ windows' \in Seq(Window)
      /\ Len(windows') = Len(windows) - 1
      /\ \A j \in 1 .. Len(windows) - 1 :
            windows'[j] = windows[IF j < k + 1 THEN j ELSE j + 1]
  BY RemoveAtFacts, SMTT(20) DEF RemoveOne, TableType, Idx
<1>2. selected' \in Nat /\ (InTable(selected, windows) => InTable(selected', windows'))
  BY <1>1 DEF RemoveOne, InTable, Idx, Lesser, TableType
<1>3. ASSUME NEW n \in Nat, OrderedBelow(windows, n) PROVE OrderedBelow(windows', n)
  <2>. DEFINE from(i) == IF i < k THEN i ELSE i + 1
  <2>1. \A i \in Idx(windows') : from(i) \in Idx(windows) /\ At(windows', i) = At(windows, from(i))
    BY <1>1 DEF Idx, At, TableType
  <2>2. \A i, j \in Idx(windows') : i < j => from(i) < from(j)
    BY <1>1 DEF Idx
  <2>. HIDE DEF from
  <2>. QED  BY <1>3, <2>1, <2>2 DEF OrderedBelow
<1>. QED  BY <1>1, <1>2, <1>3

\* The table's part of the invariant.
TableInv == TableType /\ IdsOrdered /\ SelectedInRange

\* Each effect on the table preserves it.
LEMMA TableInvStep ==
    ASSUME TableInv, TableStep
    PROVE  TableInv'
<1>. USE ConstantsAssumption DEF TableInv, TableType, IdsOrdered
<1>1. nextId \in Nat
  OBVIOUS
<1>2. CASE UNCHANGED tableVars
  BY <1>2 DEF tableVars, SelectedInRange
<1>3. CASE Selects
  BY <1>3 DEF Selects, NumbersKept, SelectedInRange
<1>4. CASE CreateFails
  <2>1. CASE UNCHANGED <<nextId, nextNumber>>
    BY <1>4, <2>1 DEF CreateFails, SelectedInRange
  <2>2. CASE TakeNumbers
    <3>1. nextId' \in 1 .. MaxIds + 1 /\ nextNumber' \in Nat /\ nextId < nextId'
      BY <2>2 DEF TakeNumbers
    <3>2. OrderedBelow(windows, nextId')
      BY <3>1, OrderedBelowMore
    <3>. QED  BY <1>4, <3>1, <3>2 DEF CreateFails, SelectedInRange
  <2>. QED  BY <1>4, <2>1, <2>2 DEF CreateFails
<1>5. CASE Pushes
  <2>1. nextId' \in 1 .. MaxIds + 1 /\ nextNumber' \in Nat /\ nextId' = nextId + 1
    BY <1>5 DEF Pushes, PushWindow, TakeNumbers
  <2>2. /\ windows' \in Seq(Window)
        /\ Len(windows') = Len(windows) + 1
        /\ \A k \in 1 .. Len(windows) : windows'[k] = windows[k]
        /\ windows'[Len(windows) + 1].id = nextId
    BY <1>5, PushFacts DEF Pushes
  <2>3. OrderedBelow(windows', nextId')
    <3>1. \A i \in Idx(windows) : At(windows', i).id = At(windows, i).id
      BY <2>2 DEF Idx, At
    <3>2. \A i \in Idx(windows) : At(windows, i).id \in Nat /\ At(windows, i).id < nextId
      <4>1. \A i \in Idx(windows) : At(windows, i) \in Window
        BY IndexFacts
      <4>. QED  BY <4>1 DEF OrderedBelow, Window
    <3>3. At(windows', Len(windows)).id = nextId
      BY <2>2 DEF At
    <3>4. Idx(windows') = Idx(windows) \cup {Len(windows)} /\ \A i \in Idx(windows) : i < Len(windows)
      BY <2>2 DEF Idx
    <3>5. \A i \in Idx(windows') : At(windows', i).id < nextId'
      BY <2>1, <3>1, <3>2, <3>3, <3>4
    <3>6. ASSUME NEW i \in Idx(windows'), NEW j \in Idx(windows'), i < j
          PROVE  At(windows', i).id < At(windows', j).id
      <4>1. i \in Idx(windows)
        BY <2>2, <3>6 DEF Idx
      <4>. QED  BY <3>1, <3>2, <3>3, <3>4, <3>6, <4>1 DEF OrderedBelow
    <3>. QED  BY <3>5, <3>6 DEF OrderedBelow
  <2>. QED  BY <1>5, <2>1, <2>2, <2>3 DEF Pushes, SelectedInRange, Idx
<1>6. CASE Kills
  BY <1>6, KilledFacts, SMTT(20) DEF Kills, NumbersKept, OrderedBelow, SelectedInRange, Idx
<1>7. CASE KillsAndDrops
  <2>1. PICK k \in Idx(windows) : DropDead(Killed(windows, k), selected)
    BY <1>7 DEF KillsAndDrops
  <2>2. Killed(windows, k) \in Seq(Window) /\ OrderedBelow(Killed(windows, k), nextId)
    BY KilledFacts DEF OrderedBelow, Idx
  <2>. QED  BY <1>7, <2>1, <2>2, DropFacts DEF KillsAndDrops, NumbersKept, SelectedInRange, InTable
<1>8. CASE Drops
  BY <1>8, DropFacts DEF Drops, NumbersKept, SelectedInRange, InTable
<1>9. CASE Removes
  BY <1>9, RemoveFacts DEF Removes, NumbersKept, SelectedInRange, InTable
<1>10. CASE Renumbers
  <2>1. PICK n \in RenumberTo : Renumber(n)
    BY <1>10 DEF Renumbers
  <2>. DEFINE row == [windows[selected + 1] EXCEPT !.number = n]
  <2>2. selected + 1 \in 1 .. Len(windows) /\ windows[selected + 1] \in Window
    BY <2>1 DEF Renumber, Idx
  <2>3. row \in Window /\ row.id = windows[selected + 1].id
    BY <2>2 DEF Window
  <2>4. windows' = [windows EXCEPT ![selected + 1] = row]
    BY <2>1, <2>2 DEF Renumber
  <2>. HIDE DEF row
  <2>5. /\ windows' \in Seq(Window) /\ Len(windows') = Len(windows)
        /\ \A j \in 1 .. Len(windows) : windows'[j].id = windows[j].id
    BY <2>2, <2>3, <2>4, ExceptSeq
  <2>6. OrderedBelow(windows', nextId)
    BY <2>5, SameIdsOrdered
  <2>. QED  BY <1>10, <2>5, <2>6 DEF Renumbers, NumbersKept, SelectedInRange, Idx
<1>11. CASE Marks
  <2>1. PICK s \in Idx(windows) \cup {selected} :
           DropDead(Marked(windows), s) \/ (windows' = Marked(windows) /\ selected' = s)
    BY <1>11 DEF Marks
  <2>2. s \in Nat /\ (SelectedInRange => InTable(s, windows) \/ "regions" \in Features)
    BY DEF Idx, InTable, SelectedInRange
  <2>3. /\ Marked(windows) \in Seq(Window) /\ Len(Marked(windows)) = Len(windows)
        /\ OrderedBelow(Marked(windows), nextId)
    BY MarkedFacts, SameIdsOrdered
  <2>4. CASE DropDead(Marked(windows), s)
    BY <1>11, <2>2, <2>3, <2>4, DropFacts DEF Marks, NumbersKept, SelectedInRange, InTable
  <2>5. CASE windows' = Marked(windows) /\ selected' = s
    BY <1>11, <2>2, <2>3, <2>5 DEF Marks, NumbersKept, SelectedInRange, InTable, Idx
  <2>. QED  BY <2>1, <2>4, <2>5
<1>12. CASE Exits
  <2>1. PICK i \in Idx(windows) : windows' = [windows EXCEPT ![i + 1].pty = "exited"]
    BY <1>12 DEF Exits
  <2>. DEFINE row == [windows[i + 1] EXCEPT !.pty = "exited"]
  <2>2. i + 1 \in 1 .. Len(windows) /\ windows[i + 1] \in Window
    BY DEF Idx
  <2>3. row \in Window /\ row.id = windows[i + 1].id
    BY <2>2 DEF Window
  <2>4. windows' = [windows EXCEPT ![i + 1] = row]
    BY <2>1, <2>2
  <2>. HIDE DEF row
  <2>5. /\ windows' \in Seq(Window) /\ Len(windows') = Len(windows)
        /\ \A j \in 1 .. Len(windows) : windows'[j].id = windows[j].id
    BY <2>2, <2>3, <2>4, ExceptSeq
  <2>6. OrderedBelow(windows', nextId)
    BY <2>5, SameIdsOrdered
  <2>. QED  BY <1>12, <2>5, <2>6 DEF Exits, NumbersKept, SelectedInRange, Idx
<1>. QED  BY <1>2, <1>3, <1>4, <1>5, <1>6, <1>7, <1>8, <1>9, <1>10, <1>11, <1>12 DEF TableStep

-----------------------------------------------------------------------------
(* The effects of a step on the client list: it shrinks or is rewritten in  *)
(* place, a client attaches, or a reader's Detach arrives.                  *)

\* A list of some of the clients, whose indices are in U.
View(U) == [selected : U, last : U]
Within(cs, U) == DOMAIN cs \subseteq DOMAIN clients /\ cs \in [DOMAIN cs -> View(U)]

Rewrites(U) == Within(clients', U) /\ UNCHANGED <<readers, nextClient>>

ClientStep(U) ==
    \/ Rewrites(U)
    \/ \E multi \in BOOLEAN : Attach(multi)
    \/ \E c \in readers : EvDetach(c)

\* What the helpers on client lists return is such a list.
LEMMA WithoutFacts ==
    ASSUME NEW U, NEW cs, Within(cs, U), NEW gone
    PROVE  Within(Without(cs, gone), U)
BY DEF Within, Without

LEMMA ViewingFacts ==
    ASSUME NEW U, Within(clients, U), NEW c \in DOMAIN clients, NEW i \in U
    PROVE  Within(Viewing(c, i), U)
<1>1. [selected |-> i, last |-> clients[c].selected] \in View(U)
  BY DEF Within, View
<1>. QED  BY <1>1 DEF Within, Viewing

LEMMA MoveViewersFacts ==
    ASSUME NEW t \in Seq(Window), NEW U \in SUBSET Nat, Idx(t) \subseteq U,
           NEW cs, Within(cs, U), NEW gone
    PROVE  Within(MoveViewers(cs, t, gone), U)
<1>. DEFINE to(c) == [cs[c] EXCEPT !.selected = NextIndex(t, cs[c].selected)]
<1>1. ASSUME NEW c \in DOMAIN cs, LiveIdx(t) # {} PROVE to(c) \in View(U)
  <2>1. cs[c] \in View(U)
    BY DEF Within
  <2>2. NextIndex(t, cs[c].selected) \in U
    <3>1. cs[c].selected \in Nat
      BY <2>1 DEF View
    <3>2. NextIndex(t, cs[c].selected) \in LiveIdx(t)
      BY <1>1, <3>1, NextIndexIsLive
    <3>. QED  BY <3>2 DEF LiveIdx
  <2>. QED  BY <2>1, <2>2 DEF View
<1>2. \A c \in DOMAIN cs :
         (IF cs[c].selected \in gone /\ LiveIdx(t) # {} THEN to(c) ELSE cs[c]) \in View(U)
  BY <1>1 DEF Within
<1>. HIDE DEF to
<1>. QED  BY <1>2 DEF Within, MoveViewers, to

LEMMA BroadcastFacts ==
    ASSUME NEW U, Within(clients, U), Broadcast(clients)
    PROVE  Within(clients', U)
BY WithoutFacts DEF Broadcast

\* Every action has one of these effects on the client list, and moves clients
\* only to indices of the table, the session's, or those they had.
LEMMA StepOnClients ==
    ASSUME Core, TableType', Next, NEW U \in SUBSET Nat, Within(clients, U),
           Idx(windows) \subseteq U, Idx(windows') \subseteq U
    PROVE  ClientStep(U)
<1>. USE DEF Core, TypeOK
<1>1. Within(clients, U)
  OBVIOUS
<1>2. ASSUME UNCHANGED clientVars PROVE ClientStep(U)
  BY <1>1, <1>2 DEF ClientStep, Rewrites, clientVars
<1>3. ASSUME UNCHANGED <<readers, nextClient>>, clients' = NoClients PROVE ClientStep(U)
  BY <1>3 DEF ClientStep, Rewrites, Within, NoClients
<1>4. ASSUME UNCHANGED <<readers, nextClient>>, Broadcast(clients) PROVE ClientStep(U)
  BY <1>4, BroadcastFacts DEF ClientStep, Rewrites
<1>5. CASE Poll
  BY <1>2, <1>3, <1>5 DEF Poll, PollQuiet, PollHangup, PollShutdown
<1>6. CASE Connection
  <2>1. ASSUME NEW multi \in BOOLEAN, Attach(multi) PROVE ClientStep(U)
    BY <2>1 DEF ClientStep
  <2>2. CASE ShotDetach
    BY <1>3, <2>2 DEF ShotDetach
  <2>3. ASSUME NEW k \in Idx(windows), ShotKill(k) PROVE ClientStep(U)
    BY <1>4, <2>3 DEF ShotKill
  <2>4. CASE ShotShutdown \/ ShotCreate \/ ShotSelect \/ ShotNext \/ ShotPrev
             \/ ShotWipe \/ ReplyFails \/ ShotWriteFails
    BY <1>2, <2>4 DEF ShotShutdown, ShotCreate, ShotSelect, ShotNext, ShotPrev,
                      ShotWipe, ReplyFails, ShotWriteFails
  <2>5. ASSUME NEW k \in Idx(windows), ShotRemove(k) PROVE ClientStep(U)
    BY <1>2, <2>5 DEF ShotRemove
  <2>6. ASSUME NEW n \in RenumberTo, ShotRenumber(n) PROVE ClientStep(U)
    BY <1>2, <2>6 DEF ShotRenumber
  <2>. QED  BY <1>6, <2>1, <2>2, <2>3, <2>4, <2>5, <2>6 DEF Connection
<1>7. ASSUME NEW c \in readers, ClientEvent(c) PROVE ClientStep(U)
  <2>1. ASSUME UNCHANGED <<readers, nextClient>>, c \in DOMAIN clients,
               NEW i \in U, clients' = Viewing(c, i)
        PROVE  ClientStep(U)
    BY <2>1, ViewingFacts DEF ClientStep, Rewrites
  <2>2. Idx(windows) \subseteq U
    OBVIOUS
  <2>3. CASE EvSelect(c)
    BY <2>1, <2>2, <2>3, FirstIsIndex DEF EvSelect, Listed, GoTo
  <2>4. c \in DOMAIN clients => clients[c] \in View(U)
    BY DEF Within
  <2>5. CASE EvNext(c)
    <3>1. NextIndex(windows, clients[c].selected) \in U
      BY <2>2, <2>4, <2>5, NextIndexIsLive, FirstIsIndex DEF EvNext, Listed, TableType, View
    <3>. QED  BY <2>1, <2>5, <3>1 DEF EvNext, Listed, GoTo
  <2>6. CASE EvPrev(c)
    <3>1. PrevIndex(windows, clients[c].selected) \in U
      BY <2>2, <2>4, <2>6, PrevIndexIsLive, FirstIsIndex DEF EvPrev, Listed, TableType, View
    <3>. QED  BY <2>1, <2>6, <3>1 DEF EvPrev, Listed, GoTo
  <2>7. CASE EvOther(c)
    BY <2>1, <2>4, <2>7 DEF EvOther, Listed, View
  <2>8. CASE EvCreate(c)
    <3>1. ASSUME NEW i \in U, c \in DOMAIN clients, SendTo(Viewing(c, i), c) PROVE Within(clients', U)
      BY <3>1, ViewingFacts, WithoutFacts DEF SendTo
    <3>2. ASSUME SendTo(clients, c) PROVE Within(clients', U)
      BY <1>1, <3>2, WithoutFacts DEF SendTo
    <3>3. Idx(windows') \subseteq U
      OBVIOUS
    <3>. QED  BY <1>1, <2>8, <3>1, <3>2, <3>3, FirstIsIndex DEF EvCreate, ClientStep, Rewrites
  <2>9. ASSUME NEW k \in Idx(windows), EvKill(c, k) PROVE ClientStep(U)
    <3>1. PICK gone \in SUBSET DOMAIN clients :
             clients' = MoveViewers(Without(clients, gone), windows',
                           {i \in First(windows') : At(windows', i).number = At(windows, k).number})
      BY <2>9 DEF EvKill
    <3>2. Within(clients', U)
      BY <1>1, <3>1, WithoutFacts, MoveViewersFacts DEF TableType
    <3>. QED  BY <2>9, <3>2 DEF EvKill, ClientStep, Rewrites
  <2>10. CASE EvDetach(c)
    BY <2>10 DEF ClientStep
  <2>11. CASE EvClick(c)
    <3>1. PICK i \in FirstLive(windows), gone \in SUBSET DOMAIN clients :
             clients' = Without([d \in DOMAIN clients |-> [selected |-> i, last |-> clients[d].selected]], gone)
      BY <2>11 DEF EvClick
    <3>2. Within([d \in DOMAIN clients |-> [selected |-> i, last |-> clients[d].selected]], U)
      BY <2>2, FirstIsIndex DEF Within, View
    <3>3. Within(clients', U)
      BY <3>1, <3>2, WithoutFacts
    <3>. QED  BY <2>11, <3>3 DEF EvClick, ClientStep, Rewrites
  <2>12. CASE EvTell(c) \/ EvSplit(c) \/ EvRemoveRegion(c) \/ EvOnly(c) \/ EvFocus(c)
    BY <1>4, <2>12 DEF EvTell, EvSplit, EvRemoveRegion, EvOnly, EvFocus
  <2>13. CASE EvWipe(c) \/ EvInfoPanics(c) \/ EvWriteFails(c) \/ EvShutdown(c)
    BY <1>2, <2>13 DEF EvWipe, EvInfoPanics, EvWriteFails, EvShutdown
  <2>14. ASSUME NEW k \in Idx(windows), EvRemove(c, k) PROVE ClientStep(U)
    BY <1>2, <2>14 DEF EvRemove
  <2>15. ASSUME NEW n \in RenumberTo, EvRenumber(c, n) PROVE ClientStep(U)
    BY <1>2, <2>15 DEF EvRenumber
  <2>. QED  BY <1>7, <2>3, <2>5, <2>6, <2>7, <2>8, <2>9, <2>10, <2>11, <2>12, <2>13, <2>14, <2>15
            DEF ClientEvent
<1>8. CASE Command
  <2>1. CASE CmdKill
    BY <1>2, <1>4, <2>1 DEF CmdKill, clientVars
  <2>2. CASE CmdSelect \/ CmdNext \/ CmdPrev \/ CmdCreate \/ CmdSplit \/ CmdRemove \/ CmdOnly
             \/ CmdFocus \/ CmdLayoutSave \/ CmdLayoutLoad \/ CmdLayoutRemove
             \/ CmdMaxwin \/ CmdAutoNuke \/ CmdQuit
    BY <1>2, <2>2 DEF CmdSelect, CmdNext, CmdPrev, CmdCreate, CmdSplit, CmdRemove, CmdOnly,
                      CmdFocus, CmdLayoutSave, CmdLayoutLoad, CmdLayoutRemove, CmdMaxwin, CmdAutoNuke, CmdQuit
  <2>. QED  BY <1>8, <2>1, <2>2 DEF Command
<1>9. CASE Pass
  <2>1. CASE EndAccept \/ EndEvents
    BY <1>2, <2>1 DEF EndAccept, EndEvents
  <2>2. CASE PollOutput
    BY <1>2, <1>4, <2>2 DEF PollOutput, clientVars
  <2>3. CASE CheckExits
    <3>1. PICK lost \in SUBSET DOMAIN clients :
             clients' = MoveViewers(Without(clients, lost), Marked(windows), ExitedIdx(windows))
      BY <2>3 DEF CheckExits
    <3>2. Within(clients', U)
      <4>1. Marked(windows) \in Seq(Window) /\ Idx(Marked(windows)) \subseteq U
        BY MarkedFacts DEF TableType, Idx
      <4>. QED  BY <1>1, <3>1, <4>1, WithoutFacts, MoveViewersFacts
    <3>. QED  BY <2>3, <3>2 DEF CheckExits, ClientStep, Rewrites
  <2>. QED  BY <1>9, <2>1, <2>2, <2>3 DEF Pass
<1>10. ASSUME NEW i \in Idx(windows), ChildExit(i) PROVE ClientStep(U)
  BY <1>2, <1>10 DEF ChildExit
<1>. QED  BY <1>5, <1>6, <1>7, <1>8, <1>9, <1>10 DEF Next

\* The clients' part of the invariant, which each effect preserves.
ClientInv == ClientsType /\ AttachedHasReader

LEMMA ClientInvStep ==
    ASSUME TableType, ClientInv, ClientStep(Nat)
    PROVE  ClientInv'
<1>. USE ConstantsAssumption DEF ClientInv, ClientsType, AttachedHasReader
<1>1. CASE Rewrites(Nat)
  BY <1>1 DEF Rewrites, Within, View, Client
<1>2. ASSUME NEW multi \in BOOLEAN, Attach(multi) PROVE ClientInv'
  <2>. DEFINE kept == IF multi THEN clients ELSE NoClients
              first == [selected |-> selected, last |-> selected]
  <2>1. DOMAIN kept \subseteq DOMAIN clients /\ kept \in [DOMAIN kept -> Client]
    BY DEF NoClients
  <2>2. first \in Client
    BY DEF TableType, Client
  <2>3. /\ clients' = [c \in DOMAIN kept \cup {nextClient} |-> IF c = nextClient THEN first ELSE kept[c]]
        /\ readers' = readers \cup {nextClient}
        /\ nextClient' = nextClient + 1 /\ nextClient <= MaxClients
    BY <1>2 DEF Attach
  <2>. HIDE DEF kept, first
  <2>4. /\ DOMAIN clients' = DOMAIN kept \cup {nextClient}
        /\ clients' \in [DOMAIN clients' -> Client]
    BY <2>1, <2>2, <2>3
  <2>. QED  BY <2>1, <2>3, <2>4
<1>3. ASSUME NEW c \in readers, EvDetach(c) PROVE ClientInv'
  BY <1>3 DEF EvDetach, Without
<1>. QED  BY <1>1, <1>2, <1>3 DEF ClientStep

-----------------------------------------------------------------------------
(* The regions: eleven operations touch them or the layouts.          *)

RegionInv == RegionsType /\ FocusValid

RegionStep ==
    \/ UNCHANGED regionVars
    \/ \E c \in readers : EvSplit(c) \/ EvRemoveRegion(c) \/ EvOnly(c) \/ EvFocus(c)
    \/ CmdSplit \/ CmdRemove \/ CmdOnly \/ CmdFocus
    \/ CmdLayoutSave \/ CmdLayoutLoad \/ CmdLayoutRemove

\* No other operation touches them.
LEMMA StepOnRegions ==
    ASSUME Next
    PROVE  RegionStep
<1>1. ASSUME UNCHANGED regionVars PROVE RegionStep
  BY <1>1 DEF RegionStep
<1>2. CASE Poll
  BY <1>1, <1>2 DEF Poll, PollQuiet, PollHangup, PollShutdown
<1>3. CASE Connection
  <2>1. ASSUME NEW multi \in BOOLEAN, Attach(multi) PROVE RegionStep
    BY <1>1, <2>1 DEF Attach
  <2>2. CASE ShotDetach \/ ShotShutdown \/ ShotCreate \/ ShotSelect \/ ShotNext \/ ShotPrev
             \/ ShotWipe \/ ReplyFails \/ ShotWriteFails
    BY <1>1, <2>2 DEF ShotDetach, ShotShutdown, ShotCreate, ShotSelect, ShotNext, ShotPrev,
                      ShotWipe, ReplyFails, ShotWriteFails
  <2>3. ASSUME NEW k \in Idx(windows), ShotKill(k) \/ ShotRemove(k) PROVE RegionStep
    BY <1>1, <2>3 DEF ShotKill, ShotRemove
  <2>4. ASSUME NEW n \in RenumberTo, ShotRenumber(n) PROVE RegionStep
    BY <1>1, <2>4 DEF ShotRenumber
  <2>. QED  BY <1>3, <2>1, <2>2, <2>3, <2>4 DEF Connection
<1>4. ASSUME NEW c \in readers, ClientEvent(c) PROVE RegionStep
  <2>1. CASE EvSelect(c) \/ EvNext(c) \/ EvPrev(c) \/ EvOther(c) \/ EvCreate(c) \/ EvWipe(c) \/ EvTell(c)
    BY <1>1, <2>1 DEF EvSelect, EvNext, EvPrev, EvOther, EvCreate, EvWipe, EvTell
  <2>2. CASE EvInfoPanics(c) \/ EvWriteFails(c) \/ EvDetach(c) \/ EvShutdown(c) \/ EvClick(c)
    BY <1>1, <2>2 DEF EvInfoPanics, EvWriteFails, EvDetach, EvShutdown, EvClick
  <2>3. ASSUME NEW k \in Idx(windows), EvKill(c, k) \/ EvRemove(c, k) PROVE RegionStep
    BY <1>1, <2>3 DEF EvKill, EvRemove
  <2>4. ASSUME NEW n \in RenumberTo, EvRenumber(c, n) PROVE RegionStep
    BY <1>1, <2>4 DEF EvRenumber
  <2>5. CASE EvSplit(c) \/ EvRemoveRegion(c) \/ EvOnly(c) \/ EvFocus(c)
    BY <2>5 DEF RegionStep
  <2>. QED  BY <1>4, <2>1, <2>2, <2>3, <2>4, <2>5 DEF ClientEvent
<1>5. CASE Command
  <2>1. CASE CmdSplit \/ CmdRemove \/ CmdOnly \/ CmdFocus
             \/ CmdLayoutSave \/ CmdLayoutLoad \/ CmdLayoutRemove
    BY <2>1 DEF RegionStep
  <2>2. CASE CmdSelect \/ CmdNext \/ CmdPrev \/ CmdCreate \/ CmdKill
             \/ CmdMaxwin \/ CmdAutoNuke \/ CmdQuit
    BY <1>1, <2>2 DEF CmdSelect, CmdNext, CmdPrev, CmdCreate, CmdKill,
                      CmdMaxwin, CmdAutoNuke, CmdQuit
  <2>. QED  BY <1>5, <2>1, <2>2 DEF Command
<1>6. CASE Pass
  BY <1>1, <1>6 DEF Pass, EndAccept, EndEvents, PollOutput, CheckExits
<1>7. ASSUME NEW i \in Idx(windows), ChildExit(i) PROVE RegionStep
  BY <1>1, <1>7 DEF ChildExit
<1>. QED  BY <1>2, <1>3, <1>4, <1>5, <1>6, <1>7 DEF Next

\* regions.remove with the clamp of the focus: the focus stays on a region.
LEMMA FocusedRemovedFacts ==
    ASSUME RegionInv, FocusedRemoved, NEW U, regions \in Seq(U)
    PROVE  /\ focus' \in Nat /\ focus' < Len(regions) - 1
           /\ RemoveAt(regions, focus + 1) \in Seq(U)
           /\ Len(RemoveAt(regions, focus + 1)) = Len(regions) - 1
<1>1. Len(regions) > 1
  BY DEF FocusedRemoved
<1>2. focus' \in Nat /\ focus' < Len(regions) - 1
  BY <1>1 DEF FocusedRemoved, RegionInv, RegionsType, FocusValid, Lesser, SatSub
<1>. QED  BY <1>1, <1>2, RestOfRegions DEF RegionInv

\* Each operation on the regions preserves their part of the invariant, and
\* puts into them only indices of the table, the session's, 0, or those in them.
RegionsWithin(U) == regions \in Seq(U) /\ saved \in Seq(U)

LEMMA RegionInvStep ==
    ASSUME TableType, TableType', RegionInv, RegionStep,
           NEW U \in SUBSET Nat, {0, selected} \subseteq U,
           Idx(windows) \subseteq U, Idx(windows') \subseteq U, RegionsWithin(U)
    PROVE  RegionInv' /\ RegionsWithin(U)'
<1>. USE DEF RegionInv, RegionsType, FocusValid, RegionsWithin
<1>1. CASE UNCHANGED regionVars
  BY <1>1 DEF regionVars
<1>2. ASSUME NEW c \in readers, EvSplit(c) PROVE RegionInv' /\ RegionsWithin(U)'
  <2>1. selected \in U
    OBVIOUS
  <2>2. (IF LiveIdx(windows) = {} THEN 0 ELSE NextIndex(windows, selected)) \in U
    <3>1. windows \in Seq(Window)
      BY DEF TableType
    <3>2. LiveIdx(windows) # {} => NextIndex(windows, selected) \in LiveIdx(windows)
      BY <2>1, <3>1, NextIndexIsLive
    <3>3. LiveIdx(windows) \subseteq U
      BY FirstIsIndex
    <3>. QED  BY <3>2, <3>3
  <2>. DEFINE other == IF LiveIdx(windows) = {} THEN 0 ELSE NextIndex(windows, selected)
  <2>3. regions' = <<selected, other>> /\ focus' = 0 /\ UNCHANGED <<saved, layouts>>
    BY <1>2 DEF EvSplit
  <2>. HIDE DEF other
  <2>4. other \in U
    BY <2>2 DEF other
  <2>5. regions' \in Seq(U) /\ regions' \in Seq(Nat) /\ Len(regions') = 2
    BY <2>1, <2>3, <2>4
  <2>. QED  BY <2>3, <2>5
<1>3. ASSUME NEW c \in readers, EvRemoveRegion(c) PROVE RegionInv' /\ RegionsWithin(U)'
  <2>. DEFINE rest == RemoveAt(regions, focus + 1)
  <2>1. focus' \in Nat /\ focus' < Len(regions) - 1 /\ rest \in Seq(U) /\ Len(rest) = Len(regions) - 1
    BY <1>3, FocusedRemovedFacts DEF EvRemoveRegion
  <2>2. UNCHANGED <<saved, layouts>> /\ (regions' = <<>> \/ regions' = rest)
    BY <1>3 DEF EvRemoveRegion
  <2>. HIDE DEF rest
  <2>3. CASE regions' = <<>>
    BY <2>1, <2>2, <2>3
  <2>4. CASE regions' = rest
    <3>1. rest \in Seq(Nat)
      BY <2>1, SeqMonotonic
    <3>. QED  BY <2>1, <2>2, <2>4, <3>1
  <2>. QED  BY <2>2, <2>3, <2>4
<1>4. ASSUME NEW c \in readers, EvOnly(c) PROVE RegionInv' /\ RegionsWithin(U)'
  <2>1. CASE /\ saved # <<>>
             /\ regions' = saved
             /\ saved' = <<>>
             /\ focus' = IF focus < Len(saved) THEN focus ELSE 0
             /\ layouts' = layouts
    <3>1. Len(saved) \in Nat /\ Len(saved) > 0
      BY <2>1, EmptySeq
    <3>2. focus' \in Nat /\ focus' < Len(regions')
      BY <2>1, <3>1
    <3>. QED  BY <2>1, <3>2
  <2>2. CASE regions' = <<>> /\ saved' = regions /\ UNCHANGED <<focus, layouts>>
    BY <2>2
  <2>. QED  BY <1>4, <2>1, <2>2 DEF EvOnly
<1>5. ASSUME NEW c \in readers, EvFocus(c) PROVE RegionInv' /\ RegionsWithin(U)'
  <2>1. focus < Len(regions) /\ Len(regions) \in Nat
    BY <1>5 DEF EvFocus
  <2>2. (focus + 1) % Len(regions) \in 0 .. Len(regions) - 1
    BY <2>1
  <2>3. focus' \in 0 .. Len(regions) - 1
    BY <1>5, <2>1, <2>2 DEF EvFocus
  <2>. QED  BY <1>5, <2>3 DEF EvFocus
<1>6. CASE CmdSplit
  <2>. DEFINE kept == IF focus < Len(regions) THEN At(regions, focus) ELSE 0
              new  == Len(windows') - 1
  <2>1. CASE Len(windows') > 1
    <3>1. kept \in U
      BY DEF At
    <3>2. new \in U
      <4>1. new \in Idx(windows')
        BY <2>1 DEF TableType, Idx
      <4>. HIDE DEF new
      <4>. QED  BY <4>1
    <3>3. regions' = <<kept, new>> /\ focus' = 1 /\ UNCHANGED <<saved, layouts>>
      BY <1>6, <2>1 DEF CmdSplit
    <3>. HIDE DEF kept, new
    <3>4. regions' \in Seq(U) /\ regions' \in Seq(Nat) /\ Len(regions') = 2
      BY <3>1, <3>2, <3>3
    <3>. QED  BY <3>3, <3>4
  <2>2. CASE ~(Len(windows') > 1)
    BY <1>6, <2>2 DEF CmdSplit
  <2>. QED  BY <2>1, <2>2
<1>7. CASE CmdRemove
  BY <1>7, FocusedRemovedFacts DEF CmdRemove
<1>8. CASE CmdOnly
  <2>1. At(regions, focus) \in U
    BY <1>8 DEF CmdOnly, At
  <2>. DEFINE one == At(regions, focus)
  <2>2. regions' = <<one>> /\ focus' = 0 /\ UNCHANGED <<saved, layouts>>
    BY <1>8 DEF CmdOnly
  <2>. HIDE DEF one
  <2>3. one \in U
    BY <2>1 DEF one
  <2>. QED  BY <2>2, <2>3
<1>9. CASE CmdFocus
  BY <1>9 DEF CmdFocus
<1>10. CASE CmdLayoutSave
  <2>. DEFINE shown == IF regions = <<>> THEN <<selected>> ELSE regions
  <2>1. shown \in Seq(Nat) /\ Len(shown) <= 2
    BY DEF TableType
  <2>2. PICK f \in Orders({k \in DOMAIN shown : shown[k] \in Idx(windows)}) :
           layouts' = {[k \in DOMAIN f |-> At(windows, shown[f[k]]).number]}
    BY <1>10 DEF CmdLayoutSave
  <2>. HIDE DEF shown
  <2>. DEFINE l == [k \in DOMAIN f |-> At(windows, shown[f[k]]).number]
  <2>3. \A k \in DOMAIN shown : shown[k] \in Idx(windows) => At(windows, shown[k]).number \in Nat
    <3>1. \A i \in Idx(windows) : At(windows, i) \in Window
      BY IndexFacts DEF TableType
    <3>. QED  BY <3>1 DEF Window
  <2>4. l \in Seq(Nat) /\ Len(l) <= 2
    <3>1. PICK n \in 0 .. Len(shown) : DOMAIN f = 1 .. n /\ \A k \in DOMAIN f :
             f[k] \in {p \in DOMAIN shown : shown[p] \in Idx(windows)}
      BY <2>1, OrdersFacts
    <3>2. \A k \in 1 .. n : At(windows, shown[f[k]]).number \in Nat
      BY <2>3, <3>1
    <3>. QED  BY <2>1, <3>1, <3>2
  <2>. HIDE DEF l
  <2>. QED  BY <1>10, <2>2, <2>4 DEF CmdLayoutSave, l
<1>11. CASE CmdLayoutLoad
  <2>0. PICK m \in layouts : \E f \in Orders({k \in DOMAIN m : m[k] \in Numbers(windows)}) :
           regions' = [k \in DOMAIN f |-> Bearer(windows, m[f[k]])]
    BY <1>11 DEF CmdLayoutLoad
  <2>1. PICK f \in Orders({k \in DOMAIN m : m[k] \in Numbers(windows)}) :
           regions' = [k \in DOMAIN f |-> Bearer(windows, m[f[k]])]
    BY <2>0
  <2>. DEFINE r == [k \in DOMAIN f |-> Bearer(windows, m[f[k]])]
  <2>2. \A k \in DOMAIN m : m[k] \in Numbers(windows) => Bearer(windows, m[k]) \in U
    BY BearerFacts DEF TableType
  <2>3. r \in Seq(U) /\ Len(r) <= 2
    <3>1. m \in Seq(Nat) /\ Len(m) <= 2
      OBVIOUS
    <3>2. PICK n \in 0 .. Len(m) : DOMAIN f = 1 .. n /\ \A k \in DOMAIN f :
             f[k] \in {p \in DOMAIN m : m[p] \in Numbers(windows)}
      BY <3>1, OrdersFacts
    <3>3. \A k \in 1 .. n : Bearer(windows, m[f[k]]) \in U
      BY <2>2, <3>2
    <3>. QED  BY <3>1, <3>2, <3>3
  <2>4. regions' = r /\ focus' = (IF regions' = <<>> THEN focus ELSE 0) /\ UNCHANGED <<saved, layouts>>
    BY <1>11, <2>1 DEF CmdLayoutLoad
  <2>. HIDE DEF r
  <2>5. regions' # <<>> => Len(regions') > 0
    BY <2>3, <2>4, EmptySeq
  <2>6. r \in Seq(Nat)
    BY <2>3, SeqMonotonic
  <2>. QED  BY <2>3, <2>4, <2>5, <2>6
<1>12. CASE CmdLayoutRemove
  BY <1>12 DEF CmdLayoutRemove
<1>. QED  BY <1>1, <1>2, <1>3, <1>4, <1>5, <1>6, <1>7, <1>8, <1>9, <1>10, <1>11, <1>12 DEF RegionStep

-----------------------------------------------------------------------------
(* The settings and the phase: three commands write the former, and every   *)
(* action writes a known phase.                                             *)

RestInv == SettingsType /\ phase \in Looping \cup Ended

LEMMA RestInvStep ==
    ASSUME RestInv, Next
    PROVE  RestInv'
<1>. USE DEF RestInv, SettingsType, settingVars, Looping, Ended
<1>1. CASE Poll
  BY <1>1 DEF Poll, PollQuiet, PollHangup, PollShutdown
<1>2. CASE Connection
  <2>1. ASSUME NEW multi \in BOOLEAN, Attach(multi) PROVE RestInv'
    BY <2>1 DEF Attach, Accepting
  <2>2. CASE ShotDetach \/ ShotCreate \/ ShotSelect \/ ShotNext \/ ShotPrev \/ ShotWipe
    BY <2>2 DEF ShotDetach, ShotCreate, ShotSelect, ShotNext, ShotPrev, ShotWipe, Accepting
  <2>3. CASE ShotShutdown \/ ReplyFails \/ ShotWriteFails
    BY <2>3 DEF ShotShutdown, ReplyFails, ShotWriteFails
  <2>4. ASSUME NEW k \in Idx(windows), ShotKill(k) \/ ShotRemove(k) PROVE RestInv'
    BY <2>4 DEF ShotKill, ShotRemove, Accepting
  <2>5. ASSUME NEW n \in RenumberTo, ShotRenumber(n) PROVE RestInv'
    BY <2>5 DEF ShotRenumber, Accepting
  <2>. QED  BY <1>2, <2>1, <2>2, <2>3, <2>4, <2>5 DEF Connection
<1>3. ASSUME NEW c \in readers, ClientEvent(c) PROVE RestInv'
  <2>1. CASE EvSelect(c) \/ EvNext(c) \/ EvPrev(c) \/ EvOther(c) \/ EvCreate(c) \/ EvWipe(c)
    BY <2>1 DEF EvSelect, EvNext, EvPrev, EvOther, EvCreate, EvWipe
  <2>2. CASE EvTell(c) \/ EvInfoPanics(c) \/ EvWriteFails(c) \/ EvDetach(c) \/ EvShutdown(c)
    BY <2>2 DEF EvTell, EvInfoPanics, EvWriteFails, EvDetach, EvShutdown
  <2>3. CASE EvClick(c)
    <3>1. phase' \in {phase, "panicked"} /\ UNCHANGED settingVars
      BY <2>3 DEF EvClick
    <3>. QED  BY <3>1
  <2>4. ASSUME NEW k \in Idx(windows), EvKill(c, k) \/ EvRemove(c, k) PROVE RestInv'
    BY <2>4 DEF EvKill, EvRemove
  <2>5. ASSUME NEW n \in RenumberTo, EvRenumber(c, n) PROVE RestInv'
    BY <2>5 DEF EvRenumber
  <2>6. CASE EvSplit(c) \/ EvRemoveRegion(c) \/ EvOnly(c) \/ EvFocus(c)
    BY <2>6 DEF EvSplit, EvRemoveRegion, EvOnly, EvFocus
  <2>. QED  BY <1>3, <2>1, <2>2, <2>3, <2>4, <2>5, <2>6 DEF ClientEvent
<1>4. CASE Command
  <2>1. CASE CmdSelect \/ CmdNext \/ CmdPrev \/ CmdCreate \/ CmdKill
             \/ CmdSplit \/ CmdRemove \/ CmdOnly \/ CmdFocus
             \/ CmdLayoutSave \/ CmdLayoutLoad \/ CmdLayoutRemove
    BY <2>1 DEF CmdSelect, CmdNext, CmdPrev, CmdCreate, CmdKill,
                CmdSplit, CmdRemove, CmdOnly, CmdFocus,
                CmdLayoutSave, CmdLayoutLoad, CmdLayoutRemove, Commanding
  <2>2. CASE CmdMaxwin \/ CmdAutoNuke \/ CmdQuit
    BY <2>2 DEF CmdMaxwin, CmdAutoNuke, CmdQuit, Commanding
  <2>. QED  BY <1>4, <2>1, <2>2 DEF Command
<1>5. CASE Pass
  <2>1. CASE EndAccept \/ EndEvents \/ PollOutput
    BY <2>1 DEF EndAccept, EndEvents, PollOutput
  <2>2. CASE CheckExits
    <3>1. phase' \in {"stopped", "signal"} /\ UNCHANGED settingVars
      BY <2>2 DEF CheckExits
    <3>. QED  BY <3>1
  <2>. QED  BY <1>5, <2>1, <2>2 DEF Pass
<1>6. ASSUME NEW i \in Idx(windows), ChildExit(i) PROVE RestInv'
  BY <1>6 DEF ChildExit
<1>. QED  BY <1>1, <1>2, <1>3, <1>4, <1>5, <1>6 DEF Next

-----------------------------------------------------------------------------
(* The inductive invariant, and the theorems. *)

\* FocusValid and the types need each other (an index is read from a region),
\* and IdsOrdered needs the types; the conjunction is inductive.
IInv == TableInv /\ ClientInv /\ RegionInv /\ RestInv

LEMMA IInvMeans ==
    IInv <=> TypeOK /\ IdsOrdered /\ SelectedInRange /\ AttachedHasReader /\ FocusValid
BY DEF IInv, TableInv, ClientInv, RegionInv, RestInv, TypeOK

\* It holds when the main loop starts.
LEMMA InitIInv == Init => IInv
<1>. SUFFICES ASSUME Init PROVE IInv
  OBVIOUS
<1>. USE ConstantsAssumption DEF Init
<1>1. TableInv
  <2>. DEFINE row(k) == [id |-> k, number |-> k - 1, alive |-> TRUE, pty |-> "running"]
  <2>1. \A k \in 1 .. Startup + 1 : row(k) \in Window /\ row(k).id = k
    BY DEF Window
  <2>2. windows = [k \in 1 .. Startup + 1 |-> row(k)]
    OBVIOUS
  <2>. HIDE DEF row, Init
  <2>3. windows \in Seq(Window) /\ Len(windows) = Startup + 1
    <3>1. windows \in [1 .. Startup + 1 -> Window] /\ Startup + 1 \in Nat
      BY <2>1, <2>2
    <3>2. windows \in Seq(Window)
      BY <3>1, SeqDef
    <3>. QED  BY <3>1, <3>2, LenProperties
  <2>4. Idx(windows) = 0 .. Startup /\ \A i \in Idx(windows) : At(windows, i).id = i + 1
    BY <2>1, <2>2, <2>3 DEF Idx, At
  <2>5. nextId = Startup + 2 /\ nextNumber = Startup + 1 /\ selected \in Idx(windows)
    BY DEF Init
  <2>6. OrderedBelow(windows, nextId)
    BY <2>4, <2>5 DEF OrderedBelow
  <2>. QED  BY <2>3, <2>4, <2>5, <2>6 DEF TableInv, TableType, IdsOrdered, SelectedInRange
<1>2. ClientInv
  BY DEF ClientInv, ClientsType, AttachedHasReader, NoClients
<1>3. RegionInv
  BY DEF RegionInv, RegionsType, FocusValid
<1>4. RestInv
  BY DEF RestInv, SettingsType, Looping
<1>. QED  BY <1>1, <1>2, <1>3, <1>4 DEF IInv

\* Every step keeps it.
LEMMA NextIInv == IInv /\ [Next]_vars => IInv'
<1>. SUFFICES ASSUME IInv, [Next]_vars PROVE IInv'
  OBVIOUS
<1>1. CASE Next
  <2>1. Core
    BY IInvMeans DEF Core
  <2>2. TableInv'
    BY <1>1, <2>1, StepOnTable, TableInvStep DEF IInv
  <2>3. ClientInv'
    <3>1. Within(clients, Nat) /\ Idx(windows) \subseteq Nat /\ Idx(windows') \subseteq Nat
      BY <2>1, <2>2 DEF Core, TypeOK, ClientsType, Within, View, Client, TableInv, TableType, Idx
    <3>2. ClientStep(Nat)
      BY <1>1, <2>1, <2>2, <3>1, StepOnClients DEF TableInv
    <3>. QED  BY <3>2, ClientInvStep DEF IInv, TableInv
  <2>4. RegionInv'
    <3>1. /\ {0, selected} \subseteq Nat /\ Idx(windows) \subseteq Nat /\ Idx(windows') \subseteq Nat
          /\ RegionsWithin(Nat)
      BY <2>2 DEF IInv, TableInv, TableType, RegionInv, RegionsType, RegionsWithin, Idx
    <3>. QED  BY <1>1, <2>2, <3>1, StepOnRegions, RegionInvStep DEF IInv, TableInv
  <2>5. RestInv'
    BY <1>1, RestInvStep DEF IInv
  <2>. QED  BY <2>2, <2>3, <2>4, <2>5 DEF IInv
<1>2. CASE UNCHANGED vars
  BY <1>2 DEF vars, tableVars, settingVars, clientVars, regionVars, IInv,
              TableInv, TableType, IdsOrdered, SelectedInRange,
              ClientInv, ClientsType, AttachedHasReader,
              RegionInv, RegionsType, FocusValid, RestInv, SettingsType
<1>. QED  BY <1>1, <1>2

LEMMA AlwaysIInv == Spec => []IInv
BY InitIInv, NextIInv, PTL DEF Spec

\* Type correctness: whatever the clients, the peers and the programs do, and
\* however many there are, the session's indices stay natural numbers and its
\* ids and counters within what has been handed out.
THEOREM TypeCorrect == Spec => []TypeOK
<1>1. IInv => TypeOK
  BY IInvMeans
<1>. QED  BY <1>1, AlwaysIInv, PTL

\* Window ids are never reused, and the table stays in the order of creation
\* through create_window, remove_window, remove_dead_windows and kill_window.
THEOREM IdsStayOrdered == Spec => []IdsOrdered
<1>1. IInv => IdsOrdered
  BY IInvMeans
<1>. QED  BY <1>1, AlwaysIInv, PTL

\* Without regions, the clamps of remove_window and remove_dead_windows keep the
\* session's selected index inside the table.
THEOREM SelectedStaysInRange == Spec => []SelectedInRange
<1>1. IInv => SelectedInRange
  BY IInvMeans
<1>. QED  BY <1>1, AlwaysIInv, PTL

\* A client is on the list only while its reader thread can still take it off.
THEOREM AttachedKeepsReader == Spec => []AttachedHasReader
<1>1. IInv => AttachedHasReader
  BY IInvMeans
<1>. QED  BY <1>1, AlwaysIInv, PTL

\* The focused region exists, whichever mix of region events and region
\* commands has been run.
THEOREM FocusStaysValid == Spec => []FocusValid
<1>1. IInv => FocusValid
  BY IInvMeans
<1>. QED  BY <1>1, AlwaysIInv, PTL

-----------------------------------------------------------------------------
(* What removals leave of the programs, and of the session's place.         *)

\* A program runs only in a window that is alive: kill_window takes the PTY as
\* it marks the row, and mark_exited marks only rows whose program has gone.
RunningLive == \A k \in DOMAIN windows : windows[k].pty = "running" => windows[k].alive

\* remove_dead_windows leaves rows of the table only, and every live one.
LEMMA DropRows ==
    ASSUME NEW t \in Seq(Window), NEW s, DropDead(t, s)
    PROVE  /\ windows' \in Seq(Window)
           /\ \A k \in DOMAIN windows' : \E p \in DOMAIN t : windows'[k] = t[p] /\ t[p].alive
           /\ \A p \in DOMAIN t : t[p].alive => \E k \in DOMAIN windows' : windows'[k] = t[p]
<1>1. PICK f \in Orders({k \in DOMAIN t : t[k].alive}) : windows' = [k \in DOMAIN f |-> t[f[k]]]
  BY DEF DropDead
<1>. DEFINE u == [k \in DOMAIN f |-> t[f[k]]]
<1>2. /\ u \in Seq(Window)
      /\ \A k \in 1 .. Len(u) : f[k] \in 1 .. Len(t) /\ u[k] = t[f[k]] /\ t[f[k]].alive
      /\ \A p \in 1 .. Len(t) : t[p].alive => \E k \in 1 .. Len(u) : f[k] = p
  BY LivingFacts
<1>3. windows' = u
  BY <1>1
<1>. HIDE DEF u
<1>4. DOMAIN u = 1 .. Len(u) /\ DOMAIN t = 1 .. Len(t)
  BY <1>2
<1>5. \A p \in DOMAIN t : t[p].alive => \E k \in DOMAIN u : u[k] = t[p]
  <2>. TAKE p \in DOMAIN t
  <2>. HAVE t[p].alive
  <2>1. PICK k \in 1 .. Len(u) : f[k] = p
    BY <1>2, <1>4
  <2>. QED  BY <1>2, <1>4, <2>1
<1>. QED  BY <1>2, <1>3, <1>4, <1>5

\* remove_window leaves every row but one, which was dead.
LEMMA RemoveRows ==
    ASSUME TableType, NEW i \in Idx(windows), RemoveOne(i)
    PROVE  /\ windows' \in Seq(Window)
           /\ \A k \in DOMAIN windows' : \E p \in DOMAIN windows : windows'[k] = windows[p]
           /\ \A p \in DOMAIN windows : windows[p].alive =>
                 \E k \in DOMAIN windows' : windows'[k] = windows[p]
<1>1. /\ windows' \in Seq(Window)
      /\ Len(windows') = Len(windows) - 1
      /\ \A j \in 1 .. Len(windows) - 1 :
            windows'[j] = windows[IF j < i + 1 THEN j ELSE j + 1]
  BY RemoveAtFacts, SMTT(20) DEF RemoveOne, TableType, Idx
<1>2. i \in Nat /\ i + 1 \in 1 .. Len(windows) /\ ~windows[i + 1].alive /\ Len(windows) \in Nat
  BY DEF RemoveOne, Idx, At, TableType
<1>3. \A k \in DOMAIN windows' : \E p \in DOMAIN windows : windows'[k] = windows[p]
  BY <1>1, <1>2
<1>4. ASSUME NEW p \in DOMAIN windows, windows[p].alive
      PROVE  \E k \in DOMAIN windows' : windows'[k] = windows[p]
  <2>1. p \in 1 .. Len(windows) /\ p # i + 1
    BY <1>2, <1>4 DEF TableType
  <2>2. CASE p < i + 1
    <3>1. p \in 1 .. Len(windows) - 1 /\ windows'[p] = windows[p]
      BY <1>1, <1>2, <2>1, <2>2
    <3>. QED  BY <1>1, <3>1
  <2>3. CASE p > i + 1
    <3>1. p - 1 \in 1 .. Len(windows) - 1 /\ ~(p - 1 < i + 1) /\ p - 1 + 1 = p
      BY <1>2, <2>1, <2>3
    <3>2. windows'[p - 1] = windows[p]
      BY <1>1, <3>1
    <3>. QED  BY <1>1, <3>1, <3>2
  <2>. QED  BY <1>2, <2>1, <2>2, <2>3
<1>. QED  BY <1>1, <1>3, <1>4

\* What an exit and a renumbering change: one row, which keeps its id.
LEMMA ExitFacts ==
    ASSUME TableType, Exits
    PROVE  \E p \in DOMAIN windows :
              /\ windows[p].pty = "running"
              /\ windows' \in Seq(Window) /\ Len(windows') = Len(windows) /\ DOMAIN windows' = DOMAIN windows
              /\ \A k \in DOMAIN windows : k # p => windows'[k] = windows[k]
              /\ windows'[p].id = windows[p].id /\ windows'[p].alive = windows[p].alive
              /\ windows'[p].pty = "exited"
<1>1. PICK i \in Idx(windows) : /\ At(windows, i).pty = "running"
                                /\ windows' = [windows EXCEPT ![i + 1].pty = "exited"]
  BY DEF Exits
<1>. DEFINE p == i + 1
            w == windows[p]
            e == [w EXCEPT !.pty = "exited"]
<1>2. p \in DOMAIN windows /\ w.pty = "running" /\ windows \in Seq(Window)
  BY <1>1 DEF TableType, Idx, At
<1>3. w \in Window
  BY <1>2
<1>4. e \in Window /\ e.id = w.id /\ e.pty = "exited" /\ e.alive = w.alive
  BY <1>3 DEF Window
<1>5. windows' = [windows EXCEPT ![p] = e]
  BY <1>1
<1>. HIDE DEF p, e
<1>. QED  BY <1>2, <1>4, <1>5

LEMMA RenumberFacts ==
    ASSUME TableType, NEW n \in RenumberTo, Renumber(n)
    PROVE  /\ windows' \in Seq(Window) /\ Len(windows') = Len(windows) /\ DOMAIN windows' = DOMAIN windows
           /\ \A k \in DOMAIN windows : /\ windows'[k].id = windows[k].id
                                        /\ windows'[k].alive = windows[k].alive
                                        /\ windows'[k].pty = windows[k].pty
<1>. DEFINE p == selected + 1
            w == windows[p]
            e == [w EXCEPT !.number = n]
<1>1. p \in DOMAIN windows /\ windows \in Seq(Window) /\ windows' = [windows EXCEPT ![p] = e]
  BY DEF TableType, Idx, Renumber
<1>2. w \in Window /\ n \in Nat
  BY <1>1, ConstantsAssumption
<1>3. e \in Window /\ e.id = w.id /\ e.pty = w.pty /\ e.alive = w.alive
  BY <1>2 DEF Window
<1>. HIDE DEF p, e
<1>. QED  BY <1>1, <1>3

\* Every effect on the table keeps programs in live windows.
LEMMA RunningLiveStep ==
    ASSUME TableType, RunningLive, TableStep
    PROVE  RunningLive'
<1>. USE DEF RunningLive, TableType
<1>1. CASE UNCHANGED tableVars \/ Selects \/ CreateFails
  BY <1>1 DEF tableVars, Selects, CreateFails
<1>2. CASE Pushes
  <2>. DEFINE w == [id |-> nextId, number |-> nextNumber, alive |-> TRUE, pty |-> "running"]
  <2>1. w \in Window /\ w.alive
    BY ConstantsAssumption DEF Window
  <2>2. windows' = Append(windows, w)
    BY <1>2 DEF Pushes, PushWindow
  <2>. HIDE DEF w
  <2>. QED  BY <2>1, <2>2, AppendProperties
<1>3. ASSUME NEW i \in Idx(windows), NEW t, t = Killed(windows, i)
      PROVE  t \in Seq(Window) /\ \A k \in DOMAIN t : t[k].pty = "running" => t[k].alive
  <2>1. /\ t \in Seq(Window) /\ Len(t) = Len(windows)
        /\ \A k \in Idx(windows) : k # i => At(t, k) = At(windows, k)
        /\ At(t, i).pty = "none"
    BY <1>3, KilledFacts
  <2>2. \A k \in DOMAIN t : k \in DOMAIN windows /\ k - 1 \in Idx(windows)
                             /\ t[k] = At(t, k - 1) /\ windows[k] = At(windows, k - 1)
    BY <2>1 DEF Idx, At
  <2>3. \A k \in DOMAIN t : t[k].pty = "none" \/ t[k] = windows[k]
    BY <2>1, <2>2
  <2>. QED  BY <2>1, <2>2, <2>3
<1>4. CASE Kills
  BY <1>3, <1>4 DEF Kills
<1>5. CASE KillsAndDrops
  BY <1>3, <1>5, DropRows DEF KillsAndDrops
<1>6. CASE Drops
  BY <1>6, DropRows DEF Drops
<1>7. CASE Removes
  BY <1>7, RemoveRows DEF Removes
<1>8. CASE Renumbers
  BY <1>8, RenumberFacts DEF Renumbers
<1>9. CASE Marks
  <2>1. /\ Marked(windows) \in Seq(Window)
        /\ \A k \in DOMAIN Marked(windows) : Marked(windows)[k].pty = "running" => Marked(windows)[k].alive
    BY MarkedFacts
  <2>. QED  BY <1>9, <2>1, DropRows DEF Marks
<1>10. CASE Exits
  BY <1>10, ExitFacts
<1>. QED  BY <1>1, <1>2, <1>4, <1>5, <1>6, <1>7, <1>8, <1>9, <1>10 DEF TableStep

LEMMA AlwaysRunningLive == Spec => []RunningLive
<1>1. Init => RunningLive
  <2>. SUFFICES ASSUME Init PROVE RunningLive
    OBVIOUS
  <2>. QED  BY DEF Init, RunningLive
<1>2. IInv /\ RunningLive /\ [Next]_vars => RunningLive'
  <2>. SUFFICES ASSUME IInv, RunningLive, [Next]_vars PROVE RunningLive'
    OBVIOUS
  <2>1. CASE Next
    BY <2>1, IInvMeans, StepOnTable, RunningLiveStep DEF Core, IInv, TableInv
  <2>2. CASE UNCHANGED vars
    BY <2>2 DEF vars, tableVars, RunningLive
  <2>. QED  BY <2>1, <2>2
<1>. QED  BY <1>1, <1>2, AlwaysIInv, PTL DEF Spec

\* Updates in place, and additions, lose no window.
LEMMA SameIds ==
    ASSUME NEW t \in Seq(Window), NEW u \in Seq(Window), Len(u) >= Len(t),
           \A k \in DOMAIN t : u[k].id = t[k].id
    PROVE  RunningIds(t) \ Ids(u) = {}
BY DEF RunningIds, Ids

\* Rows that are found again are not lost.
LEMMA FoundAgain ==
    ASSUME NEW t, NEW u,
           \A p \in DOMAIN t : t[p].pty = "running" => \E k \in DOMAIN u : u[k].id = t[p].id
    PROVE  RunningIds(t) \ Ids(u) = {}
BY DEF RunningIds, Ids

\* What each effect on the table takes away of the running programs' windows.
LEMMA LossOfStep ==
    ASSUME TableType, TableType', RunningLive, TableStep
    PROVE  \/ RunningIds(windows) \ Ids(windows') = {}
           \/ /\ autoNuke /\ phase = "events"
              /\ \E n : RunningIds(windows) \ Ids(windows') \subseteq {n}
<1>. USE DEF TableType, RunningLive
<1>. DEFINE lost == RunningIds(windows) \ Ids(windows')
<1>1. CASE UNCHANGED tableVars \/ Selects \/ CreateFails
  BY <1>1, SameIds DEF tableVars, Selects, CreateFails
<1>2. CASE Pushes
  <2>1. Len(windows') = Len(windows) + 1 /\ \A k \in 1 .. Len(windows) : windows'[k] = windows[k]
    BY <1>2, PushFacts DEF Pushes
  <2>. QED  BY <2>1, SameIds
<1>3. CASE Kills
  <2>1. PICK i \in Idx(windows) : windows' = Killed(windows, i)
    BY <1>3 DEF Kills
  <2>2. Len(windows') = Len(windows) /\ \A k \in Idx(windows) : At(windows', k).id = At(windows, k).id
    BY <2>1, KilledFacts
  <2>3. \A k \in DOMAIN windows : k - 1 \in Idx(windows) /\ windows'[k] = At(windows', k - 1)
                                /\ windows[k] = At(windows, k - 1)
    BY DEF Idx, At
  <2>4. \A k \in DOMAIN windows : k \in DOMAIN windows' /\ windows'[k].id = windows[k].id
    BY <2>2, <2>3
  <2>. QED  BY <2>4, FoundAgain
<1>4. CASE KillsAndDrops
  <2>1. PICK i \in Idx(windows) : DropDead(Killed(windows, i), selected)
    BY <1>4 DEF KillsAndDrops
  <2>. DEFINE t == Killed(windows, i)
              n == At(windows, i).id
  <2>2. /\ t \in Seq(Window) /\ Len(t) = Len(windows)
        /\ \A k \in Idx(windows) : k # i => At(t, k) = At(windows, k)
    BY KilledFacts
  <2>3. \A k \in DOMAIN windows : /\ k \in DOMAIN t /\ k - 1 \in Idx(windows)
                                /\ t[k] = At(t, k - 1) /\ windows[k] = At(windows, k - 1)
    BY <2>2 DEF Idx, At
  <2>. HIDE DEF t
  <2>4. \A p \in DOMAIN t : t[p].alive => \E k \in DOMAIN windows' : windows'[k] = t[p]
    BY <2>1, <2>2, DropRows DEF t
  <2>5. ASSUME NEW p \in DOMAIN windows, windows[p].pty = "running", windows[p].id # n
        PROVE  \E k \in DOMAIN windows' : windows'[k].id = windows[p].id
    <3>1. t[p] = windows[p] /\ windows[p].alive
      BY <2>2, <2>3, <2>5
    <3>. QED  BY <2>3, <2>4, <3>1
  <2>6. lost \subseteq {n}
    BY <2>5 DEF RunningIds, Ids
  <2>. QED  BY <1>4, <2>6 DEF KillsAndDrops
<1>5. CASE Drops
  <2>1. \A p \in DOMAIN windows : windows[p].alive => \E k \in DOMAIN windows' : windows'[k] = windows[p]
    BY <1>5, DropRows DEF Drops
  <2>. QED  BY <2>1, FoundAgain
<1>6. CASE Removes
  <2>1. \A p \in DOMAIN windows : windows[p].alive => \E k \in DOMAIN windows' : windows'[k] = windows[p]
    BY <1>6, RemoveRows DEF Removes
  <2>. QED  BY <2>1, FoundAgain
<1>7. CASE Renumbers
  <2>1. \A k \in DOMAIN windows : k \in DOMAIN windows' /\ windows'[k].id = windows[k].id
    BY <1>7, RenumberFacts DEF Renumbers
  <2>. QED  BY <2>1, FoundAgain
<1>8. CASE Marks
  <2>. DEFINE t == Marked(windows)
  <2>1. /\ t \in Seq(Window) /\ Len(t) = Len(windows)
        /\ \A k \in DOMAIN windows : t[k].id = windows[k].id /\ t[k].pty = windows[k].pty
                                    /\ (t[k].alive <=> windows[k].alive /\ windows[k].pty # "exited")
    BY MarkedFacts
  <2>2. \/ windows' = t
        \/ \A p \in DOMAIN t : t[p].alive => \E k \in DOMAIN windows' : windows'[k] = t[p]
    BY <1>8, <2>1, DropRows DEF Marks
  <2>. HIDE DEF t
  <2>3. \A p \in DOMAIN windows : p \in DOMAIN t /\ (windows[p].pty = "running" => t[p].alive)
    BY <2>1
  <2>4. \A p \in DOMAIN windows : windows[p].pty = "running" => \E k \in DOMAIN windows' : windows'[k].id = windows[p].id
    <3>1. CASE windows' = t
      BY <2>1, <2>3, <3>1
    <3>2. CASE \A p \in DOMAIN t : t[p].alive => \E k \in DOMAIN windows' : windows'[k] = t[p]
      <4>1. ASSUME NEW p \in DOMAIN windows, windows[p].pty = "running"
            PROVE  \E k \in DOMAIN windows' : windows'[k].id = windows[p].id
        <5>1. p \in DOMAIN t /\ t[p].alive
          BY <2>3, <4>1
        <5>2. t[p].id = windows[p].id
          BY <2>1
        <5>3. PICK k \in DOMAIN windows' : windows'[k] = t[p]
          BY <3>2, <5>1
        <5>4. windows'[k].id = windows[p].id
          BY <5>2, <5>3
        <5>. QED  BY <5>4
      <4>. QED  BY <4>1
    <3>. QED  BY <2>2, <3>1, <3>2
  <2>. QED  BY <2>4, FoundAgain
<1>9. CASE Exits
  <2>1. \A k \in DOMAIN windows : k \in DOMAIN windows' /\ windows'[k].id = windows[k].id
    BY <1>9, ExitFacts
  <2>. QED  BY <2>1, FoundAgain
<1>. QED  BY <1>1, <1>2, <1>3, <1>4, <1>5, <1>6, <1>7, <1>8, <1>9 DEF TableStep

\* However the removals of the clients, the commands and auto-nuke are mixed, a
\* window whose program runs leaves the table only by being killed.
THEOREM RunningAreSpared == Spec => RemovalSparesTheRunning
<1>1. IInv /\ RunningLive /\ IInv' /\ [Next]_vars =>
        [LET lost == RunningIds(windows) \ Ids(windows')
         IN  /\ Cardinality(lost) <= 1
             /\ lost # {} => autoNuke /\ phase = "events"]_vars
  <2>. DEFINE lost == RunningIds(windows) \ Ids(windows')
  <2>. SUFFICES ASSUME IInv, RunningLive, IInv', Next
                PROVE  Cardinality(lost) <= 1 /\ (lost # {} => autoNuke /\ phase = "events")
    OBVIOUS
  <2>. HIDE DEF lost
  <2>1. lost = {} \/ (autoNuke /\ phase = "events" /\ \E n : lost \subseteq {n})
    BY IInvMeans, StepOnTable, LossOfStep DEF Core, IInv, TableInv, lost
  <2>2. Cardinality(lost) <= 1
    <3>1. lost = {} \/ \E n : lost = {n}
      BY <2>1
    <3>. QED  BY <3>1, FS_EmptySet, FS_Singleton
  <2>. QED  BY <2>1, <2>2
<1>. QED  BY <1>1, AlwaysIInv, AlwaysRunningLive, PTL DEF Spec, RemovalSparesTheRunning

-----------------------------------------------------------------------------
(* Where a pass of the loop leaves the session and its clients.             *)

\* The loop comes to its top only through check_exits; until the poll of the
\* signals nothing happens there but exits of programs.
LEMMA TopOfLoop ==
    ASSUME Next, phase' = "signal"
    PROVE  CheckExits \/ (phase = "signal" /\ \E i \in Idx(windows) : ChildExit(i))
<1>1. CASE Poll
  BY <1>1 DEF Poll, PollQuiet, PollHangup, PollShutdown
<1>2. CASE Connection
  <2>1. ASSUME NEW multi \in BOOLEAN, Attach(multi) PROVE FALSE
    BY <2>1 DEF Attach, Accepting
  <2>2. CASE ShotDetach \/ ShotCreate \/ ShotSelect \/ ShotNext \/ ShotPrev \/ ShotWipe
    BY <2>2 DEF ShotDetach, ShotCreate, ShotSelect, ShotNext, ShotPrev, ShotWipe, Accepting
  <2>3. CASE ShotShutdown \/ ReplyFails \/ ShotWriteFails
    BY <2>3 DEF ShotShutdown, ReplyFails, ShotWriteFails
  <2>4. ASSUME NEW k \in Idx(windows), ShotKill(k) \/ ShotRemove(k) PROVE FALSE
    BY <2>4 DEF ShotKill, ShotRemove, Accepting
  <2>5. ASSUME NEW n \in RenumberTo, ShotRenumber(n) PROVE FALSE
    BY <2>5 DEF ShotRenumber, Accepting
  <2>. QED  BY <1>2, <2>1, <2>2, <2>3, <2>4, <2>5 DEF Connection
<1>3. ASSUME NEW c \in readers, ClientEvent(c) PROVE FALSE
  <2>. USE DEF Event, Listed
  <2>1. CASE EvSelect(c) \/ EvNext(c) \/ EvPrev(c) \/ EvOther(c) \/ EvCreate(c) \/ EvWipe(c)
    BY <2>1 DEF EvSelect, EvNext, EvPrev, EvOther, EvCreate, EvWipe
  <2>2. CASE EvTell(c) \/ EvInfoPanics(c) \/ EvWriteFails(c) \/ EvDetach(c) \/ EvShutdown(c)
    BY <2>2 DEF EvTell, EvInfoPanics, EvWriteFails, EvDetach, EvShutdown
  <2>3. CASE EvClick(c)
    <3>1. phase' \in {phase, "panicked"} /\ phase = "events"
      BY <2>3 DEF EvClick
    <3>. QED  BY <3>1
  <2>4. ASSUME NEW k \in Idx(windows), EvKill(c, k) \/ EvRemove(c, k) PROVE FALSE
    BY <2>4 DEF EvKill, EvRemove
  <2>5. ASSUME NEW n \in RenumberTo, EvRenumber(c, n) PROVE FALSE
    BY <2>5 DEF EvRenumber
  <2>6. CASE EvSplit(c) \/ EvRemoveRegion(c) \/ EvOnly(c) \/ EvFocus(c)
    BY <2>6 DEF EvSplit, EvRemoveRegion, EvOnly, EvFocus, RegionEvent
  <2>. QED  BY <1>3, <2>1, <2>2, <2>3, <2>4, <2>5, <2>6 DEF ClientEvent
<1>4. CASE Command
  <2>. USE DEF Commanding
  <2>1. CASE CmdSelect \/ CmdNext \/ CmdPrev \/ CmdCreate \/ CmdKill
             \/ CmdSplit \/ CmdRemove \/ CmdOnly \/ CmdFocus
             \/ CmdLayoutSave \/ CmdLayoutLoad \/ CmdLayoutRemove
    BY <2>1 DEF CmdSelect, CmdNext, CmdPrev, CmdCreate, CmdKill,
                CmdSplit, CmdRemove, CmdOnly, CmdFocus,
                CmdLayoutSave, CmdLayoutLoad, CmdLayoutRemove
  <2>2. CASE CmdMaxwin \/ CmdAutoNuke \/ CmdQuit
    BY <2>2 DEF CmdMaxwin, CmdAutoNuke, CmdQuit
  <2>. QED  BY <1>4, <2>1, <2>2 DEF Command
<1>5. CASE Pass
  BY <1>5 DEF Pass, EndAccept, EndEvents, PollOutput
<1>6. ASSUME NEW i \in Idx(windows), ChildExit(i) PROVE phase = "signal"
  BY <1>6 DEF ChildExit
<1>. QED  BY <1>1, <1>2, <1>3, <1>4, <1>5, <1>6 DEF Next

\* A program that exits leaves its window alive until check_exits comes by.
LEMMA ExitMakesNoZombie ==
    ASSUME TableType, RunningLive, NEW i \in Idx(windows), ChildExit(i), NobodyViewsZombie
    PROVE  NobodyViewsZombie'
<1>. USE DEF TableType
<1>. DEFINE row == [windows[i + 1] EXCEPT !.pty = "exited"]
<1>1. i + 1 \in 1 .. Len(windows) /\ windows[i + 1] \in Window /\ windows[i + 1].pty = "running"
  BY DEF Idx, ChildExit, At
<1>2. row \in Window /\ row.alive
  <2>1. windows[i + 1].alive
    BY <1>1 DEF RunningLive
  <2>. QED  BY <1>1, <2>1 DEF Window
<1>3. windows' = [windows EXCEPT ![i + 1] = row]
  BY <1>1 DEF ChildExit
<1>. HIDE DEF row
<1>4. /\ windows' \in Seq(Window) /\ Len(windows') = Len(windows)
      /\ \A j \in 1 .. Len(windows) : windows'[j] = IF j = i + 1 THEN row ELSE windows[j]
  BY <1>1, <1>2, <1>3, ExceptSeq
<1>5. Idx(windows') = Idx(windows)
      /\ \A j \in Idx(windows) : At(windows', j) = IF j = i THEN row ELSE At(windows, j)
  BY <1>4 DEF Idx, At
<1>6. LiveIdx(windows') # {} => LiveIdx(windows) # {}
  BY <1>1, <1>5 DEF LiveIdx, At, RunningLive
<1>7. ASSUME NEW j \in ExitedIdx(windows'), ~At(windows', j).alive
      PROVE  j \in ExitedIdx(windows) /\ ~At(windows, j).alive
  BY <1>2, <1>5, <1>7 DEF ExitedIdx
<1>8. UNCHANGED <<selected, clients, autoNuke, phase>>
  BY DEF ChildExit, settingVars, clientVars
<1>. QED  BY <1>6, <1>7, <1>8 DEF NobodyViewsZombie

\* check_exits moves the session and the clients off what it marks.
LEMMA CheckExitsMovesOn ==
    ASSUME TableType, ClientsType, CheckExits
    PROVE  NobodyViewsZombie'
<1>. USE DEF TableType
<1>. DEFINE gone   == ExitedIdx(windows)
            marked == Marked(windows)
            shown  == IF selected \in gone /\ LiveIdx(marked) # {}
                      THEN NextIndex(marked, selected) ELSE selected
<1>. SUFFICES ASSUME ~autoNuke, LiveIdx(windows') # {}
              PROVE  \A i \in ExitedIdx(windows') :
                        ~At(windows', i).alive =>
                            /\ selected' # i
                            /\ \A c \in DOMAIN clients' : clients'[c].selected # i
  BY DEF NobodyViewsZombie, CheckExits, settingVars
<1>1. /\ marked \in Seq(Window) /\ Len(marked) = Len(windows)
      /\ \A k \in DOMAIN windows : marked[k].pty = windows[k].pty
  BY MarkedFacts
<1>2. windows' = marked /\ selected' = shown
  BY DEF CheckExits
<1>3. PICK lost \in SUBSET DOMAIN clients :
         clients' = MoveViewers(Without(clients, lost), marked, gone)
  BY DEF CheckExits
<1>. HIDE DEF marked
<1>4. Idx(marked) = Idx(windows) /\ ExitedIdx(marked) = gone
  <2>1. Idx(marked) = Idx(windows)
    BY <1>1 DEF Idx
  <2>2. \A i \in Idx(windows) : At(marked, i).pty = At(windows, i).pty
    BY <1>1 DEF Idx, At
  <2>. QED  BY <2>1, <2>2 DEF ExitedIdx
<1>5. TAKE i \in ExitedIdx(windows')
<1>6. HAVE ~At(windows', i).alive
<1>7. i \in gone /\ i \notin LiveIdx(marked) /\ LiveIdx(marked) # {}
  BY <1>2, <1>4, <1>6 DEF LiveIdx
<1>8. selected' # i
  <2>1. CASE selected \in gone
    BY <1>1, <1>2, <1>7, <2>1, NextIndexIsLive
  <2>2. CASE selected \notin gone
    BY <1>2, <1>7, <2>2
  <2>. QED  BY <2>1, <2>2
<1>9. ASSUME NEW c \in DOMAIN clients' PROVE clients'[c].selected # i
  <2>. DEFINE old == clients[c]
  <2>1. c \in DOMAIN clients /\ old \in Client
    BY <1>3 DEF MoveViewers, Without, ClientsType
  <2>2. clients'[c] = IF old.selected \in gone /\ LiveIdx(marked) # {}
                      THEN [old EXCEPT !.selected = NextIndex(marked, old.selected)] ELSE old
    BY <1>3 DEF MoveViewers, Without
  <2>. HIDE DEF old, gone
  <2>3. CASE old.selected \in gone
    <3>1. NextIndex(marked, old.selected) \in LiveIdx(marked)
      BY <1>1, <1>7, <2>1, NextIndexIsLive DEF Client
    <3>2. clients'[c].selected = NextIndex(marked, old.selected)
      BY <1>7, <2>1, <2>2, <2>3 DEF Client
    <3>. QED  BY <1>7, <3>1, <3>2
  <2>4. CASE old.selected \notin gone
    BY <1>7, <2>2, <2>4
  <2>. QED  BY <2>3, <2>4
<1>. QED  BY <1>8, <1>9

\* After a pass of the loop nobody looks at a window whose program was found
\* exited, as long as there is another to look at.
THEOREM ZombiesAreLeft == Spec => []NobodyViewsZombie
<1>1. Init => NobodyViewsZombie
  <2>. SUFFICES ASSUME Init PROVE ExitedIdx(windows) = {}
    BY DEF NobodyViewsZombie
  <2>1. windows = [k \in 1 .. Startup + 1 |-> [id |-> k, number |-> k - 1, alive |-> TRUE, pty |-> "running"]]
    BY DEF Init
  <2>2. Len(windows) = Startup + 1 /\ \A k \in 1 .. Startup + 1 : windows[k].pty = "running"
    BY <2>1, ConstantsAssumption
  <2>3. \A i \in 0 .. Len(windows) - 1 : i + 1 \in 1 .. Startup + 1
    BY <2>2, ConstantsAssumption
  <2>. QED  BY <2>2, <2>3 DEF ExitedIdx, Idx, At
<1>2. IInv /\ RunningLive /\ NobodyViewsZombie /\ [Next]_vars => NobodyViewsZombie'
  <2>. SUFFICES ASSUME IInv, RunningLive, NobodyViewsZombie, [Next]_vars PROVE NobodyViewsZombie'
    OBVIOUS
  <2>1. CASE phase' # "signal"
    BY <2>1 DEF NobodyViewsZombie
  <2>2. CASE Next /\ phase' = "signal"
    BY <2>2, TopOfLoop, ExitMakesNoZombie, CheckExitsMovesOn
       DEF IInv, TableInv, ClientInv
  <2>3. CASE UNCHANGED vars
    BY <2>3 DEF vars, tableVars, settingVars, clientVars, NobodyViewsZombie
  <2>. QED  BY <2>1, <2>2, <2>3
<1>. QED  BY <1>1, <1>2, AlwaysIInv, AlwaysRunningLive, PTL DEF Spec

-----------------------------------------------------------------------------
(* Where clients are moved without their asking.                            *)

\* What a client that stays on the list goes through: nothing, or a move it or
\* the status line's user asked for, which its last_selected shows.
Asked ==
    \A c \in DOMAIN clients \cap DOMAIN clients' :
        clients'[c] = clients[c] \/ clients'[c].last = clients[c].selected

\* Nothing but a kill and check_exits moves a client that did not ask.
LEMMA MovesOfStep ==
    ASSUME Core, Next
    PROVE  \/ Asked
           \/ CheckExits
           \/ \E c \in readers, k \in Idx(windows) : EvKill(c, k)
<1>. USE DEF Asked
<1>1. ASSUME UNCHANGED clients PROVE Asked
  BY <1>1
<1>2. ASSUME clients' = NoClients PROVE Asked
  BY <1>2 DEF NoClients
<1>3. ASSUME Broadcast(clients) PROVE Asked
  BY <1>3 DEF Broadcast, Without
<1>4. CASE Poll
  BY <1>1, <1>2, <1>4 DEF Poll, PollQuiet, PollHangup, PollShutdown, clientVars
<1>5. CASE Connection
  <2>1. ASSUME NEW multi \in BOOLEAN, Attach(multi) PROVE Asked
    <3>. DEFINE kept == IF multi THEN clients ELSE NoClients
                first == [selected |-> selected, last |-> selected]
    <3>1. clients' = [c \in DOMAIN kept \cup {nextClient} |-> IF c = nextClient THEN first ELSE kept[c]]
      BY <2>1 DEF Attach
    <3>2. kept = clients \/ DOMAIN kept = {}
      BY DEF NoClients
    <3>3. nextClient \notin DOMAIN clients
      BY DEF Core, TypeOK, ClientsType
    <3>. HIDE DEF kept, first
    <3>. QED  BY <3>1, <3>2, <3>3
  <2>2. CASE ShotDetach
    BY <1>2, <2>2 DEF ShotDetach
  <2>3. ASSUME NEW k \in Idx(windows), ShotKill(k) PROVE Asked
    BY <1>3, <2>3 DEF ShotKill
  <2>4. CASE ShotShutdown \/ ShotCreate \/ ShotSelect \/ ShotNext \/ ShotPrev
             \/ ShotWipe \/ ReplyFails \/ ShotWriteFails
    BY <1>1, <2>4 DEF ShotShutdown, ShotCreate, ShotSelect, ShotNext, ShotPrev,
                      ShotWipe, ReplyFails, ShotWriteFails, clientVars
  <2>5. ASSUME NEW k \in Idx(windows), ShotRemove(k) PROVE Asked
    BY <1>1, <2>5 DEF ShotRemove, clientVars
  <2>6. ASSUME NEW n \in RenumberTo, ShotRenumber(n) PROVE Asked
    BY <1>1, <2>6 DEF ShotRenumber, clientVars
  <2>. QED  BY <1>5, <2>1, <2>2, <2>3, <2>4, <2>5, <2>6 DEF Connection
<1>6. ASSUME NEW c \in readers, ClientEvent(c)
      PROVE  Asked \/ \E k \in Idx(windows) : EvKill(c, k)
  <2>1. ASSUME NEW i, clients' = Viewing(c, i) PROVE Asked
    BY <2>1 DEF Viewing
  <2>2. CASE EvSelect(c) \/ EvNext(c) \/ EvPrev(c) \/ EvOther(c)
    BY <2>1, <2>2 DEF EvSelect, EvNext, EvPrev, EvOther, GoTo
  <2>3. CASE EvCreate(c)
    <3>1. ASSUME NEW i, SendTo(Viewing(c, i), c) PROVE Asked
      BY <3>1 DEF SendTo, Viewing, Without
    <3>2. ASSUME SendTo(clients, c) PROVE Asked
      BY <3>2 DEF SendTo, Without
    <3>. QED  BY <1>1, <2>3, <3>1, <3>2 DEF EvCreate
  <2>4. CASE EvDetach(c)
    BY <2>4 DEF EvDetach, Without
  <2>5. CASE EvClick(c)
    <3>1. PICK i \in FirstLive(windows), gone \in SUBSET DOMAIN clients :
             clients' = Without([d \in DOMAIN clients |-> [selected |-> i, last |-> clients[d].selected]], gone)
      BY <2>5 DEF EvClick
    <3>. QED  BY <3>1 DEF Without
  <2>6. CASE EvTell(c) \/ EvSplit(c) \/ EvRemoveRegion(c) \/ EvOnly(c) \/ EvFocus(c)
    BY <1>3, <2>6 DEF EvTell, EvSplit, EvRemoveRegion, EvOnly, EvFocus
  <2>7. CASE EvWipe(c) \/ EvInfoPanics(c) \/ EvWriteFails(c) \/ EvShutdown(c)
    BY <1>1, <2>7 DEF EvWipe, EvInfoPanics, EvWriteFails, EvShutdown, clientVars
  <2>8. ASSUME NEW k \in Idx(windows), EvRemove(c, k) PROVE Asked
    BY <1>1, <2>8 DEF EvRemove, clientVars
  <2>9. ASSUME NEW n \in RenumberTo, EvRenumber(c, n) PROVE Asked
    BY <1>1, <2>9 DEF EvRenumber, clientVars
  <2>. QED  BY <1>6, <2>2, <2>3, <2>4, <2>5, <2>6, <2>7, <2>8, <2>9 DEF ClientEvent
<1>7. CASE Command
  <2>1. CASE CmdKill
    BY <1>1, <1>3, <2>1 DEF CmdKill
  <2>2. CASE CmdSelect \/ CmdNext \/ CmdPrev \/ CmdCreate \/ CmdSplit \/ CmdRemove \/ CmdOnly
             \/ CmdFocus \/ CmdLayoutSave \/ CmdLayoutLoad \/ CmdLayoutRemove
             \/ CmdMaxwin \/ CmdAutoNuke \/ CmdQuit
    BY <1>1, <2>2 DEF CmdSelect, CmdNext, CmdPrev, CmdCreate, CmdSplit, CmdRemove, CmdOnly,
                      CmdFocus, CmdLayoutSave, CmdLayoutLoad, CmdLayoutRemove, CmdMaxwin,
                      CmdAutoNuke, CmdQuit, clientVars
  <2>. QED  BY <1>7, <2>1, <2>2 DEF Command
<1>8. CASE Pass
  BY <1>1, <1>3, <1>8 DEF Pass, EndAccept, EndEvents, PollOutput, clientVars
<1>9. ASSUME NEW i \in Idx(windows), ChildExit(i) PROVE Asked
  BY <1>1, <1>9 DEF ChildExit, clientVars
<1>. QED  BY <1>4, <1>5, <1>6, <1>7, <1>8, <1>9 DEF Next

\* remove_dead_windows shortens a table with a dead row in it.
LEMMA DropShortens ==
    ASSUME NEW t \in Seq(Window), NEW s, DropDead(t, s),
           NEW d \in 1 .. Len(t), ~t[d].alive
    PROVE  Len(windows') < Len(t)
<1>. DEFINE L == {k \in DOMAIN t : t[k].alive}
<1>1. PICK f \in Orders(L) : windows' = [k \in DOMAIN f |-> t[f[k]]]
  BY DEF DropDead
<1>2. Len(t) \in Nat /\ IsFiniteSet(1 .. Len(t)) /\ Cardinality(1 .. Len(t)) = Len(t)
  <2>1. 1 \in Int /\ Len(t) \in Int /\ Len(t) \in Nat
    OBVIOUS
  <2>. QED  BY <2>1, FS_Interval
<1>3. L \in SUBSET (1 .. Len(t)) /\ L # 1 .. Len(t)
  OBVIOUS
<1>. HIDE DEF L
<1>4. IsFiniteSet(L) /\ Cardinality(L) <= Len(t) /\ Cardinality(L) # Len(t)
  BY <1>2, <1>3, FS_Subset
<1>5. Cardinality(L) \in Nat
  BY <1>4, FS_CardinalityType
<1>6. windows' \in Seq(Window)
  BY DropRows
<1>7. DOMAIN windows' = 1 .. Cardinality(L)
  BY <1>1 DEF Orders
<1>8. Len(windows') = Cardinality(L)
  BY <1>5, <1>6, <1>7
<1>. QED  BY <1>2, <1>4, <1>5, <1>8

\* A viewer that is moved was looking at one of `gone`, and looks at a live window.
LEMMA MovedViewer ==
    ASSUME ClientsType, NEW t \in Seq(Window), NEW lost, NEW gone,
           clients' = MoveViewers(Without(clients, lost), t, gone),
           NEW c \in DOMAIN clients \cap DOMAIN clients',
           clients'[c].selected # clients[c].selected
    PROVE  clients[c].selected \in gone /\ clients'[c].selected \in LiveIdx(t)
<1>. DEFINE old == clients[c]
<1>1. old \in Client
  BY DEF ClientsType
<1>2. clients'[c] = IF old.selected \in gone /\ LiveIdx(t) # {}
                    THEN [old EXCEPT !.selected = NextIndex(t, old.selected)] ELSE old
  BY DEF MoveViewers, Without
<1>. HIDE DEF old
<1>3. old.selected \in gone /\ LiveIdx(t) # {} /\ clients'[c].selected = NextIndex(t, old.selected)
  BY <1>1, <1>2 DEF Client, old
<1>. QED  BY <1>1, <1>3, NextIndexIsLive DEF Client, old

\* kill_window's clean-up moves viewers off the killed window only.
LEMMA KillMovesOffTheDead ==
    ASSUME TableType, TableType', ClientsType,
           NEW c \in readers, NEW k \in Idx(windows), EvKill(c, k), Len(windows') = Len(windows),
           NEW d \in DOMAIN clients \cap DOMAIN clients',
           clients'[d].selected # clients[d].selected
    PROVE  ~At(windows', clients[d].selected).alive /\ At(windows', clients'[d].selected).alive
<1>. USE DEF TableType
<1>. DEFINE t == Killed(windows, k)
<1>1. /\ t \in Seq(Window) /\ Len(t) = Len(windows)
      /\ \A i \in Idx(windows) : At(t, i).number = At(windows, i).number
      /\ ~At(t, k).alive
  BY KilledFacts
<1>2. windows' = t
  <2>1. DropDead(t, selected) \/ windows' = t
    BY DEF EvKill
  <2>. HIDE DEF t
  <2>2. k + 1 \in 1 .. Len(t) /\ ~t[k + 1].alive
    BY <1>1 DEF Idx, At
  <2>. QED  BY <1>1, <2>1, <2>2, DropShortens
<1>3. PICK lost \in SUBSET DOMAIN clients :
         clients' = MoveViewers(Without(clients, lost), windows',
                       {i \in First(windows') : At(windows', i).number = At(windows, k).number})
  BY DEF EvKill
<1>4. /\ clients[d].selected \in First(windows')
      /\ At(windows', clients[d].selected).number = At(windows, k).number
      /\ clients'[d].selected \in LiveIdx(windows')
  BY <1>3, MovedViewer
<1>. HIDE DEF t
<1>5. Idx(windows') = Idx(windows) /\ k \in First(windows)
  BY <1>1, <1>2 DEF Idx, EvKill
<1>6. clients[d].selected = k
  <2>. DEFINE o == clients[d].selected
  <2>1. o \in Idx(windows) /\ At(windows, o).number = At(windows, k).number
    BY <1>1, <1>2, <1>4, <1>5 DEF First
  <2>2. \A j \in Idx(windows) : j < o => At(windows, j).number # At(windows, o).number
    BY <1>1, <1>2, <1>4, <1>5, <2>1 DEF First
  <2>3. ~(o < k)
    BY <1>5, <2>1 DEF First
  <2>4. ~(k < o)
    BY <1>5, <2>1, <2>2 DEF First
  <2>. QED  BY <2>1, <2>3, <2>4 DEF Idx
<1>. QED  BY <1>1, <1>2, <1>4, <1>6 DEF LiveIdx

\* check_exits moves viewers off what it marks.
LEMMA CheckMovesOffTheDead ==
    ASSUME TableType, TableType', ClientsType, CheckExits, Len(windows') = Len(windows),
           NEW d \in DOMAIN clients \cap DOMAIN clients',
           clients'[d].selected # clients[d].selected
    PROVE  ~At(windows', clients[d].selected).alive /\ At(windows', clients'[d].selected).alive
<1>. USE DEF TableType
<1>. DEFINE t == Marked(windows)
            gone == ExitedIdx(windows)
<1>1. /\ t \in Seq(Window) /\ Len(t) = Len(windows)
      /\ \A p \in DOMAIN windows : t[p].alive <=> windows[p].alive /\ windows[p].pty # "exited"
  BY MarkedFacts
<1>2. PICK lost \in SUBSET DOMAIN clients : clients' = MoveViewers(Without(clients, lost), t, gone)
  BY DEF CheckExits
<1>3. \/ windows' = t
      \/ \E s : DropDead(t, s)
  BY DEF CheckExits
<1>. HIDE DEF t
<1>4. clients[d].selected \in gone /\ clients'[d].selected \in LiveIdx(t)
  BY <1>1, <1>2, MovedViewer
<1>5. clients[d].selected + 1 \in 1 .. Len(t) /\ ~t[clients[d].selected + 1].alive
  BY <1>1, <1>4 DEF ExitedIdx, Idx, At
<1>6. windows' = t
  BY <1>1, <1>3, <1>5, DropShortens
<1>. QED  BY <1>4, <1>5, <1>6 DEF LiveIdx, At

\* A client that did not ask to go elsewhere is moved only off a dead window and
\* onto a live one, as long as the table keeps its length.
THEOREM ForcedMovesAreFair == Spec => ForcedMovesLeaveTheDead
<1>1. IInv /\ IInv' /\ [Next]_vars =>
        [Len(windows') = Len(windows) =>
           \A c \in DOMAIN clients \cap DOMAIN clients' :
               LET old == clients[c].selected
                   new == clients'[c].selected
               IN  new # old /\ old \in Idx(windows)
                   /\ clients'[c].last = clients[c].last /\ clients[c].last # old
                   => ~At(windows', old).alive /\ At(windows', new).alive]_vars
  <2>. SUFFICES ASSUME IInv, IInv', Next, Len(windows') = Len(windows),
                       NEW c \in DOMAIN clients \cap DOMAIN clients',
                       clients'[c].selected # clients[c].selected,
                       clients'[c].last = clients[c].last, clients[c].last # clients[c].selected
                PROVE  /\ ~At(windows', clients[c].selected).alive
                       /\ At(windows', clients'[c].selected).alive
    OBVIOUS
  <2>1. Core /\ TableType /\ TableType' /\ ClientsType
    BY IInvMeans DEF Core, IInv, TableInv, ClientInv
  <2>2. ~Asked
    BY DEF Asked
  <2>3. CASE CheckExits
    BY <2>1, <2>3, CheckMovesOffTheDead
  <2>4. ASSUME NEW r \in readers, NEW k \in Idx(windows), EvKill(r, k)
        PROVE  ~At(windows', clients[c].selected).alive /\ At(windows', clients'[c].selected).alive
    BY <2>1, <2>4, KillMovesOffTheDead
  <2>. QED  BY <2>1, <2>2, <2>3, <2>4, MovesOfStep
<1>. QED  BY <1>1, AlwaysIInv, PTL DEF Spec, ForcedMovesLeaveTheDead

-----------------------------------------------------------------------------
(* Indices that stay in the table.                                          *)

\* Wherever an effect on the table leaves the session's index, it is in the
\* table if every index was and the table is no shorter.
LEMMA SelectedKept ==
    ASSUME TableType, TableType', TableStep, Indices \subseteq Idx(windows),
           Len(windows') >= Len(windows)
    PROVE  selected' \in Idx(windows')
<1>. USE DEF TableType
<1>1. selected \in Idx(windows) /\ {regions[k] : k \in DOMAIN regions} \subseteq Idx(windows)
  BY DEF Indices
<1>2. Idx(windows) \subseteq Idx(windows') /\ 0 \in Idx(windows')
  BY <1>1 DEF Idx
<1>3. CASE UNCHANGED tableVars \/ CreateFails \/ Kills \/ Renumbers \/ Exits
  BY <1>1, <1>2, <1>3 DEF tableVars, CreateFails, Kills, Renumbers, Exits
<1>4. CASE Selects
  BY <1>1, <1>2, <1>4 DEF Selects
<1>5. CASE Pushes
  BY <1>5 DEF Pushes
<1>6. CASE KillsAndDrops
  <2>1. PICK k \in Idx(windows) : DropDead(Killed(windows, k), selected)
    BY <1>6 DEF KillsAndDrops
  <2>2. Killed(windows, k) \in Seq(Window)
    BY KilledFacts
  <2>. QED  BY <1>2, <2>1, <2>2, DropFacts DEF InTable
<1>7. CASE Drops
  BY <1>2, <1>7, DropFacts DEF Drops, InTable
<1>8. CASE Removes
  BY <1>1, <1>2, <1>8, RemoveFacts DEF Removes, InTable
<1>9. CASE Marks
  <2>1. PICK s \in Idx(windows) \cup {selected} :
           DropDead(Marked(windows), s) \/ (windows' = Marked(windows) /\ selected' = s)
    BY <1>9 DEF Marks
  <2>2. s \in Idx(windows) /\ s \in Nat /\ Marked(windows) \in Seq(Window)
    BY <1>1, <2>1, MarkedFacts DEF Idx
  <2>. QED  BY <1>2, <2>1, <2>2, DropFacts DEF InTable
<1>. QED  BY <1>3, <1>4, <1>5, <1>6, <1>7, <1>8, <1>9 DEF TableStep

\* So does what is done to the clients' indices.
LEMMA ViewsKept ==
    ASSUME NEW U, selected \in U, Within(clients, U), ClientStep(U)
    PROVE  \A c \in DOMAIN clients' : clients'[c] \in View(U)
<1>1. CASE Rewrites(U)
  BY <1>1 DEF Rewrites, Within
<1>2. ASSUME NEW multi \in BOOLEAN, Attach(multi) PROVE \A c \in DOMAIN clients' : clients'[c] \in View(U)
  <2>. DEFINE kept == IF multi THEN clients ELSE NoClients
              first == [selected |-> selected, last |-> selected]
  <2>1. \A c \in DOMAIN kept : kept[c] \in View(U)
    BY DEF Within, NoClients
  <2>2. first \in View(U)
    BY DEF View
  <2>3. clients' = [c \in DOMAIN kept \cup {nextClient} |-> IF c = nextClient THEN first ELSE kept[c]]
    BY <1>2 DEF Attach
  <2>. HIDE DEF kept, first
  <2>. QED  BY <2>1, <2>2, <2>3
<1>3. ASSUME NEW c \in readers, EvDetach(c) PROVE \A d \in DOMAIN clients' : clients'[d] \in View(U)
  BY <1>3, WithoutFacts DEF EvDetach, Within
<1>. QED  BY <1>1, <1>2, <1>3 DEF ClientStep

\* Only the removal of windows makes an index stale: the session's, the
\* clients', the regions' and the saved regions'.
THEOREM OnlyRemovalsMakeStale == Spec => RangeKept
<1>1. IInv /\ IInv' /\ [Next]_vars =>
        [Indices \subseteq Idx(windows) /\ Len(windows') >= Len(windows)
         => Indices' \subseteq Idx(windows')]_vars
  <2>. SUFFICES ASSUME IInv, IInv', Next, Indices \subseteq Idx(windows),
                       Len(windows') >= Len(windows)
                PROVE  Indices' \subseteq Idx(windows')
    OBVIOUS
  <2>. PICK U : U = Idx(windows')
    OBVIOUS
  <2>1. /\ Core /\ TableType /\ TableType' /\ TableStep /\ ClientsType /\ RegionsType
        /\ RegionInv /\ RegionStep
    BY IInvMeans, StepOnTable, StepOnRegions DEF Core, IInv, TableInv, ClientInv, RegionInv
  <2>2. Idx(windows) \subseteq U /\ U \in SUBSET Nat /\ selected \in U /\ 0 \in U
    <3>1. selected \in Idx(windows)
      BY DEF Indices
    <3>. QED  BY <2>1, <3>1 DEF TableType, Idx
  <2>3. selected' \in U
    BY <2>1, SelectedKept
  <2>4. \A c \in DOMAIN clients' : clients'[c] \in View(U)
    <3>1. Within(clients, U)
      <4>1. \A c \in DOMAIN clients : clients[c] \in Client /\ clients[c].selected \in U /\ clients[c].last \in U
        BY <2>1, <2>2 DEF ClientsType, Indices
      <4>. QED  BY <2>1, <4>1 DEF Within, View, Client, ClientsType
    <3>2. ClientStep(U)
      BY <2>1, <2>2, <3>1, StepOnClients
    <3>. QED  BY <2>2, <3>1, <3>2, ViewsKept
  <2>5. RegionsWithin(U)'
    <3>1. RegionsWithin(U)
      <4>1. /\ \A k \in DOMAIN regions : regions[k] \in U
            /\ \A k \in DOMAIN saved : saved[k] \in U
        BY <2>2 DEF Indices
      <4>. QED  BY <2>1, <4>1 DEF RegionsWithin, RegionsType
    <3>. QED  BY <2>1, <2>2, <3>1, RegionInvStep
  <2>. QED  BY <2>3, <2>4, <2>5 DEF Indices, View, RegionsWithin
<1>. QED  BY <1>1, AlwaysIInv, PTL DEF Spec, RangeKept

-----------------------------------------------------------------------------
(* The session's place after a removal.                                     *)

\* remove_dead_windows takes off the index as many as there are dead rows before
\* it, which is where the row has gone.
LEMMA DropFollows ==
    ASSUME NEW t \in Seq(Window), NEW i \in LiveIdx(t), DropDead(t, i)
    PROVE  At(windows', selected') = At(t, i)
<1>. DEFINE L == {k \in DOMAIN t : t[k].alive}
            dead == DeadBefore(t, i)
            before == {j \in Idx(t) : j < i /\ At(t, j).alive}
<1>1. PICK f \in Orders(L) : windows' = [k \in DOMAIN f |-> t[f[k]]]
  BY DEF DropDead
<1>. DEFINE u == [k \in DOMAIN f |-> t[f[k]]]
<1>2. /\ u \in Seq(Window)
      /\ DOMAIN f = 1 .. Len(u)
      /\ \A k \in 1 .. Len(u) : f[k] \in 1 .. Len(t) /\ u[k] = t[f[k]] /\ t[f[k]].alive
      /\ \A j, k \in 1 .. Len(u) : j < k => f[j] < f[k]
      /\ \A p \in 1 .. Len(t) : t[p].alive => \E k \in 1 .. Len(u) : f[k] = p
  BY LivingFacts
<1>. HIDE DEF u
<1>3. i \in Nat /\ i + 1 \in 1 .. Len(t) /\ t[i + 1].alive /\ Len(t) \in Nat
  BY DEF LiveIdx, Idx, At
<1>4. PICK k \in 1 .. Len(u) : f[k] = i + 1
  BY <1>2, <1>3
<1>5. k - 1 \in Nat /\ Len(u) \in Nat
  BY <1>2
<1>. HIDE DEF L
<1>6. Cardinality(before) = k - 1 /\ IsFiniteSet(before)
  <2>. DEFINE g == [j \in 1 .. k - 1 |-> f[j] - 1]
  <2>1. g \in [1 .. k - 1 -> before]
    <3>. SUFFICES ASSUME NEW j \in 1 .. k - 1 PROVE f[j] - 1 \in before
      OBVIOUS
    <3>1. j \in 1 .. Len(u) /\ j < k
      BY <1>4, <1>5
    <3>2. f[j] \in 1 .. Len(t) /\ t[f[j]].alive /\ f[j] < i + 1
      BY <1>2, <1>4, <3>1
    <3>. QED  BY <1>3, <3>2 DEF Idx, At
  <2>2. ASSUME NEW a \in 1 .. k - 1, NEW b \in 1 .. k - 1, f[a] - 1 = f[b] - 1 PROVE a = b
    <3>1. a \in 1 .. Len(u) /\ b \in 1 .. Len(u)
      BY <1>4, <1>5
    <3>2. f[a] \in Nat /\ f[b] \in Nat /\ f[a] = f[b]
      BY <1>2, <2>2, <3>1
    <3>. QED  BY <1>2, <3>1, <3>2
  <2>3. ASSUME NEW j \in before PROVE \E a \in 1 .. k - 1 : f[a] - 1 = j
    <3>1. j \in Nat /\ j < i /\ j + 1 \in 1 .. Len(t) /\ t[j + 1].alive
      BY DEF Idx, At
    <3>2. PICK a \in 1 .. Len(u) : f[a] = j + 1
      BY <1>2, <3>1
    <3>3. a < k
      <4>1. f[a] < f[k]
        BY <1>3, <1>4, <3>1, <3>2
      <4>2. ~(k < a) /\ a # k
        BY <1>2, <1>3, <1>4, <3>1, <3>2, <4>1
      <4>. QED  BY <4>2
    <3>. QED  BY <1>4, <3>1, <3>2, <3>3
  <2>. HIDE DEF before
  <2>4. g \in Bijection(1 .. k - 1, before)
    <3>1. g \in Injection(1 .. k - 1, before)
      BY <2>1, <2>2 DEF Injection, IsInjective
    <3>2. g \in Surjection(1 .. k - 1, before)
      BY <2>1, <2>3 DEF Surjection
    <3>. QED  BY <3>1, <3>2 DEF Bijection
  <2>5. IsFiniteSet(1 .. k - 1) /\ Cardinality(1 .. k - 1) = k - 1
    BY <1>5, UpToFacts
  <2>. QED  BY <2>4, <2>5, FS_Bijection DEF ExistsBijection
<1>7. dead \cup before = 0 .. i - 1 /\ dead \cap before = {} /\ dead \subseteq 0 .. i - 1
  BY <1>3 DEF DeadBefore, Idx
<1>. HIDE DEF dead, before
<1>8. IsFiniteSet(0 .. i - 1) /\ Cardinality(0 .. i - 1) = i
  BY <1>3, UpToFacts
<1>9. IsFiniteSet(dead) /\ Cardinality(dead) \in Nat
  BY <1>7, <1>8, FS_Subset, FS_CardinalityType
<1>10. i = Cardinality(dead) + (k - 1)
  <2>1. Cardinality(dead \cup before) = Cardinality(dead) + Cardinality(before) - Cardinality(dead \cap before)
    BY <1>6, <1>9, FS_Union
  <2>2. Cardinality(dead \cap before) = 0
    BY <1>7, FS_EmptySet
  <2>3. Cardinality(dead \cup before) = i
    BY <1>7, <1>8
  <2>. QED  BY <1>3, <1>5, <1>6, <1>9, <2>1, <2>2, <2>3
<1>11. selected' = k - 1
  <2>1. selected' = Lesser(SatSub(i, Cardinality(dead)), SatSub(Len(windows'), 1))
    BY DEF DropDead, dead
  <2>2. windows' = u
    BY <1>1 DEF u
  <2>. QED  BY <1>4, <1>5, <1>9, <1>10, <2>1, <2>2 DEF Lesser, SatSub
<1>. QED  BY <1>1, <1>2, <1>4, <1>11 DEF At, u

\* Wiping, and the removals of auto-nuke after exits, keep the session on its window.
THEOREM SelectionStaysPut == Spec => SelectionFollows
<1>1. IInv /\ IInv' /\ [Next]_vars =>
        [ShotWipe \/ CheckExits \/ (\E c \in readers : EvWipe(c)) =>
           \A i \in Idx(windows) : selected = i /\ Survives(i) =>
               At(windows', selected').id = At(windows, i).id]_vars
  <2>. SUFFICES ASSUME IInv, ShotWipe \/ CheckExits \/ (\E c \in readers : EvWipe(c)),
                       selected \in Idx(windows), Survives(selected)
                PROVE  At(windows', selected').id = At(windows, selected).id
    OBVIOUS
  <2>. USE DEF IInv, TableInv, TableType
  <2>1. selected \in LiveIdx(windows)
    BY DEF Survives, LiveIdx
  <2>2. CASE DropDead(windows, selected)
    BY <2>1, <2>2, DropFollows
  <2>3. CASE CheckExits
    <3>. DEFINE t == Marked(windows)
    <3>1. /\ t \in Seq(Window) /\ Len(t) = Len(windows)
          /\ \A k \in DOMAIN windows : /\ t[k].id = windows[k].id
                                       /\ t[k].alive <=> windows[k].alive /\ windows[k].pty # "exited"
      BY MarkedFacts
    <3>2. selected + 1 \in DOMAIN windows /\ windows[selected + 1].alive
          /\ windows[selected + 1].pty = "running"
      BY <2>1, <2>3 DEF Survives, CheckExits, LiveIdx, Idx, At
    <3>3. selected \notin ExitedIdx(windows)
      BY <3>2 DEF ExitedIdx, At
    <3>4. DropDead(t, selected) \/ (windows' = t /\ selected' = selected)
      BY <2>3, <3>3 DEF CheckExits
    <3>. HIDE DEF t
    <3>5. selected \in LiveIdx(t) /\ At(t, selected).id = At(windows, selected).id
      BY <3>1, <3>2 DEF LiveIdx, Idx, At
    <3>. QED  BY <3>1, <3>4, <3>5, DropFollows
  <2>. QED  BY <2>2, <2>3 DEF ShotWipe, EvWipe
<1>. QED  BY <1>1, AlwaysIInv, PTL DEF Spec, SelectionFollows

-----------------------------------------------------------------------------
(* The life of the windows.                                                 *)

\* The table gives each id to one row, and a row that is not dead has a program,
\* running or not.
LiveKnown == \A k \in DOMAIN windows : windows[k].alive => windows[k].pty # "none"

LEMMA LiveKnownStep ==
    ASSUME TableType, LiveKnown, TableStep
    PROVE  LiveKnown'
<1>. USE DEF LiveKnown, TableType
<1>1. CASE UNCHANGED tableVars \/ Selects \/ CreateFails
  BY <1>1 DEF tableVars, Selects, CreateFails
<1>2. CASE Pushes
  <2>. DEFINE w == [id |-> nextId, number |-> nextNumber, alive |-> TRUE, pty |-> "running"]
  <2>1. w \in Window /\ w.pty = "running"
    BY ConstantsAssumption DEF Window
  <2>2. windows' = Append(windows, w)
    BY <1>2 DEF Pushes, PushWindow
  <2>. HIDE DEF w
  <2>. QED  BY <2>1, <2>2, AppendProperties
<1>3. ASSUME NEW i \in Idx(windows), NEW t, t = Killed(windows, i)
      PROVE  t \in Seq(Window) /\ \A k \in DOMAIN t : t[k].alive => t[k].pty # "none"
  <2>1. /\ t \in Seq(Window) /\ Len(t) = Len(windows)
        /\ \A k \in Idx(windows) : k # i => At(t, k) = At(windows, k)
        /\ ~At(t, i).alive
    BY <1>3, KilledFacts
  <2>2. \A k \in DOMAIN t : k \in DOMAIN windows /\ k - 1 \in Idx(windows)
                             /\ t[k] = At(t, k - 1) /\ windows[k] = At(windows, k - 1)
    BY <2>1 DEF Idx, At
  <2>3. \A k \in DOMAIN t : ~t[k].alive \/ t[k] = windows[k]
    BY <2>1, <2>2
  <2>. QED  BY <2>1, <2>2, <2>3
<1>4. CASE Kills
  BY <1>3, <1>4 DEF Kills
<1>5. CASE KillsAndDrops
  BY <1>3, <1>5, DropRows DEF KillsAndDrops
<1>6. CASE Drops
  BY <1>6, DropRows DEF Drops
<1>7. CASE Removes
  BY <1>7, RemoveRows DEF Removes
<1>8. CASE Renumbers
  BY <1>8, RenumberFacts DEF Renumbers
<1>9. CASE Marks
  <2>1. /\ Marked(windows) \in Seq(Window)
        /\ \A k \in DOMAIN Marked(windows) : Marked(windows)[k].alive => Marked(windows)[k].pty # "none"
    BY MarkedFacts
  <2>. QED  BY <1>9, <2>1, DropRows DEF Marks
<1>10. CASE Exits
  BY <1>10, ExitFacts
<1>. QED  BY <1>1, <1>2, <1>4, <1>5, <1>6, <1>7, <1>8, <1>9, <1>10 DEF TableStep

LEMMA AlwaysLiveKnown == Spec => []LiveKnown
<1>1. Init => LiveKnown
  <2>. SUFFICES ASSUME Init PROVE LiveKnown
    OBVIOUS
  <2>. QED  BY DEF Init, LiveKnown
<1>2. IInv /\ LiveKnown /\ [Next]_vars => LiveKnown'
  <2>. SUFFICES ASSUME IInv, LiveKnown, [Next]_vars PROVE LiveKnown'
    OBVIOUS
  <2>1. CASE Next
    BY <2>1, IInvMeans, StepOnTable, LiveKnownStep DEF Core, IInv, TableInv
  <2>2. CASE UNCHANGED vars
    BY <2>2 DEF vars, tableVars, LiveKnown
  <2>. QED  BY <2>1, <2>2
<1>. QED  BY <1>1, <1>2, AlwaysIInv, PTL DEF Spec

\* A setting never changes together with the table.
LEMMA SettingsStep ==
    ASSUME Core, Next
    PROVE  UNCHANGED autoNuke \/ (UNCHANGED tableVars /\ autoNuke' \in BOOLEAN)
<1>1. CASE Poll
  BY <1>1 DEF Poll, PollQuiet, PollHangup, PollShutdown, settingVars
<1>2. CASE Connection
  BY <1>2 DEF Connection, settingVars, Attach, ShotDetach, ShotShutdown, ReplyFails, ShotWriteFails, ShotCreate,
     ShotSelect, ShotNext, ShotPrev, ShotKill, ShotRemove, ShotRenumber, ShotWipe
<1>3. ASSUME NEW c \in readers, ClientEvent(c) PROVE UNCHANGED autoNuke
  BY <1>3 DEF ClientEvent, settingVars, EvSelect, EvNext, EvPrev, EvOther, EvTell, EvInfoPanics, EvWriteFails,
     EvDetach, EvShutdown, EvClick, EvCreate, EvKill, EvRemove, EvRenumber, EvWipe, EvSplit, EvOnly, EvRemoveRegion,
     EvFocus, GoTo
<1>4. CASE Command
  BY <1>4 DEF Command, settingVars, CmdSelect, CmdNext, CmdPrev, CmdCreate, CmdKill, CmdSplit, CmdRemove, CmdOnly,
     CmdFocus, CmdLayoutSave, CmdLayoutLoad, CmdLayoutRemove, CmdMaxwin, CmdAutoNuke, CmdQuit
<1>5. CASE Pass
  BY <1>5 DEF Pass, EndAccept, EndEvents, PollOutput, CheckExits, settingVars
<1>6. CASE \E i \in Idx(windows) : ChildExit(i)
  BY <1>6 DEF ChildExit, settingVars
<1>. QED  BY <1>1, <1>2, <1>3, <1>4, <1>5, <1>6 DEF Next

\* A table whose rows are told apart by their ids, and in which no program runs
\* in a dead window.
Sound(t) ==
    /\ t \in Seq(Window)
    /\ \A k \in DOMAIN t : /\ t[k].pty = "running" => t[k].alive
                           /\ t[k].alive => t[k].pty # "none"
    /\ \A j, k \in DOMAIN t : t[j].id = t[k].id => j = k

\* What remove_dead_windows leaves of the three sets.
LEMMA LivesDropped ==
    ASSUME NEW t \in Seq(Window), NEW s, DropDead(t, s),
           \A k \in DOMAIN t : t[k].pty = "running" => t[k].alive
    PROVE  /\ RunningIds(windows') = RunningIds(t)
           /\ UnnoticedIds(windows') = UnnoticedIds(t)
           /\ DeadIds(windows') = {}
<1>1. /\ \A k \in DOMAIN windows' : \E p \in DOMAIN t : windows'[k] = t[p] /\ t[p].alive
      /\ \A p \in DOMAIN t : t[p].alive => \E k \in DOMAIN windows' : windows'[k] = t[p]
  BY DropRows
<1>2. RunningIds(windows') = RunningIds(t)
  BY <1>1 DEF RunningIds
<1>3. UnnoticedIds(windows') = UnnoticedIds(t)
  BY <1>1 DEF UnnoticedIds
<1>4. DeadIds(windows') = {}
  BY <1>1 DEF DeadIds
<1>. QED  BY <1>2, <1>3, <1>4

\* What a change of one row, which keeps its id, does to them.
LEMMA LivesOfOneRow ==
    ASSUME NEW t, Sound(t), NEW u \in Seq(Window), Len(u) = Len(t), NEW p \in DOMAIN t,
           \A k \in DOMAIN t : k # p => u[k] = t[k], u[p].id = t[p].id
    PROVE  LET n == t[p].id
           IN  /\ RunningIds(u) = (RunningIds(t) \ {n}) \cup (IF u[p].pty = "running" THEN {n} ELSE {})
               /\ UnnoticedIds(u) = (UnnoticedIds(t) \ {n})
                                      \cup (IF u[p].alive /\ u[p].pty = "exited" THEN {n} ELSE {})
               /\ DeadIds(u) = (DeadIds(t) \ {n}) \cup (IF ~u[p].alive THEN {n} ELSE {})
<1>. DEFINE n == t[p].id
<1>1. /\ DOMAIN u = DOMAIN t /\ \A k \in DOMAIN t : k = p <=> t[k].id = n
      /\ \A k \in DOMAIN t : k # p => u[k] = t[k]
      /\ u[p].id = n
  BY DEF Sound
<1>. HIDE DEF n
<1>2. RunningIds(u) = (RunningIds(t) \ {n}) \cup (IF u[p].pty = "running" THEN {n} ELSE {})
  BY <1>1 DEF RunningIds
<1>3. UnnoticedIds(u) = (UnnoticedIds(t) \ {n}) \cup (IF u[p].alive /\ u[p].pty = "exited" THEN {n} ELSE {})
  BY <1>1 DEF UnnoticedIds
<1>4. DeadIds(u) = (DeadIds(t) \ {n}) \cup (IF ~u[p].alive THEN {n} ELSE {})
  BY <1>1 DEF DeadIds
<1>. QED  BY <1>2, <1>3, <1>4 DEF n

\* Where a row is by its id.
LEMMA LifeOfRow ==
    ASSUME NEW t, Sound(t), NEW p \in DOMAIN t
    PROVE  LET n == t[p].id
           IN  /\ n \in RunningIds(t) <=> t[p].pty = "running"
               /\ n \in UnnoticedIds(t) <=> t[p].alive /\ t[p].pty = "exited"
               /\ n \in DeadIds(t) <=> ~t[p].alive
BY DEF Sound, RunningIds, UnnoticedIds, DeadIds

LEMMA KilledLives ==
    ASSUME NEW t, Sound(t), NEW i \in Idx(t)
    PROVE  LET n == At(t, i).id
               u == Killed(t, i)
           IN  /\ n \in (RunningIds(t) \cup UnnoticedIds(t)) \cup DeadIds(t)
               /\ RunningIds(u) = RunningIds(t) \ {n}
               /\ UnnoticedIds(u) = UnnoticedIds(t) \ {n}
               /\ DeadIds(u) = DeadIds(t) \cup {n}
               /\ u \in Seq(Window) /\ \A k \in DOMAIN u : u[k].pty = "running" => u[k].alive
<1>. DEFINE n == At(t, i).id
            u == Killed(t, i)
            p == i + 1
<1>1. t \in Seq(Window) /\ p \in DOMAIN t /\ At(t, i) = t[p]
  BY DEF Sound, Idx, At
<1>2. /\ u \in Seq(Window) /\ Len(u) = Len(t)
      /\ \A k \in Idx(t) : /\ At(u, k).id = At(t, k).id
                           /\ k # i => At(u, k) = At(t, k)
      /\ ~At(u, i).alive /\ At(u, i).pty = "none"
  BY <1>1, KilledFacts
<1>3. \A k \in DOMAIN t : k - 1 \in Idx(t) /\ t[k] = At(t, k - 1) /\ u[k] = At(u, k - 1) /\ (k # p => k - 1 # i)
  BY <1>1 DEF Idx, At
<1>4. /\ \A k \in DOMAIN t : k # p => u[k] = t[k]
      /\ u[p].id = t[p].id /\ ~u[p].alive /\ u[p].pty = "none"
  BY <1>1, <1>2, <1>3 DEF At
<1>. HIDE DEF u, p
<1>5. /\ RunningIds(u) = (RunningIds(t) \ {t[p].id}) \cup {}
      /\ UnnoticedIds(u) = (UnnoticedIds(t) \ {t[p].id}) \cup {}
      /\ DeadIds(u) = (DeadIds(t) \ {t[p].id}) \cup {t[p].id}
  BY <1>1, <1>2, <1>4, LivesOfOneRow
<1>6. t[p].id \in (RunningIds(t) \cup UnnoticedIds(t)) \cup DeadIds(t)
  <2>1. t[p].pty \in {"none", "running", "exited"}
    <3>1. t[p] \in Window
      BY <1>1
    <3>. QED  BY <3>1 DEF Window
  <2>2. t[p].pty = "running" \/ (t[p].alive /\ t[p].pty = "exited") \/ ~t[p].alive
    BY <1>1, <2>1 DEF Sound
  <2>. QED  BY <1>1, <2>2, LifeOfRow
<1>7. \A k \in DOMAIN u : u[k].pty = "running" => u[k].alive
  BY <1>1, <1>2, <1>4 DEF Sound
<1>. QED  BY <1>1, <1>2, <1>5, <1>6, <1>7 DEF u

\* What one taken out leaves, if it was dead.
LEMMA RemovedLives ==
    ASSUME TableType, Sound(windows), NEW i \in Idx(windows), RemoveOne(i)
    PROVE  LET n == At(windows, i).id
           IN  /\ n \in DeadIds(windows)
               /\ RunningIds(windows') = RunningIds(windows)
               /\ UnnoticedIds(windows') = UnnoticedIds(windows)
               /\ DeadIds(windows') = DeadIds(windows) \ {n}
<1>. DEFINE p == i + 1
            n == At(windows, i).id
<1>1. /\ windows \in Seq(Window) /\ p \in 1 .. Len(windows) /\ Len(windows) \in Nat
      /\ n = windows[p].id /\ ~windows[p].alive
      /\ DOMAIN windows = 1 .. Len(windows)
  BY DEF TableType, Idx, At, RemoveOne
<1>2. /\ windows' \in Seq(Window) /\ Len(windows') = Len(windows) - 1
      /\ \A k \in 1 .. Len(windows) - 1 : windows'[k] = windows[IF k < p THEN k ELSE k + 1]
  BY <1>1, RemoveAtFacts DEF RemoveOne
<1>. HIDE DEF p, n
<1>3. \A k \in DOMAIN windows' : \E q \in DOMAIN windows : q # p /\ windows'[k] = windows[q]
  <2>1. ASSUME NEW k \in DOMAIN windows' PROVE \E q \in DOMAIN windows : q # p /\ windows'[k] = windows[q]
    <3>1. k \in 1 .. Len(windows) - 1 /\ k \in 1 .. Len(windows) /\ k + 1 \in 1 .. Len(windows)
      BY <1>1, <1>2, <2>1
    <3>2. CASE k < p
      <4>1. k # p /\ windows'[k] = windows[k]
        BY <1>1, <1>2, <3>1, <3>2
      <4>. QED  BY <1>1, <3>1, <4>1
    <3>3. CASE ~(k < p)
      <4>1. k + 1 # p /\ windows'[k] = windows[k + 1]
        BY <1>1, <1>2, <3>1, <3>3
      <4>. QED  BY <1>1, <3>1, <4>1
    <3>. QED  BY <3>2, <3>3
  <2>. QED  BY <2>1
<1>4. \A q \in DOMAIN windows : q # p => \E k \in DOMAIN windows' : windows'[k] = windows[q]
  <2>1. ASSUME NEW q \in DOMAIN windows, q # p PROVE \E k \in DOMAIN windows' : windows'[k] = windows[q]
    <3>1. DOMAIN windows' = 1 .. Len(windows) - 1
      BY <1>1, <1>2
    <3>2. CASE q < p
      <4>1. q \in 1 .. Len(windows) - 1 /\ windows'[q] = windows[q]
        BY <1>1, <1>2, <2>1, <3>2
      <4>. QED  BY <3>1, <4>1
    <3>3. CASE ~(q < p)
      <4>1. q - 1 \in 1 .. Len(windows) - 1 /\ ~(q - 1 < p) /\ q - 1 + 1 = q
        BY <1>1, <2>1, <3>3
      <4>2. windows'[q - 1] = windows[q]
        BY <1>2, <4>1
      <4>. QED  BY <3>1, <4>1, <4>2
    <3>. QED  BY <3>2, <3>3
  <2>. QED  BY <2>1
<1>5. /\ p \in DOMAIN windows /\ ~windows[p].alive /\ windows[p].pty # "running"
      /\ \A q \in DOMAIN windows : q # p <=> windows[q].id # n
  BY <1>1 DEF Sound
<1>6. n \in DeadIds(windows)
  BY <1>1, <1>5 DEF DeadIds
<1>7. RunningIds(windows') = RunningIds(windows)
  BY <1>3, <1>4, <1>5 DEF RunningIds
<1>8. UnnoticedIds(windows') = UnnoticedIds(windows)
  BY <1>3, <1>4, <1>5 DEF UnnoticedIds
<1>9. DeadIds(windows') = DeadIds(windows) \ {n}
  BY <1>3, <1>4, <1>5 DEF DeadIds
<1>. QED  BY <1>6, <1>7, <1>8, <1>9 DEF n

\* What noticing the exits makes of the sets.
LEMMA MarkedLives ==
    ASSUME NEW t, Sound(t)
    PROVE  LET u == Marked(t)
           IN  /\ RunningIds(u) = RunningIds(t) /\ UnnoticedIds(u) = {}
               /\ DeadIds(u) = DeadIds(t) \cup UnnoticedIds(t)
               /\ u \in Seq(Window) /\ \A k \in DOMAIN u : u[k].pty = "running" => u[k].alive
               /\ ExitedIdx(t) = {} => UnnoticedIds(t) = {}
<1>. DEFINE u == Marked(t)
<1>1. /\ u \in Seq(Window) /\ DOMAIN u = DOMAIN t
      /\ \A k \in DOMAIN t : /\ u[k].id = t[k].id /\ u[k].pty = t[k].pty
                             /\ u[k].alive <=> t[k].alive /\ t[k].pty # "exited"
  BY MarkedFacts DEF Sound
<1>. HIDE DEF u
<1>2. RunningIds(u) = RunningIds(t)
  BY <1>1 DEF RunningIds
<1>3. UnnoticedIds(u) = {}
  BY <1>1 DEF UnnoticedIds
<1>4. DeadIds(u) = DeadIds(t) \cup UnnoticedIds(t)
  BY <1>1 DEF DeadIds, UnnoticedIds
<1>5. \A k \in DOMAIN u : u[k].pty = "running" => u[k].alive
  BY <1>1 DEF Sound
<1>6. ExitedIdx(t) = {} => UnnoticedIds(t) = {}
  <2>1. \A k \in DOMAIN t : k - 1 \in Idx(t) /\ At(t, k - 1) = t[k]
    BY DEF Sound, Idx, At
  <2>. QED  BY <2>1 DEF ExitedIdx, UnnoticedIds
<1>. QED  BY <1>1, <1>2, <1>3, <1>4, <1>5, <1>6 DEF u

\* Whatever a step does to the table is a step in the life of one window, or of
\* all that have exited or are dead.
LEMMA LifeStep ==
    ASSUME TableType, Sound(windows), TableStep
    PROVE  Promise!Live \/ UNCHANGED <<nextId, RunningIds(windows), UnnoticedIds(windows), DeadIds(windows)>>
<1>. DEFINE Same == UNCHANGED <<nextId, RunningIds(windows), UnnoticedIds(windows), DeadIds(windows)>>
<1>1. CASE UNCHANGED tableVars \/ Selects
  BY <1>1 DEF tableVars, Selects, NumbersKept
<1>2. CASE CreateFails
  <2>1. /\ UNCHANGED windows
        /\ nextId' = nextId \/ nextId' = nextId + 1
    BY <1>2 DEF CreateFails, TakeNumbers
  <2>2. CASE nextId' = nextId
    BY <2>1, <2>2
  <2>3. CASE nextId' = nextId + 1
    BY <2>1, <2>3 DEF Promise!Live, Promise!Bear
  <2>. QED  BY <2>1, <2>2, <2>3
<1>3. CASE Pushes
  <2>. DEFINE w == [id |-> nextId, number |-> nextNumber, alive |-> TRUE, pty |-> "running"]
  <2>1. w \in Window /\ w.id = nextId /\ w.alive /\ w.pty = "running"
    BY ConstantsAssumption DEF TableType, Window
  <2>2. windows' = Append(windows, w) /\ nextId' = nextId + 1
    BY <1>3 DEF Pushes, PushWindow, TakeNumbers
  <2>. HIDE DEF w
  <2>3. /\ Len(windows') = Len(windows) + 1 /\ windows' \in Seq(Window)
        /\ \A k \in 1 .. Len(windows) : windows'[k] = windows[k]
        /\ windows'[Len(windows) + 1] = w
    BY <2>1, <2>2, AppendProperties DEF TableType
  <2>4. /\ Len(windows) \in Nat /\ DOMAIN windows = 1 .. Len(windows)
        /\ DOMAIN windows' = 1 .. Len(windows) + 1
        /\ \A k \in 1 .. Len(windows) + 1 : k \in 1 .. Len(windows) \/ k = Len(windows) + 1
        /\ \A k \in 1 .. Len(windows) : k \in 1 .. Len(windows) + 1
        /\ Len(windows) + 1 \in 1 .. Len(windows) + 1
    BY <2>3 DEF TableType
  <2>5. RunningIds(windows') = RunningIds(windows) \cup {nextId}
    BY <2>1, <2>3, <2>4 DEF RunningIds
  <2>6. UnnoticedIds(windows') = UnnoticedIds(windows)
    BY <2>1, <2>3, <2>4 DEF UnnoticedIds
  <2>7. DeadIds(windows') = DeadIds(windows)
    BY <2>1, <2>3, <2>4 DEF DeadIds
  <2>. QED  BY <2>2, <2>5, <2>6, <2>7 DEF Promise!Live, Promise!Bear
<1>4. CASE Kills
  <2>1. PICK i \in Idx(windows) : windows' = Killed(windows, i)
    BY <1>4 DEF Kills
  <2>2. nextId' = nextId
    BY <1>4 DEF Kills, NumbersKept
  <2>. DEFINE n == At(windows, i).id
  <2>3. /\ n \in (RunningIds(windows) \cup UnnoticedIds(windows)) \cup DeadIds(windows)
        /\ RunningIds(windows') = RunningIds(windows) \ {n}
        /\ UnnoticedIds(windows') = UnnoticedIds(windows) \ {n}
        /\ DeadIds(windows') = DeadIds(windows) \cup {n}
    BY <2>1, KilledLives
  <2>. HIDE DEF n
  <2>. QED  BY <2>2, <2>3 DEF Promise!Live, Promise!Kill
<1>5. CASE KillsAndDrops
  <2>1. PICK i \in Idx(windows) : DropDead(Killed(windows, i), selected)
    BY <1>5 DEF KillsAndDrops
  <2>2. nextId' = nextId /\ autoNuke
    BY <1>5 DEF KillsAndDrops, NumbersKept
  <2>. DEFINE n == At(windows, i).id
              u == Killed(windows, i)
  <2>3. /\ n \in (RunningIds(windows) \cup UnnoticedIds(windows)) \cup DeadIds(windows)
        /\ RunningIds(u) = RunningIds(windows) \ {n}
        /\ UnnoticedIds(u) = UnnoticedIds(windows) \ {n}
        /\ u \in Seq(Window) /\ \A k \in DOMAIN u : u[k].pty = "running" => u[k].alive
    BY KilledLives
  <2>. HIDE DEF n, u
  <2>4. /\ RunningIds(windows') = RunningIds(u) /\ UnnoticedIds(windows') = UnnoticedIds(u)
        /\ DeadIds(windows') = {}
    BY <2>1, <2>3, LivesDropped DEF u
  <2>. QED  BY <2>2, <2>3, <2>4 DEF Promise!Live, Promise!Kill
<1>6. CASE Drops
  <2>1. /\ RunningIds(windows') = RunningIds(windows) /\ UnnoticedIds(windows') = UnnoticedIds(windows)
        /\ DeadIds(windows') = {}
    BY <1>6, LivesDropped DEF Drops, Sound
  <2>. QED  BY <1>6, <2>1 DEF Drops, NumbersKept, Promise!Live, Promise!Remove
<1>7. CASE Removes
  <2>1. PICK i \in Idx(windows) : RemoveOne(i)
    BY <1>7 DEF Removes
  <2>. DEFINE n == At(windows, i).id
  <2>2. /\ n \in DeadIds(windows)
        /\ RunningIds(windows') = RunningIds(windows) /\ UnnoticedIds(windows') = UnnoticedIds(windows)
        /\ DeadIds(windows') = DeadIds(windows) \ {n}
    BY <2>1, RemovedLives
  <2>. HIDE DEF n
  <2>. QED  BY <1>7, <2>2 DEF Removes, NumbersKept, Promise!Live, Promise!Remove
<1>8. CASE Renumbers
  <2>1. PICK n \in RenumberTo : Renumber(n)
    BY <1>8 DEF Renumbers
  <2>2. /\ DOMAIN windows' = DOMAIN windows
        /\ \A k \in DOMAIN windows : /\ windows'[k].id = windows[k].id /\ windows'[k].pty = windows[k].pty
                                     /\ windows'[k].alive = windows[k].alive
    BY <2>1, RenumberFacts
  <2>3. RunningIds(windows') = RunningIds(windows)
    BY <2>2 DEF RunningIds
  <2>4. UnnoticedIds(windows') = UnnoticedIds(windows)
    BY <2>2 DEF UnnoticedIds
  <2>5. DeadIds(windows') = DeadIds(windows)
    BY <2>2 DEF DeadIds
  <2>. QED  BY <1>8, <2>3, <2>4, <2>5 DEF Renumbers, NumbersKept
<1>9. CASE Marks
  <2>1. PICK s : \/ autoNuke /\ DropDead(Marked(windows), s)
                 \/ (autoNuke => ExitedIdx(windows) = {}) /\ windows' = Marked(windows)
    BY <1>9 DEF Marks
  <2>2. nextId' = nextId
    BY <1>9 DEF Marks, NumbersKept
  <2>. DEFINE u == Marked(windows)
  <2>3. /\ RunningIds(u) = RunningIds(windows) /\ UnnoticedIds(u) = {}
        /\ DeadIds(u) = DeadIds(windows) \cup UnnoticedIds(windows)
        /\ u \in Seq(Window) /\ \A k \in DOMAIN u : u[k].pty = "running" => u[k].alive
        /\ ExitedIdx(windows) = {} => UnnoticedIds(windows) = {}
    BY MarkedLives
  <2>. HIDE DEF u
  <2>4. CASE autoNuke /\ DropDead(u, s)
    <3>1. /\ RunningIds(windows') = RunningIds(u) /\ UnnoticedIds(windows') = UnnoticedIds(u)
          /\ DeadIds(windows') = {}
      BY <2>3, <2>4, LivesDropped
    <3>. QED  BY <2>2, <2>3, <2>4, <3>1 DEF Promise!Live, Promise!Notice
  <2>5. CASE (autoNuke => ExitedIdx(windows) = {}) /\ windows' = u
    <3>1. CASE autoNuke
      BY <2>2, <2>3, <2>5, <3>1
    <3>2. CASE ~autoNuke
      BY <2>2, <2>3, <2>5, <3>2 DEF Promise!Live, Promise!Notice
    <3>. QED  BY <3>1, <3>2
  <2>. QED  BY <2>1, <2>4, <2>5 DEF u
<1>10. CASE Exits
  <2>1. PICK p \in DOMAIN windows :
           /\ windows[p].pty = "running"
           /\ windows' \in Seq(Window) /\ Len(windows') = Len(windows)
           /\ \A k \in DOMAIN windows : k # p => windows'[k] = windows[k]
           /\ windows'[p].id = windows[p].id /\ windows'[p].alive = windows[p].alive
           /\ windows'[p].pty = "exited"
    BY <1>10, ExitFacts
  <2>. DEFINE n == windows[p].id
  <2>4. windows[p].alive
    BY <2>1 DEF Sound
  <2>5. nextId' = nextId
    BY <1>10 DEF Exits, NumbersKept
  <2>6. /\ RunningIds(windows') = (RunningIds(windows) \ {n}) \cup {}
        /\ UnnoticedIds(windows') = (UnnoticedIds(windows) \ {n}) \cup {n}
        /\ DeadIds(windows') = (DeadIds(windows) \ {n}) \cup {}
    BY <2>1, <2>4, LivesOfOneRow
  <2>7. n \in RunningIds(windows) /\ n \notin UnnoticedIds(windows) /\ n \notin DeadIds(windows)
    BY <2>1, <2>4, LifeOfRow
  <2>. HIDE DEF n
  <2>. QED  BY <2>5, <2>6, <2>7 DEF Promise!Live, Promise!Exit
<1>. QED  BY <1>1, <1>2, <1>3, <1>4, <1>5, <1>6, <1>7, <1>8, <1>9, <1>10 DEF TableStep

(* The table implements the life that WindowLife promises its windows: no  *)
(* id is given twice, no dead window comes back, none dies whose program   *)
(* runs and is not killed, and only what is dead is removed, however the   *)
(* rows move under the removals, and whoever asks.                         *)
THEOREM WindowsLiveAsPromised == Spec => LivesKept
<1>1. Init => Promise!Init
  <2>. SUFFICES ASSUME Init PROVE Promise!Init
    OBVIOUS
  <2>1. /\ DOMAIN windows = 1 .. Startup + 1
        /\ \A k \in 1 .. Startup + 1 : windows[k].id = k /\ windows[k].alive /\ windows[k].pty = "running"
    BY DEF Init
  <2>2. nextId \in Nat /\ nextId - 1 = Startup + 1 /\ autoNuke \in BOOLEAN
    BY ConstantsAssumption DEF Init
  <2>3. RunningIds(windows) = 1 .. nextId - 1
    BY <2>1, <2>2 DEF RunningIds
  <2>4. UnnoticedIds(windows) = {}
    BY <2>1 DEF UnnoticedIds
  <2>5. DeadIds(windows) = {}
    BY <2>1 DEF DeadIds
  <2>. QED  BY <2>2, <2>3, <2>4, <2>5 DEF Promise!Init
<1>2. IInv /\ RunningLive /\ LiveKnown /\ [Next]_vars => [Promise!Next]_(Promise!vars)
  <2>. SUFFICES ASSUME IInv, RunningLive, LiveKnown, [Next]_vars PROVE Promise!Next \/ UNCHANGED Promise!vars
    OBVIOUS
  <2>1. CASE UNCHANGED vars
    BY <2>1 DEF vars, tableVars, settingVars, Promise!vars
  <2>2. CASE Next
    <3>1. TableType /\ IdsOrdered /\ Core
      BY IInvMeans DEF Core, TypeOK
    <3>2. Sound(windows)
      <4>1. \A j, k \in DOMAIN windows : windows[j].id = windows[k].id => j = k
        <5>1. ASSUME NEW j \in DOMAIN windows, NEW k \in DOMAIN windows, j < k PROVE windows[j].id # windows[k].id
          <6>1. /\ j - 1 \in Idx(windows) /\ k - 1 \in Idx(windows) /\ j - 1 < k - 1
                /\ At(windows, j - 1) = windows[j] /\ At(windows, k - 1) = windows[k]
                /\ windows[j].id \in Nat /\ windows[k].id \in Nat
            <7>1. windows \in Seq(Window) /\ DOMAIN windows = 1 .. Len(windows) /\ Len(windows) \in Nat
              BY <3>1 DEF TableType
            <7>2. windows[j] \in Window /\ windows[k] \in Window
              BY <7>1
            <7>3. windows[j].id \in Nat /\ windows[k].id \in Nat
              BY <7>2 DEF Window
            <7>4. j - 1 + 1 = j /\ k - 1 + 1 = k /\ j - 1 < k - 1 /\ j - 1 \in 0 .. Len(windows) - 1
                  /\ k - 1 \in 0 .. Len(windows) - 1
              BY <5>1, <7>1
            <7>. QED  BY <7>3, <7>4 DEF Idx, At
          <6>2. windows[j].id < windows[k].id
            BY <3>1, <6>1 DEF IdsOrdered, OrderedBelow
          <6>. QED  BY <6>1, <6>2
        <5>2. \A j, k \in DOMAIN windows : j < k \/ k < j \/ j = k
          BY <3>1 DEF TableType
        <5>. QED  BY <5>1, <5>2
      <4>. QED  BY <3>1, <4>1 DEF Sound, RunningLive, LiveKnown, TableType
    <3>3. Promise!Live \/ UNCHANGED <<nextId, RunningIds(windows), UnnoticedIds(windows), DeadIds(windows)>>
      BY <2>2, <3>1, <3>2, StepOnTable, LifeStep
    <3>4. CASE UNCHANGED autoNuke
      BY <3>3, <3>4 DEF Promise!Next, Promise!vars
    <3>5. CASE UNCHANGED tableVars /\ autoNuke' \in BOOLEAN
      BY <3>5 DEF tableVars, Promise!Next
    <3>. QED  BY <2>2, <3>1, <3>4, <3>5, SettingsStep
  <2>. QED  BY <2>1, <2>2
<1>. QED  BY <1>1, <1>2, AlwaysIInv, AlwaysRunningLive, AlwaysLiveKnown, PTL DEF Spec, LivesKept, Promise!Spec
=============================================================================
