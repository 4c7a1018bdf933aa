------------------------------- MODULE Codec --------------------------------
(***************************************************************************)
(* The messages of screen-rs (screen-protocol): what octets each becomes,  *)
(* and what a receiver makes of them.                                      *)
(*                                                                         *)
(* An octet is a digit below Base, so the limits of the code keep their    *)
(* relations at a small Base: a u16 is two octets, a payload has at most   *)
(* Base * Base of them.  Signed numbers are their bit patterns.            *)
(*                                                                         *)
(* An operator named Slip... is its neighbour with one likely slip in it,  *)
(* for the properties to catch.                                            *)
(***************************************************************************)
EXTENDS Naturals, Sequences, FiniteSets, SequencesExt, Basics

CONSTANT Base       \* values of an octet (256)

ASSUME BaseAssumption == Base \in Nat \ {0, 1}

Octets == 0 .. Base - 1
MAX_PAYLOAD_LEN == Base * Base

-----------------------------------------------------------------------------
(* The kinds of messages.                                                  *)

(* The message kinds in the order of their numbers 1, 2, ... 68.           *)
KindsInOrder ==
  << "Hello", "HelloAck", "Shutdown", "ShutdownAck", "Attach", "Detach",
     "PtyInput", "PtyOutput", "ChildExited", "Resize", "CreateWindow",
     "WindowCreated", "SelectWindow", "WindowSelected", "KillWindow",
     "WindowExited", "WindowList", "NextWindow", "PrevWindow", "WindowTitle",
     "CopyModeRequest", "CopyModeData", "PasteRequest", "HardstatusLine",
     "RenumberWindow", "Redisplay", "RemoveWindow", "WipeDeadWindows", "Echo",
     "LogToggle", "LogFile", "OtherWindow", "MonitorToggle", "Activity",
     "Silence", "Bell", "WrapToggle", "ReadBuf", "WriteBuf", "RemoveBuf",
     "Register", "FlowToggle", "Xoff", "Xon", "BreakSignal", "WindowInfo",
     "SearchHistory", "SearchResult", "Command", "Hardcopy", "AtWindow",
     "SplitVertical", "RemoveRegion", "OnlyWindow", "FocusNext", "FocusPrev",
     "ResizeRegion", "RegionLayout", "CopyModeMove", "CopyModeMark",
     "CopyModeCopy", "CopyModePaste", "CopyModeCursor", "CaptionLine",
     "SplitHorizontal", "Suspend", "BindingsUpdate", "PasswordChallenge" >>

Kinds == {KindsInOrder[i] : i \in DOMAIN KindsInOrder} \union {"Error"}

NumberOf(kind) ==
  IF kind = "Error" THEN 255
  ELSE CHOOSE i \in DOMAIN KindsInOrder : KindsInOrder[i] = kind

(* try_from of the receiver; "unknown" is its UnknownMessage.              *)
KindOf(number) ==
  CASE number = 255 -> "Error"
    [] number \in DOMAIN KindsInOrder -> KindsInOrder[number]
    [] OTHER -> "unknown"

-----------------------------------------------------------------------------
(* The layout of a payload: fields in a fixed order, then a tail, which is *)
(*   "end"    nothing, and the receiver insists;                           *)
(*   "loose"  nothing, but the receiver does not look;                     *)
(*   "rest"   octets up to the end of the payload;                         *)
(*   "rows"   as many rows of fields as the count before them says, of     *)
(*            which a "lenient" receiver takes those that are complete;    *)
(*   "chunks" rows without a count.                                        *)

Layout(fields, tail) == [fields |-> fields, tail |-> tail, count |-> << >>, row |-> << >>]
Repeated(fields, count, tail, row) ==
  [fields |-> fields, tail |-> tail, count |-> count, row |-> row]

LayoutOf(kind) ==
  CASE kind \in {"CopyModeRequest", "SplitVertical", "SplitHorizontal", "Suspend",
                 "RemoveRegion", "OnlyWindow", "FocusNext", "FocusPrev",
                 "CopyModeMark", "CopyModeCopy", "PasswordChallenge"}
         -> Layout(<< >>, "loose")
    [] kind \in {"PtyInput", "PtyOutput", "Error", "PasteRequest", "HardstatusLine",
                 "CaptionLine", "Echo", "LogFile", "Activity", "Bell", "WriteBuf",
                 "WindowInfo", "SearchHistory", "Command", "CopyModePaste"}
         -> Layout(<< >>, "rest")
    [] kind \in {"ChildExited", "SelectWindow", "WindowSelected", "KillWindow",
                 "RenumberWindow", "RemoveWindow", "CopyModeMove"}
         -> Layout(<<"u32">>, "end")
    [] kind \in {"LogToggle", "MonitorToggle", "WrapToggle", "FlowToggle"}
         -> Layout(<<"bool">>, "end")
    [] kind \in {"Silence", "BreakSignal", "ResizeRegion"} -> Layout(<<"u16">>, "end")
    [] kind = "Resize" -> Layout(<<"u16", "u16">>, "end")
    [] kind \in {"WindowCreated", "WindowExited"} -> Layout(<<"u64", "u32">>, "end")
    [] kind = "CopyModeCursor" -> Layout(<<"u32", "u16", "u32">>, "loose")
    [] kind = "WindowTitle" -> Layout(<<"u32", "str">>, "loose")
    [] kind = "Register" -> Layout(<<"u8">>, "rest")
    [] kind \in {"Hardcopy", "AtWindow"} -> Layout(<<"u32">>, "rest")
    [] kind = "CreateWindow" -> Repeated(<<"str">>, <<"u16">>, "rows", <<"str">>)
    [] kind = "WindowList" -> Repeated(<< >>, <<"u16">>, "rows", <<"u32", "u8", "str", "str">>)
    [] kind = "BindingsUpdate" -> Repeated(<< >>, <<"u32">>, "rows", <<"u8", "str">>)
    [] kind = "CopyModeData" -> Repeated(<< >>, <<"u32">>, "lenient", <<"str">>)
    [] kind = "SearchResult" -> Repeated(<< >>, <<"u16">>, "lenient", <<"u32">>)
    [] kind = "RegionLayout"
         -> Repeated(<< >>, << >>, "chunks", <<"u32", "u16", "u16", "u16", "u16", "bool">>)
    [] OTHER -> Layout(<< >>, "end")

Width(field) ==
  CASE field \in {"u8", "bool"} -> 1 [] field \in {"u16", "str"} -> 2
    [] field = "u32" -> 4 [] field = "u64" -> 8

(* n without its last 0, 1, ... w octets.                                   *)
Shifts(n, w) ==
  LET left[k \in 0 .. w] == IF k = 0 THEN n ELSE left[k - 1] \div Base IN left

(* n as w octets, the most significant first, cut to that width.           *)
BigEndian(n, w) == LET left == Shifts(n, w) IN [i \in 1 .. w |-> left[w - i] % Base]
Number(octets) == FoldLeft(LAMBDA n, d : n * Base + d, 0, octets)

-----------------------------------------------------------------------------
(* What a message can hold, by the types of its fields.                    *)

Message(kind, values, rows, rest) ==
  [kind |-> kind, values |-> values, rows |-> rows, rest |-> rest]

IsValue(field, value) ==
  CASE field = "str" -> value \in Seq(Octets)
    [] field = "bool" -> value \in BOOLEAN
    [] OTHER -> value \in Nat /\ Shifts(value, Width(field))[Width(field)] = 0

AreValues(fields, values) ==
  /\ values = [i \in DOMAIN fields |-> values[i]]
  /\ \A i \in DOMAIN fields : IsValue(fields[i], values[i])

AreRows(fields, rows) ==
  /\ Len(rows) \in Nat /\ rows = [i \in 1 .. Len(rows) |-> rows[i]]
  /\ \A i \in DOMAIN rows : AreValues(fields, rows[i])

IsMessage(m) ==
  LET layout == IF m.kind = "Attach" THEN Layout(<<"bool">>, "rest") ELSE LayoutOf(m.kind) IN
  /\ m.kind \in Kinds /\ m = Message(m.kind, m.values, m.rows, m.rest)
  /\ AreValues(layout.fields, m.values) /\ AreRows(layout.row, m.rows)
  /\ layout.tail \notin {"rows", "lenient", "chunks"} => m.rows = << >>
  /\ m.rest \in Seq(Octets) /\ (layout.tail # "rest" => m.rest = << >>)

-----------------------------------------------------------------------------
(* Encoding (write_to).  A message has its kind, the values of its fields, *)
(* its rows and the octets of its rest.                                    *)

EncodeField(field, value) ==
  CASE field = "str" -> BigEndian(Len(value), 2) \o value
    [] field = "bool" -> IF value THEN <<1>> ELSE <<0>>
    [] OTHER -> BigEndian(value, Width(field))

EncodeFields(fields, values) ==
  FlattenSeq([i \in DOMAIN fields |-> EncodeField(fields[i], values[i])])

(* A password and the flag behind it; no password is none of its octets.   *)
EncodeAttach(m) == m.rest \o IF m.values[1] THEN <<1>> ELSE <<0>>

Encode(m) ==
  LET layout == LayoutOf(m.kind) IN
  IF m.kind = "Attach" THEN EncodeAttach(m)
  ELSE EncodeFields(layout.fields, m.values)
         \o EncodeFields(layout.count, <<Len(m.rows)>>)
         \o FlattenSeq([i \in DOMAIN m.rows |-> EncodeFields(layout.row, m.rows[i])])
         \o m.rest

(* checked_payload: what is longer is not sent at all; an Attach escapes   *)
(* the check.                                                              *)
TooLong(m) == m.kind # "Attach" /\ Len(Encode(m)) > MAX_PAYLOAD_LEN

-----------------------------------------------------------------------------
(* Decoding (read_from).                                                   *)

Malformed == Message("malformed", << >>, << >>, << >>)

After(octets, n) == SubSeq(octets, n + 1, Len(octets))

(* One more field off the octets that are left.                            *)
TakeField(taken, field) ==
  LET w    == Width(field)
      n    == Number(SubSeq(taken.left, 1, w))
      left == After(taken.left, w)
  IN  IF ~taken.ok \/ Len(taken.left) < w \/ (field = "str" /\ Len(left) < n)
      THEN [taken EXCEPT !.ok = FALSE]
      ELSE CASE field = "str" -> [ok |-> TRUE, left |-> After(left, n),
                                  values |-> Append(taken.values, SubSeq(left, 1, n))]
             [] field = "bool" -> [ok |-> TRUE, left |-> left,
                                   values |-> Append(taken.values, n # 0)]
             [] OTHER -> [ok |-> TRUE, left |-> left,
                          values |-> Append(taken.values, n)]

TakeFields(octets, fields) ==
  FoldLeft(TakeField, [ok |-> TRUE, left |-> octets, values |-> << >>], fields)

(* count rows, or those before the first that is cut short.  A row takes   *)
(* an octet at least, so more rows than octets are never complete.         *)
TakeRows(octets, count, row) ==
  FoldLeft(LAMBDA taken, i :
             LET next == TakeFields(taken.left, row) IN
             IF ~taken.ok \/ ~next.ok THEN [taken EXCEPT !.ok = FALSE]
             ELSE [ok |-> TRUE, left |-> next.left,
                   rows |-> Append(taken.rows, next.values)],
           [ok |-> TRUE, left |-> octets, rows |-> << >>],
           [i \in 1 .. Lesser(count, Len(octets) + 1) |-> i])

RowWidth(row) == FoldLeft(LAMBDA n, field : n + Width(field), 0, row)

SlipDecodeAttach(payload) ==
  Message("Attach", <<payload # << >> /\ Last(payload) = 1>>, << >>,
          IF Len(payload) > 1 THEN payload ELSE << >>)

DecodeAttach(payload) ==
  Message("Attach", <<payload # << >> /\ Last(payload) = 1>>, << >>,
          IF Len(payload) > 1 THEN Front(payload) ELSE << >>)

Decode(kind, payload) ==
  LET layout == LayoutOf(kind)
      head   == TakeFields(payload, layout.fields)
      number == TakeFields(head.left, layout.count)
      count  == IF layout.tail = "chunks" THEN Len(payload) \div RowWidth(layout.row)
                ELSE number.values[1]
      body   == TakeRows(number.left, count, layout.row)
  IN  CASE kind = "Attach" -> DecodeAttach(payload)
        [] layout.tail = "lenient" /\ ~number.ok -> Message(kind, << >>, << >>, << >>)
        [] layout.tail # "lenient" /\ kind # "Attach" /\ ~(head.ok /\ number.ok) -> Malformed
        [] OTHER ->
             CASE layout.tail = "loose" -> Message(kind, head.values, << >>, << >>)
               [] layout.tail = "rest" -> Message(kind, head.values, << >>, head.left)
               [] layout.tail = "end" /\ head.left = << >>
                    -> Message(kind, head.values, << >>, << >>)
               [] \/ layout.tail \in {"lenient", "chunks"}
                  \/ layout.tail = "rows" /\ body.ok
                    -> Message(kind, head.values, body.rows, << >>)
               [] OTHER -> Malformed
=============================================================================
