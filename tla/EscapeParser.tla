---------------------------- MODULE EscapeParser ----------------------------
(***************************************************************************)
(* The parser of screen-terminal: how the octets a program writes become   *)
(* calls on the grid (the actions of Terminal), and the part of the        *)
(* terminal's state that the grid does not show: style, charset, title,    *)
(* bell, input modes and the replies that go back to the program.          *)
(*                                                                         *)
(* Taken is a Mealy machine: one octet gives the next parser state and the *)
(* effects it has.  After applies the effects to the terminal.             *)
(***************************************************************************)
EXTENDS Rendition, FiniteSets

CONSTANTS Bytes,       \* the octets a program writes
          Numbers,     \* bound: the values a parameter takes while it is read
          MaxParams,   \* bound: the parameters of a sequence
          TitleBytes,  \* bound: the octets inside a title
          MAX_OSC_BYTES,
          MaxSequences \* bound: the sequences completed in one behaviour

ASSUME ParserAssumption ==
  /\ Bytes \subseteq 0 .. 255 /\ TitleBytes \subseteq Bytes
  /\ \A b \in TitleBytes : b < 194    \* so no valid character but ASCII
  /\ MaxParams \in Nat /\ MAX_OSC_BYTES \in Nat /\ MaxSequences \in Nat

VARIABLES parser, terminal,
          left         \* bound: how many sequences may still be completed
vars == << parser, terminal, left >>

BEL == 7   BS == 8   TAB == 9   CR == 13   ESC == 27   ZERO == 48   NINE == 57
SEMICOLON == 59   BACKSLASH == 92

Ground  == [at |-> "Ground", pending |-> "none"]
Pending(set) == [at |-> "Ground", pending |-> set]
Escape  == [at |-> "Escape"]
Csi     == [at |-> "Csi", private |-> FALSE, params |-> << >>, current |-> None,
            intermediates |-> << >>]
Osc     == [at |-> "Osc", bytes |-> << >>, escape |-> FALSE]
Utf8(b) == [at |-> "Utf8", bytes |-> b]

(* What one octet leads to: the next parser state and the effects.         *)
To(p, does) == [next |-> p, does |-> does]
Put(bytes)  == << "put", bytes >>

\* Slip: of a broken character only the lead is printed.
SlipEach(bytes) == << Put(<< Head(bytes) >>) >>

Each(bytes) == [i \in DOMAIN bytes |-> Put(<< bytes[i] >>)]

-----------------------------------------------------------------------------
(* One definition per state of the parser.                                 *)

InGround(p, b) ==
  CASE p.pending # "none" -> To(Ground, << << "charset", p.pending, b >> >>)
    [] p.pending = "none" /\ b = ESC -> To(Escape, << >>)
    [] p.pending = "none" /\ b = BEL -> To(Ground, << << "bell" >> >>)
    [] p.pending = "none" /\ b \in {CR, 10, 11, 12, BS, TAB} -> To(Ground, << << "move", b >> >>)
    [] p.pending = "none" /\ b \in 194 .. 244 -> To(Utf8(<< b >>), << >>)
    [] OTHER -> To(Ground, << Put(<< b >>) >>)

InEscape(b) ==
  CASE b = 91 -> To(Csi, << >>)            \* [
    [] b = 93 -> To(Osc, << >>)            \* ]
    [] b = 40 -> To(Pending("g0"), << >>)  \* (
    [] b = 41 -> To(Pending("g1"), << >>)  \* )
    [] OTHER -> To(Ground, << << "escape", b >> >>)

\* Slip: only letters end a sequence.
SlipIsFinal(b) == b \in 65 .. 90 \/ b \in 97 .. 122
IsFinal(b)     == b \in 64 .. 126

(* A private sequence sets or resets one mode after the other.             *)
PrivateEffects(final, params) ==
  IF final \in {104, 108}
  THEN [i \in DOMAIN params |-> << "mode", ParamOr(params, i, 0), final = 104 >>]
  ELSE << << "private", final, params >> >>

(* A parameter is a u16 that saturates; "?" and ">" count at the start only. *)
InCsi(p, b) ==
  LET start == p.params = << >> /\ p.current = None
      digit == LET read == (IF p.current = None THEN 0 ELSE p.current) * 10 + b - ZERO
               IN  IF read > 65535 THEN 65535 ELSE read
      done  == Append(p.params, p.current)
  IN  CASE b = 63 /\ start -> To([p EXCEPT !.private = TRUE], << >>)
        [] b \in ZERO .. NINE -> To([p EXCEPT !.current = digit], << >>)
        [] b = SEMICOLON -> To([p EXCEPT !.params = done, !.current = None], << >>)
        [] b \in 32 .. 47 -> To([p EXCEPT !.intermediates = Append(@, b)], << >>)
        [] IsFinal(b) ->
             To(Ground, IF p.private THEN PrivateEffects(b, done)
                                     ELSE << << "csi", b, done, p.intermediates >> >>)
        [] OTHER -> To(p, << >>)

Kept(bytes, b) == IF Len(bytes) < MAX_OSC_BYTES THEN Append(bytes, b) ELSE bytes

\* Slip: an ESC is kept before it is known to end the title.
SlipInOsc(p, b) ==
  CASE b = BEL -> To(Ground, << << "osc", p.bytes >> >>)
    [] b = ESC -> To([p EXCEPT !.bytes = Kept(p.bytes, ESC), !.escape = TRUE], << >>)
    [] p.escape /\ b = BACKSLASH -> To(Ground, << << "osc", Kept(p.bytes, b) >> >>)
    [] OTHER -> To([p EXCEPT !.bytes = Kept(p.bytes, b), !.escape = FALSE], << >>)

InOsc(p, b) ==
  LET read == IF p.escape THEN Kept(p.bytes, ESC) ELSE p.bytes
  IN  CASE p.escape /\ b = BACKSLASH -> To(Ground, << << "osc", p.bytes >> >>)
        [] ~(p.escape /\ b = BACKSLASH) /\ b = BEL -> To(Ground, << << "osc", read >> >>)
        [] b = ESC -> To([p EXCEPT !.bytes = read, !.escape = TRUE], << >>)
        [] OTHER -> To([p EXCEPT !.bytes = Kept(read, b), !.escape = FALSE], << >>)

SequenceLength(lead) == CASE lead < 128 -> 1 [] lead \in 192 .. 223 -> 2
                          [] lead \in 224 .. 239 -> 3 [] OTHER -> 4

InUtf8(p, b) ==
  LET bytes  == Append(p.bytes, b)
      length == SequenceLength(Head(p.bytes))
      ground == InGround(Ground, b)
  IN  CASE b \in 128 .. 191 /\ Len(bytes) = length -> To(Ground, << Put(bytes) >>)
        [] b \in 128 .. 191 /\ Len(bytes) < length -> To(Utf8(bytes), << >>)
        [] b \in 128 .. 191 /\ Len(bytes) > length -> To(ground.next, Each(bytes) \o ground.does)
        [] OTHER -> To(ground.next, Each(p.bytes) \o ground.does)

Plain(p, b) == CASE p.at = "Ground" -> InGround(p, b)
                 [] p.at = "Escape" -> InEscape(b)
                 [] p.at = "Csi"    -> InCsi(p, b)
                 [] p.at = "Osc"    -> InOsc(p, b)
                 [] p.at = "Utf8"   -> InUtf8(p, b)

(* The C1 controls that apply_byte rewrites as ESC and a second octet,     *)
(* whatever the parser is in the middle of, except a character.            *)
C1 == {132, 133, 136, 141, 142, 143, 144, 152, 154, 155, 156}

Taken(p, b) ==
  IF p.at # "Utf8" /\ b \in C1
  THEN LET first  == Plain(p, ESC)
           second == Plain(first.next, b - 64)
       IN  To(second.next, first.does \o second.does)
  ELSE Plain(p, b)
-----------------------------------------------------------------------------
(* The terminal, without the grid: "calls" are the actions of Terminal     *)
(* that the last octet took, with their arguments.                         *)

Fresh == [drawing |-> FALSE, style |-> DefaultStyle, saved |-> DefaultStyle, standout |-> FALSE,
          title |-> << >>, bell |-> FALSE, application |-> FALSE, mouse |-> "Off",
          show |-> TRUE, shape |-> 0, paste |-> FALSE, replies |-> << >>, calls |-> << >>]

Calls(t, call)   == [t EXCEPT !.calls = Append(@, call)]
Replies(t, what) == [t EXCEPT !.replies = Append(@, what)]
Saves(t)         == [Calls(t, << "SaveCursor" >>) EXCEPT !.saved = t.style]
Restores(t)      == [Calls(t, << "RestoreCursor" >>) EXCEPT !.style = t.saved]

(* A letter of the DEC special graphics, once they are designated as G0.   *)
Glyph(t, bytes) ==
  IF t.drawing /\ Len(bytes) = 1 /\ Head(bytes) \in 96 .. 126
  THEN << "line", bytes >> ELSE << "text", bytes >>

MoveCalls(t, b) == Calls(t, << CASE b = CR -> "CarriageReturn" [] b = BS -> "Backspace"
                                 [] b = TAB -> "Tab" [] OTHER -> "LineFeed" >>)

EscapeCalls(t, b) ==
  CASE b = 55 -> Saves(t)
    [] b = 56 -> Restores(t)
    [] b = 68 -> Calls(t, << "LineFeed" >>)
    [] b = 69 -> Calls(t, << "NewLine" >>)
    [] b = 77 -> Calls(t, << "ReverseIndex" >>)
    [] b = 99 -> [Fresh EXCEPT !.calls = << << "Reset" >> >>]
    [] OTHER -> t

(* The commands with one count, and what it is when it is left out.        *)
Counted(final) ==
  CASE final = 64 -> << "InsertCells", 1 >>  [] final = 65 -> << "Up", 1 >>
    [] final = 66 -> << "Down", 1 >>         [] final = 67 -> << "Right", 1 >>
    [] final = 68 -> << "Left", 1 >>         [] final = 69 -> << "NextLine", 1 >>
    [] final = 70 -> << "PrevLine", 1 >>     [] final = 71 -> << "Column", 1 >>
    [] final = 74 -> << "EraseDisplay", 0 >> [] final = 75 -> << "EraseLine", 0 >>
    [] final = 76 -> << "InsertLines", 1 >>  [] final = 77 -> << "DeleteLines", 1 >>
    [] final = 80 -> << "DeleteCells", 1 >>  [] final = 83 -> << "ScrollLinesUp", 1 >>
    [] final = 84 -> << "ScrollLinesDown", 1 >> [] final = 88 -> << "EraseCells", 1 >>
    [] final = 100 -> << "Row", 1 >>         [] OTHER -> << >>

Report(t, params) == CASE ParamOr(params, 1, 0) = 5 -> Replies(t, "ready")
                       [] ParamOr(params, 1, 0) = 6 -> Replies(t, "position")
                       [] OTHER -> t

SetShape(t, value) == CASE value \in {0, 1} -> [t EXCEPT !.shape = 1]
                        [] value \in 2 .. 6 -> [t EXCEPT !.shape = value]
                        [] OTHER -> t

CsiCalls(t, final, params, intermediates) ==
  CASE Counted(final) # << >> ->
         Calls(t, << Counted(final)[1], ParamOr(params, 1, Counted(final)[2]) >>)
    [] final \in {72, 102} -> Calls(t, << "GoTo", ParamOr(params, 1, 1), ParamOr(params, 2, 1) >>)
    [] final \in {104, 108} /\ \E i \in DOMAIN params : params[i] = 4 ->
         Calls(t, << "SetModes", {4}, final = 104 >>)
    [] final = 109 -> [t EXCEPT !.style = AppliedSgr(params, t.style, t.standout)]
    [] final = 113 /\ Contains(intermediates, 32) -> SetShape(t, ParamOr(params, 1, 0))
    [] final = 110 -> Report(t, params)
    [] final = 114 -> Calls(t, << "SetMargins", ParamOr(params, 1, 1), ParamOr(params, 2, 0) >>)
    [] final = 115 -> Saves(t)
    [] final = 117 -> Restores(t)
    [] final = 99  -> Replies(t, IF Contains(intermediates, 62) THEN "secondary" ELSE "primary")
    [] OTHER -> t

(* The reporting of the mouse that a DEC mode turns on.                    *)
MouseMode(mode) ==
  CASE mode = 9 -> "X10" [] mode \in {1000, 1005} -> "Normal" [] mode = 1002 -> "ButtonEvent"
    [] mode = 1003 -> "AnyEvent" [] mode = 1006 -> "Sgr" [] OTHER -> "none"

DecMode(t, mode, on) ==
  CASE mode = 1 -> [t EXCEPT !.application = on]
    [] mode \in {6, 7, 47, 1047} -> Calls(t, << "SetModes", {mode}, on >>)
    [] MouseMode(mode) # "none" -> [t EXCEPT !.mouse = IF on THEN MouseMode(mode) ELSE "Off"]
    [] mode = 25 -> [t EXCEPT !.show = on]
    [] mode = 1048 /\ on -> Saves(t)
    [] mode = 1049 -> Calls(IF on THEN Saves(t) ELSE t, << "SetModes", {47}, on >>)
    [] mode = 2004 -> [t EXCEPT !.paste = on]
    [] OTHER -> t

PrivateCalls(t, final, params) ==
  CASE final = 110 -> Report(t, params)
    [] final = 114 -> Calls(t, << "SetMargins", ParamOr(params, 1, 1), ParamOr(params, 2, 0) >>)
    [] OTHER -> t

(* The number before the first ";" of an OSC; a number that is not UTF-8   *)
(* counts as 0.  0, 1 and 2 set the title.                                 *)
NumberOf(text) ==
  LET digits == IF text # << >> /\ Head(text) = 43 THEN Tail(text) ELSE text
      has(set) == \E i \in DOMAIN text : text[i] \in set
      plain    == \A i \in DOMAIN digits : digits[i] \in ZERO .. NINE
  IN  CASE has(128 .. 255) -> 0
        [] ~has(128 .. 255) /\ (digits = << >> \/ ~plain) -> None
        [] OTHER -> FoldLeft(LAMBDA n, d : n * 10 + d - ZERO, 0, digits)

TitleOf(t, bytes) ==
  LET semi == SelectInSeq(bytes, LAMBDA b : b = SEMICOLON)
  IN  IF semi # 0 /\ NumberOf(SubSeq(bytes, 1, semi - 1)) \in {0, 1, 2}
      THEN [t EXCEPT !.title = << SubSeq(bytes, semi + 1, Len(bytes)) >>]
      ELSE t

Effect(t, e) ==
  CASE e[1] = "put"     -> Calls(t, << "Put", Glyph(t, e[2]) >>)
    [] e[1] = "charset" -> IF e[2] = "g0" THEN [t EXCEPT !.drawing = e[3] = ZERO] ELSE t
    [] e[1] = "bell"    -> [t EXCEPT !.bell = TRUE]
    [] e[1] = "move"    -> MoveCalls(t, e[2])
    [] e[1] = "escape"  -> EscapeCalls(t, e[2])
    [] e[1] = "osc"     -> TitleOf(t, e[2])
    [] e[1] = "csi"     -> CsiCalls(t, e[2], e[3], e[4])
    [] e[1] = "private" -> PrivateCalls(t, e[2], e[3])
    [] e[1] = "mode"    -> DecMode(t, e[2], e[3])

After(t, effects) ==
  LET after[k \in 0 .. Len(effects)] ==
        IF k = 0 THEN [t EXCEPT !.calls = << >>] ELSE Effect(after[k - 1], effects[k])
  IN  after[Len(effects)]
-----------------------------------------------------------------------------
Init == parser = Ground /\ terminal = Fresh /\ left = MaxSequences

(* The bounds on what is fed.                                              *)
Readable(p) ==
  /\ p.at = "Csi" => /\ p.current \in Numbers \union {None}
                     /\ Len(p.params) <= MaxParams /\ Len(p.intermediates) <= 1
  /\ p.at = "Osc" => \A i \in DOMAIN p.bytes : p.bytes[i] \in TitleBytes \union {ESC}

Costs(effects) == Cardinality({effects[i][1] : i \in DOMAIN effects} \ {"put", "move"})

(* apply_byte.                                                             *)
Feed(b) ==
  LET result == Taken(parser, b)
  IN  /\ Readable(result.next) /\ Costs(result.does) <= left
      /\ parser' = result.next
      /\ terminal' = After(terminal, result.does)
      /\ left' = left - Costs(result.does)

(* The end of apply: the replies go back to the program.                   *)
Answer ==
  /\ terminal.replies # << >>
  /\ terminal' = [terminal EXCEPT !.replies = << >>, !.calls = << >>]
  /\ UNCHANGED << parser, left >>

(* take_bell.                                                              *)
TakeBell ==
  /\ terminal.bell
  /\ terminal' = [terminal EXCEPT !.bell = FALSE, !.calls = << >>]
  /\ UNCHANGED << parser, left >>

(* set_sorendition.                                                        *)
SetStandout(on) ==
  /\ terminal.standout # on /\ left > 0
  /\ terminal' = [terminal EXCEPT !.standout = on, !.calls = << >>]
  /\ left' = left - 1
  /\ UNCHANGED parser

Next == \/ \E b \in Bytes : Feed(b)
        \/ Answer
        \/ TakeBell
        \/ \E on \in BOOLEAN : SetStandout(on)

Spec == Init /\ [][Next]_vars

-----------------------------------------------------------------------------
(* Properties.                                                             *)

\* Whatever a program has left unfinished, the string terminator ESC \ ends it:
\* the text after it is text again.  A parser that missed the terminator in one of
\* its states would swallow the rest of the program's output.
TerminatorEnds == Taken(Taken(parser, ESC).next, BACKSLASH).next = Ground

\* A title holds neither of the terminators, however often ESC was started and
\* given up inside it: it goes to the hardstatus and to window lists unescaped.
TitleHasNoTerminator ==
  \A title \in {terminal.title[i] : i \in DOMAIN terminal.title} :
    \A i \in DOMAIN title : /\ title[i] # BEL
                            /\ title[i] = ESC /\ i < Len(title) => title[i + 1] # BACKSLASH

Owed(p)     == IF p.at = "Utf8" THEN p.bytes ELSE << >>
Text(calls) ==
  FlattenSeq([i \in DOMAIN calls |-> IF calls[i][1] = "Put" THEN calls[i][2][2] ELSE << >>])

\* The octets collected for a character are printed, as one character or one by
\* one, before anything that comes after them, whatever interrupts the character.
BrokenTextKept ==
  [][ IsPrefix(Owed(parser), Text(terminal'.calls) \o Owed(parser')) ]_vars
=============================================================================
