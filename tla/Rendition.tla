----------------------------- MODULE Rendition ------------------------------
(***************************************************************************)
(* Colours and attributes (screen-terminal): what an SGR sequence makes of *)
(* the current style, and the SGR sequences with which a screen is drawn   *)
(* again on the terminal of a client.                                      *)
(*                                                                         *)
(* A parameter is a number, or None where the sequence leaves it out.  A   *)
(* colour is << >> for the default, or a tuple that names its kind.        *)
(***************************************************************************)
EXTENDS Integers, Sequences, SequencesExt

None == -1
ParamOr(params, i, default) ==
  IF i \in DOMAIN params /\ params[i] # None THEN params[i] ELSE default

DefaultColor == << >>
Basic(c)     == << "basic", c >>
Indexed(c)   == << "indexed", c % 256 >>
Rgb(r, g, b) == << "rgb", r % 256, g % 256, b % 256 >>

Attributes == {"bold", "italic", "underline", "blink", "reverse"}
DefaultStyle == [on |-> {}, fg |-> DefaultColor, bg |-> DefaultColor]

(* The colours and styles there are; 8 and above are the bright colours.   *)
Colors     == {DefaultColor} \union ({"basic"} \X (0 .. 15)) \union ({"indexed"} \X (0 .. 255))
                \union ({"rgb"} \X (0 .. 255) \X (0 .. 255) \X (0 .. 255))
Renditions == [on : SUBSET Attributes, fg : Colors, bg : Colors]

Sets(value)   == CASE value = 1 -> "bold"      [] value = 3 -> "italic"
                   [] value = 4 -> "underline" [] value = 5 -> "blink"
                   [] value = 7 -> "reverse"   [] OTHER -> "none"
Clears(value) == CASE value \in {2, 22} -> "bold"  [] value = 23 -> "italic"
                   [] value = 24 -> "underline"    [] value = 25 -> "blink"
                   [] value = 27 -> "reverse"      [] OTHER -> "none"

(* An extended colour begins at parameter i: 38 or 48, then 5 and an index *)
(* or 2 and three values.  What is taken, and the next parameter to read.  *)
Extended(params, i, old) ==
  LET at(k) == ParamOr(params, i + k, 0)
      has(k) == i + k <= Len(params)
  IN  CASE ~has(2) -> [color |-> old, next |-> i + 1]
        [] has(2) /\ at(1) = 5 -> [color |-> Indexed(at(2)), next |-> i + 3]
        [] has(4) /\ at(1) = 2 -> [color |-> Rgb(at(2), at(3), at(4)), next |-> i + 5]
        [] has(2) /\ ~has(4) /\ at(1) = 2 -> [color |-> old, next |-> i + 1]
        [] OTHER -> [color |-> old, next |-> i + 2]

(* What parameter i does; a standout shows "reverse" as white on blue.     *)
SgrAt(params, i, style, standout) ==
  LET value == ParamOr(params, i, 0)
      to(new) == [style |-> new, next |-> i + 1]
      ext(old) == Extended(params, i, old)
  IN  CASE value = 0 -> to(DefaultStyle)
        [] value = 7 /\ standout ->
             to([on |-> (style.on \union {"bold"}) \ {"reverse"}, fg |-> Basic(7), bg |-> Basic(4)])
        [] Sets(value) # "none" /\ ~(value = 7 /\ standout) ->
             to([style EXCEPT !.on = @ \union {Sets(value)}])
        [] Clears(value) # "none" -> to([style EXCEPT !.on = @ \ {Clears(value)}])
        [] value \in 30 .. 37   -> to([style EXCEPT !.fg = Basic(value - 30)])
        [] value = 38           -> [style |-> [style EXCEPT !.fg = ext(style.fg).color],
                                    next  |-> ext(style.fg).next]
        [] value = 39           -> to([style EXCEPT !.fg = DefaultColor])
        [] value \in 40 .. 47   -> to([style EXCEPT !.bg = Basic(value - 40)])
        [] value = 48           -> [style |-> [style EXCEPT !.bg = ext(style.bg).color],
                                    next  |-> ext(style.bg).next]
        [] value = 49           -> to([style EXCEPT !.bg = DefaultColor])
        [] value \in 90 .. 97   -> to([style EXCEPT !.fg = Basic(value - 90 + 8)])
        [] value \in 100 .. 107 -> to([style EXCEPT !.bg = Basic(value - 100 + 8)])
        [] OTHER -> to(style)

AppliedSgr(params, style, standout) ==
  IF \A i \in DOMAIN params : params[i] = None THEN DefaultStyle
  ELSE FoldLeft(LAMBDA so_far, i : IF i < so_far.next THEN so_far
                                   ELSE SgrAt(params, i, so_far.style, standout),
                [style |-> style, next |-> 1],
                [i \in DOMAIN params |-> i]).style

-----------------------------------------------------------------------------
(* The parameters that describe a style, in the order of                   *)
(* write_style_params, after those that are there already.                 *)
ColorParams(color, base) ==
  IF color = DefaultColor THEN << >>
  ELSE CASE color[1] = "basic"   -> << base + color[2] >>
         [] color[1] = "indexed" -> << base + 8, 5, color[2] >>
         [] color[1] = "rgb"     -> << base + 8, 2, color[2], color[3], color[4] >>

StyleParams(params, style) ==
  LET attribute(name, n) == IF name \in style.on THEN << n >> ELSE << >>
  IN  params \o attribute("bold", 1) \o attribute("italic", 3) \o attribute("underline", 4)
             \o attribute("blink", 5) \o attribute("reverse", 7)
             \o ColorParams(style.fg, 30) \o ColorParams(style.bg, 40)

\* Slip: only what is new is set.
SlipSgrDiff(from, to) == IF to = DefaultStyle THEN << 0 >> ELSE StyleParams(<< >>, to)

(* The parameters of the SGR sequence that turns one style into another.   *)
SgrDiff(from, to) ==
  CASE to = DefaultStyle -> << 0 >>
    [] to # DefaultStyle /\ from = DefaultStyle -> StyleParams(<< >>, to)
    [] to # DefaultStyle /\ from # DefaultStyle -> StyleParams(<< 0 >>, to)

=============================================================================
