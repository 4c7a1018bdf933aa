------------------------------- MODULE MCWire -------------------------------
(* An instance of Wire for TLC: at least one message of every kind, with   *)
(* values at the ends of their ranges, and rows and strings up to the      *)
(* limit of a payload.                                                     *)
EXTENDS Wire

Largest(w) == Base ^ w - 1
Long == [i \in 1 .. MAX_PAYLOAD_LEN |-> i % Magic]
M(kind, values, rows, rest) == Message(kind, values, rows, rest)

(* A value for a field: the largest, or one whose octets differ and are    *)
(* not the magic.                                                          *)
Sample(field, largest) ==
  CASE field = "bool" -> largest
    [] field = "str" -> IF largest THEN <<3>> ELSE << >>
    [] OTHER -> IF largest THEN Largest(Width(field))
                ELSE Number([i \in 1 .. Width(field) |-> i % Magic])

PlainKinds == {k \in Kinds : LayoutOf(k).tail \in {"end", "loose", "rest"}} \ {"Attach"}

Plain == {M(k, [i \in DOMAIN LayoutOf(k).fields |-> Sample(LayoutOf(k).fields[i], large)],
            << >>, IF LayoutOf(k).tail = "rest" THEN <<2, 0>> ELSE << >>) :
            k \in PlainKinds, large \in BOOLEAN}

Others ==
  { M("Attach", <<TRUE>>, << >>, << >>), M("Attach", <<FALSE>>, << >>, <<1>>),
    M("Attach", <<TRUE>>, << >>, Long),
    M("Resize", <<6, 9>>, << >>, << >>),
    M("PtyOutput", << >>, << >>, Long), M("PtyOutput", << >>, << >>, Long \o <<0>>),
    M("PtyInput", << >>, << >>, << >>),
    M("PtyOutput", << >>, << >>, <<Magic, Version, NumberOf("Hello"), 0>>),
    M("PtyInput", << >>, << >>, <<0, Magic, Version, NumberOf("Hello"), 0, 1>>),
    M("CreateWindow", << <<1>> >>, <<<< <<2, 1>> >>, << << >> >>>>, << >>),
    M("CreateWindow", << << >> >>, << >>, << >>),
    M("WindowList", << >>, << <<6, 2, <<1>>, <<2, 0>> >> >>, << >>),
    M("WindowList", << >>, << >>, << >>),
    M("BindingsUpdate", << >>, << <<1, <<2>> >>, <<2, <<0, 1>> >> >>, << >>),
    M("CopyModeData", << >>, << << <<1, 2>> >>, << << >> >>, << <<2>> >> >>, << >>),
    M("SearchResult", << >>, << <<1>>, <<85>> >>, << >>),
    M("RegionLayout", << >>, << <<2, 1, 2, 5, 4, TRUE>> >>, << >>),
    M("RegionLayout", << >>, << >>, << >>) }

MCFollowers == {M("Redisplay", << >>, << >>, << >>), M("PtyOutput", << >>, << >>, <<1>>),
                M("Resize", <<6, 9>>, << >>, << >>)}
MCMessages == Plain \union MCFollowers \union Others
=============================================================================
