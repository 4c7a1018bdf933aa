------------------------------- MODULE MCText -------------------------------
(* The two ends of a text's way for TLC: the parser that reads what a      *)
(* program writes, and, with the parser at rest, the redraw that writes    *)
(* for a client what the rows have come to hold.  They share the styles.   *)
EXTENDS EscapeParser, Redraw

\* BEL CR ESC ( 1 5 9 0 ; ? [ \ ] c h l m n, CSI in one octet, a two octet and a three
\* octet lead, a continuation
MCBytes == {7, 13, 27, 40, 49, 53, 57, 48, 59, 63, 91, 92, 93, 99, 104, 108, 109, 110, 155, 195, 228, 184}
MCTitleBytes == {48, 59, 92}
\* the modes 1 and 9, the styles 1 and 5, the report 5
MCNumbers == {0, 1, 5, 9}

\* plain; attributes and a basic colour; an index and a true colour whose values read as
\* commands when they are not skipped; a basic background
MCStyles == { DefaultStyle,
              [on |-> {"bold", "underline"}, fg |-> Basic(1), bg |-> DefaultColor],
              [on |-> {"reverse"}, fg |-> Indexed(0), bg |-> Rgb(7, 31, 44)],
              [on |-> {}, fg |-> DefaultColor, bg |-> Basic(4)] }

Parses == row = [c \in 1 .. Columns |-> Blank(DefaultStyle)]
Draws  == parser = Ground /\ terminal = Fresh /\ left = MaxSequences

MCInit == Init /\ RowInit
MCNext == \/ Parses /\ Next /\ UNCHANGED row
          \/ Draws /\ RowNext /\ UNCHANGED vars
MCSpec == MCInit /\ [][MCNext]_<<vars, row>>
=============================================================================
