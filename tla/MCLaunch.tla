------------------------------ MODULE MCLaunch ------------------------------
(* An instance of Launch for TLC: sessions that are there, or have left a  *)
(* socket, one that is being started, and runs of screen that look for one *)
(* or wipe; a name may begin like a socket's.                              *)
EXTENDS Launch, TLC

CONSTANTS first, second, third, p1, p2, foo, slash

Want(form, name, aggressive) == [form |-> form, name |-> name, aggressive |-> aggressive]
Foo     == <<foo>>
Awkward == <<p1, foo>>         \* as the socket of a session foo
Nothing    == Want("nothing", << >>, FALSE)
Create(n)  == Want("create", n, FALSE)
List(n)    == Want("list", n, FALSE)
Wipe(n)    == Want("wipe", n, FALSE)
Attach(n)  == Want("attach", n, FALSE)
Reattach(n, any) == Want("reattach", n, any)

Cast(x, y, z) == first :> x @@ second :> y @@ third :> z
Was(state)    == first :> [at |-> state, pid |-> p1, name |-> Foo, age |-> 1]
Scene(w, r, b, m) == [wants |-> w, runtime |-> r, before |-> b, mishaps |-> m]

\* A session is there, or its socket; another, whose name may be taken for the first
\* one's socket, is being started; somebody looks for either.
Meetings == {Scene(Cast(Create(Foo), Create(n), w), "private", Was(s), {"kills"})
             : n \in {Foo, Awkward}, s \in {"serving", "killed"},
               w \in {Attach(<< >>), Attach(Foo), Attach(Awkward), Wipe(Foo)}
                     \union {Reattach(r, g) : r \in {<< >>, Foo}, g \in BOOLEAN}}
\* Wipes among themselves, and while a session is being started.
Sweeps == {Scene(Cast(Create(Foo), Wipe(<< >>), w), "private", Was(s), {})
           : w \in {Wipe(Foo), List(Foo), Want("screen", << >>, FALSE)}, s \in {"serving", "killed"}}
          \union {Scene(Cast(Create(Foo), w, Nothing), "private", << >>, m)
                  : w \in {Wipe(<< >>), Want("screen", << >>, FALSE)}, m \in {{"kills"}, {"windows"}, {"guard"}}}
          \union {Scene(Cast(Create(Foo), Create(Foo), Nothing), "private", << >>, {"guard"})}
\* The directory is made by two at once; what is refused.
Openings == {Scene(Cast(Create(Foo), w, Nothing), r, << >>, m)
             : w \in {Create(Foo), Create(<<slash>>), Attach(<<slash>>), List(<< >>)},
               r \in {"absent", "foreign"}, m \in {{}, {"config"}}}

MCScenarios == Meetings \union Sweeps \union Openings
=============================================================================
