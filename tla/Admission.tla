----------------------------- MODULE Admission ------------------------------
(***************************************************************************)
(* What a session promises about who is attached to it: nobody gets in but *)
(* by the rules in force at that moment, and changing the rules neither    *)
(* lets anybody in nor throws anybody out.  Module Requests implements it  *)
(* with a handshake over sockets.                                          *)
(***************************************************************************)
CONSTANTS Peers,
          Names,        \* of users
          Passwords,
          Name,         \* of each peer, by its credentials
          Knows,        \* the password each peer would give
          Root,         \* the user that one without credentials counts as
          Anybody,      \* the entry of the list that admits every name
          NoPassword

VARIABLES policy,       \* the password asked for, if any, and the list, if it counts
          inside,       \* the peers attached
          anonymous     \* whether the credentials of a peer may be withheld

Policies == [password : Passwords \union {NoPassword}, multiuser : BOOLEAN,
             acl : SUBSET (Names \union {Anybody})]

UsersOf(p) == {Name[p]} \union (IF anonymous THEN {Root} ELSE {})

(* The password before the list; an empty list admits nobody.              *)
Admissible(rules, p) ==
  /\ rules.password \in {NoPassword, Knows[p]}
  /\ rules.multiuser => (UsersOf(p) \union {Anybody}) \intersect rules.acl # {}

Init == policy \in Policies /\ inside = {} /\ anonymous \in BOOLEAN

(* One comes in, alone or to those there are.                              *)
Admit(p) ==
  /\ Admissible(policy, p) /\ inside' \in {{p}, inside \union {p}}
  /\ UNCHANGED <<policy, anonymous>>

Leave == inside' \in SUBSET inside /\ UNCHANGED <<policy, anonymous>>
Rule  == policy' \in Policies /\ UNCHANGED <<inside, anonymous>>

Next == (\E p \in Peers : Admit(p)) \/ Leave \/ Rule

Spec == Init /\ [][Next]_<<policy, inside, anonymous>>
=============================================================================
