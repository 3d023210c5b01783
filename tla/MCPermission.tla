----------------------------- MODULE MCPermission -----------------------------
(* Permission for TLC: two sessions ask to edit "a" and "b" under rules    *)
(* that ask, allow or deny.  Asks are interchangeable, and so are replies. *)
EXTENDS Permission, TLC

Edit(session, patterns, always, ruleset) ==
  [session |-> session, permission |-> "edit", patterns |-> patterns,
   always |-> always, ruleset |-> ruleset]

Rule(permission, pattern, action) ==
  [permission |-> permission, pattern |-> pattern, action |-> action]

(* The later rule wins: "a" is asked for in spite of the first rule. *)
AskForA == <<Rule(Star, Star, "allow"), Rule("edit", "a", "ask")>>

DenyB == <<Rule("edit", "b", "deny")>>

MCRequests ==
  {Edit("s1", <<"a">>, {"a"}, AskForA),
   Edit("s1", <<"a", "b">>, {"b"}, <<>>),
   Edit("s1", <<"a", "b">>, {Star}, DenyB),
   Edit("s2", <<"b">>, {"a", "b"}, <<>>)}

Symmetry == Permutations(Asks) \cup Permutations(Replies)
===============================================================================
