--------------------------- MODULE MCSavedSearches ---------------------------
(* bcrypt keeps the same of p2 and of its longer spelling p3.               *)
EXTENDS SavedSearches

MCDigest == [p \in Passwords |-> IF p = "p3" THEN "p2" ELSE p]
MCTries == [c \in Clients |-> IF c = "a" THEN {<<"e1", "p1">>} ELSE {<<"e1", "p1">>, <<"e1", "p3">>, <<"e2", "p2">>}]
=============================================================================
