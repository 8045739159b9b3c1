------------------------------- MODULE Registry -------------------------------
(***************************************************************************)
(* What accounts promise: an address has one owner, who is whoever         *)
(* registered it first; a request takes effect at one moment between its   *)
(* arrival and its answer, or not at all; and a token goes only to who     *)
(* gave the owner's password.  A failure may cost the answer, never the    *)
(* account.                                                                *)
(***************************************************************************)
CONSTANTS Clients, Emails, Passwords, Digest, NoUser

VARIABLES
  accounts,       \* address -> what is kept of its owner's password
  asked,          \* client -> what it asks for: an operation, an address, a password
  effect,         \* client -> "none", "pending" or "granted"
  answer          \* client -> the answer it was given last

vars == <<accounts, asked, effect, answer>>

Operations == {"register", "login"}
Given(c) == Digest[asked[c].password]
Account(c) == accounts[asked[c].email]

Reply(c, status) ==
  /\ effect' = [effect EXCEPT ![c] = "none"]
  /\ answer' = [answer EXCEPT ![c] = status]

Ask(c) ==
  /\ effect[c] = "none"
  /\ \E op \in Operations, e \in Emails, p \in Passwords :
       asked' = [asked EXCEPT ![c] = [op |-> op, email |-> e, password |-> p]]
  /\ effect' = [effect EXCEPT ![c] = "pending"]
  /\ answer' = [answer EXCEPT ![c] = "none"]
  /\ UNCHANGED accounts

Register(c) ==
  /\ effect[c] = "pending" /\ asked[c].op = "register" /\ Account(c) = NoUser
  /\ accounts' = [accounts EXCEPT ![asked[c].email] = Given(c)]
  /\ effect' = [effect EXCEPT ![c] = "granted"]
  /\ UNCHANGED <<asked, answer>>

Give(c) ==
  /\ \/ effect[c] = "granted"
     \/ effect[c] = "pending" /\ asked[c].op = "login" /\ Account(c) = Given(c)
  /\ Reply(c, "token")
  /\ UNCHANGED <<accounts, asked>>

Refuse(c) ==
  /\ effect[c] = "pending"
  /\ \/ asked[c].op = "register" /\ Account(c) # NoUser /\ Reply(c, "conflict")
     \/ asked[c].op = "login" /\ Account(c) # Given(c) /\ Reply(c, "unauthorized")
  /\ UNCHANGED <<accounts, asked>>

Fail(c) ==
  /\ effect[c] # "none" /\ Reply(c, "error")
  /\ UNCHANGED <<accounts, asked>>

Expire(c) ==
  /\ answer[c] = "token"
  /\ answer' = [answer EXCEPT ![c] = "none"]
  /\ UNCHANGED <<accounts, asked, effect>>

Init ==
  /\ accounts = [e \in Emails |-> NoUser]
  /\ asked = [c \in Clients |-> [op |-> "none", email |-> "none", password |-> "none"]]
  /\ effect = [c \in Clients |-> "none"] /\ answer = [c \in Clients |-> "none"]

Next == \E c \in Clients : Ask(c) \/ Register(c) \/ Give(c) \/ Refuse(c) \/ Fail(c) \/ Expire(c)

Spec == Init /\ [][Next]_vars
=============================================================================
