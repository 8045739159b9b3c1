------------------------------- MODULE Accounts -------------------------------
(***************************************************************************)
(* Registration and login (src/auth/auth.service.ts).  An address is       *)
(* looked up, then inserted by another statement: two registrations may    *)
(* both find it free, and the unique key of users.email decides.  A row of *)
(* users, once committed, is never updated or deleted; a token is only a   *)
(* signature, and nothing but its fifteen minutes ends it.                 *)
(*                                                                         *)
(* A client makes one request at a time; several may share an account.     *)
(***************************************************************************)
EXTENDS Integers, FiniteSets

CONSTANTS
  Clients, Emails, Passwords,
  Digest,         \* password -> what bcrypt keeps of it, its first 72 bytes
  Tries,          \* client -> the addresses and passwords it tries
  NoUser,         \* an address without a row
  MaxFaults       \* bound: failed queries, lost answers, dead instances

ASSUME AccountsAssumption ==
  /\ Digest \in [Passwords -> Passwords] /\ NoUser \notin Passwords
  /\ Tries \in [Clients -> SUBSET (Emails \X Passwords)]
  /\ MaxFaults \in Nat

VARIABLES
  users,          \* address -> the password_hash of its row
  call,           \* client -> the locals of the handler of its last request
  answer,         \* client -> what it was answered
  faults          \* faults still to come

accountVars == <<users, call, answer, faults>>

NoCall == [pc |-> "free", op |-> "none", email |-> "none", password |-> "none"]

Row(c) == users[call[c].email]
Hash(c) == Digest[call[c].password]

\* The user of the token a client holds: req.user.
Session(c) == IF answer[c] = "token" THEN call[c].email ELSE NoUser

Go(c, pc) == call' = [call EXCEPT ![c].pc = pc]

Reply(c, status) == Go(c, "free") /\ answer' = [answer EXCEPT ![c] = status]

-----------------------------------------------------------------------------
\* POST /auth/register or /auth/login arrives; what the client held is forgotten.
Ask(c, op, try) ==
  /\ call[c].pc = "free"
  /\ call' = [call EXCEPT ![c] = [pc |-> "find", op |-> op, email |-> try[1], password |-> try[2]]]
  /\ answer' = [answer EXCEPT ![c] = "none"]
  /\ UNCHANGED <<users, faults>>

\* register: findOneBy; then the password is hashed.
Find(c) ==
  /\ call[c].pc = "find" /\ call[c].op = "register"
  /\ IF Row(c) # NoUser THEN Reply(c, "conflict") ELSE Go(c, "save") /\ UNCHANGED answer
  /\ UNCHANGED <<users, faults>>

\* Mutation of Save: an upsert on the address.
SaveUpsert(c) ==
  /\ call[c].pc = "save"
  /\ users' = [users EXCEPT ![call[c].email] = Hash(c)]
  /\ Go(c, "saved")
  /\ UNCHANGED <<answer, faults>>

\* save: the INSERT commits, or the unique key refuses it, which is no
\* HttpException: the filter answers 500.
Save(c) ==
  /\ call[c].pc = "save"
  /\ IF Row(c) = NoUser
     THEN /\ users' = [users EXCEPT ![call[c].email] = Hash(c)]
          /\ Go(c, "saved") /\ UNCHANGED answer
     ELSE Reply(c, "error") /\ UNCHANGED users
  /\ UNCHANGED faults

Sign(c) ==
  /\ call[c].pc = "saved" /\ Reply(c, "token")
  /\ UNCHANGED <<users, faults>>

\* Mutation of Login: all of the password is compared.
LoginWhole(c) ==
  /\ call[c].pc = "find" /\ call[c].op = "login"
  /\ Reply(c, IF Row(c) = call[c].password THEN "token" ELSE "unauthorized")
  /\ UNCHANGED <<users, faults>>

\* login: findOneBy, bcrypt.compare.
Login(c) ==
  /\ call[c].pc = "find" /\ call[c].op = "login"
  /\ Reply(c, IF Row(c) = Hash(c) THEN "token" ELSE "unauthorized")
  /\ UNCHANGED <<users, faults>>

\* A query throws, the answer of the COMMIT is lost, or the instance dies.
Fail(c) ==
  /\ call[c].pc # "free" /\ faults > 0
  /\ faults' = faults - 1
  /\ Reply(c, "error")
  /\ UNCHANGED users

\* expiresIn: 15m.
Expire(c) ==
  /\ answer[c] = "token"
  /\ answer' = [answer EXCEPT ![c] = "none"]
  /\ UNCHANGED <<users, call, faults>>

Handle(c) == Find(c) \/ Save(c) \/ Sign(c) \/ Login(c)

AccountStep(c) ==
  \/ \E op \in {"register", "login"}, try \in Tries[c] : Ask(c, op, try)
  \/ Handle(c) \/ Fail(c) \/ Expire(c)

AccountInit ==
  /\ users = [e \in Emails |-> NoUser] /\ faults = MaxFaults
  /\ call = [c \in Clients |-> NoCall] /\ answer = [c \in Clients |-> "none"]

-----------------------------------------------------------------------------
AccountTypeOK ==
  /\ users \in [Emails -> Passwords \cup {NoUser}] /\ faults \in Nat
  /\ call \in [Clients -> [pc : {"find", "save", "saved"}, op : {"register", "login"},
                           email : Emails, password : Passwords]
                          \cup [pc : {"free"}, op : {"none", "register", "login"},
                                email : Emails \cup {"none"}, password : Passwords \cup {"none"}]]
  /\ answer \in [Clients -> {"none", "token", "conflict", "unauthorized", "error"}]

\* Looking an address up and inserting it are two steps, yet accounts behave
\* as one atomic registry: whoever's row was committed first owns the address.
Atomic == INSTANCE Registry WITH
  accounts <- users,
  asked <- [c \in Clients |-> [op |-> call[c].op, email |-> call[c].email,
                               password |-> call[c].password]],
  effect <- [c \in Clients |-> CASE call[c].pc = "free" -> "none"
                                 [] call[c].pc = "saved" -> "granted"
                                 [] OTHER -> "pending"]

ImplementsRegistry == Atomic!Spec
=============================================================================
