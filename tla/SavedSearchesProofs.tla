------------------------- MODULE SavedSearchesProofs -------------------------
(***************************************************************************)
(* Proofs about SavedSearches and the Accounts beneath it, for any number  *)
(* of clients, addresses, passwords, searches and faults, and any digest.  *)
(***************************************************************************)
EXTENDS SavedSearches, TLAPS

\* c's last request gave an address and the password its row was made with.
Knows(c) ==
  /\ call[c].email \in Emails /\ call[c].password \in Passwords
  /\ users[call[c].email] = Hash(c)

\* A token is held, or about to be, only by who knows the password.
Tokens == \A c \in Clients :
  /\ answer[c] = "token" => call[c].pc = "free" /\ Knows(c)
  /\ call[c].pc \in {"save", "saved"} => call[c].op = "register"
  /\ call[c].pc = "saved" => Knows(c)

\* Where a request about a search may stand.
RequestOf(c) ==
  /\ query[c].pc # "free" => Knows(c) /\ reply[c] = "none"
  /\ query[c].pc \in {"find", "delete", "deleted"} => query[c].id \in used
  /\ query[c].pc = "delete" /\ query[c].id \in DOMAIN searches =>
       searches[query[c].id] = query[c].user
  /\ query[c].pc = "deleted" => query[c].id \notin DOMAIN searches
  /\ reply[c] \in {"removed", "missing"} =>
       query[c].id \in used /\ query[c].id \notin DOMAIN searches

\* The inductive invariant.
IInv == TypeOK /\ Tokens /\ \A c \in Clients : RequestOf(c)

-----------------------------------------------------------------------------
\* The values of call[c], by where the request stands.
Called == [pc : {"find", "save", "saved"}, op : {"register", "login"},
           email : Emails, password : Passwords]
Uncalled == [pc : {"free"}, op : {"none", "register", "login"},
             email : Emails \cup {"none"}, password : Passwords \cup {"none"}]
Answers == {"none", "token", "conflict", "unauthorized", "error"}

\* Moving a request on keeps its address and password.
LEMMA MovesOn ==
  ASSUME NEW l \in Called, NEW pc \in {"find", "save", "saved"}
  PROVE  /\ [l EXCEPT !.pc = pc] \in Called /\ [l EXCEPT !.pc = "free"] \in Uncalled
         /\ \A q \in {pc, "free"} :
              LET m == [l EXCEPT !.pc = q]
              IN  m.pc = q /\ m.op = l.op /\ m.email = l.email /\ m.password = l.password
BY DEF Called, Uncalled

\* One client's request and answer change, and no row does.
LEMMA CallChanges ==
  ASSUME AccountTypeOK, Tokens, NEW c \in Clients,
         NEW L \in Called \cup Uncalled, NEW a \in Answers,
         call' = [call EXCEPT ![c] = L], answer' = [answer EXCEPT ![c] = a],
         UNCHANGED users, faults' \in Nat,
         a = "token" => L.pc = "free" /\ L.email \in Emails /\ L.password \in Passwords
                        /\ users[L.email] = Digest[L.password],
         L.pc \in {"save", "saved"} => L.op = "register",
         L.pc # "saved"
  PROVE  AccountTypeOK' /\ Tokens'
<1>1. AccountTypeOK'
  BY DEF AccountTypeOK, Called, Uncalled, Answers
<1>2. ASSUME NEW d \in Clients, d # c
      PROVE call'[d] = call[d] /\ answer'[d] = answer[d]
  BY <1>2 DEF AccountTypeOK
<1>3. call'[c] = L /\ answer'[c] = a
  BY DEF AccountTypeOK
<1>4. Tokens'
  BY <1>2, <1>3 DEF Tokens, Knows, Hash
<1> QED BY <1>1, <1>4

\* A client in the middle of a request has the values of one.
LEMMA Calling ==
  ASSUME AccountTypeOK, NEW c \in Clients, call[c].pc # "free"
  PROVE  call[c] \in Called
BY DEF AccountTypeOK, Called

\* Answering leaves the row alone: the request is over, with a token only for
\* who knows the password.
LEMMA Replies ==
  ASSUME AccountTypeOK, Tokens, NEW c \in Clients, call[c].pc # "free",
         NEW a \in Answers, Reply(c, a), UNCHANGED users, faults' \in Nat,
         a = "token" => Knows(c)
  PROVE  AccountTypeOK' /\ Tokens'
<1> DEFINE L == [call[c] EXCEPT !.pc = "free"]
<1>1. call[c] \in Called
  BY Calling
<1>2. L \in Uncalled /\ L.pc = "free" /\ L.email = call[c].email /\ L.password = call[c].password
  BY <1>1, MovesOn
<1>3. call' = [call EXCEPT ![c] = L] /\ answer' = [answer EXCEPT ![c] = a]
  BY DEF Reply, Go
<1> HIDE DEF L
<1> QED BY <1>2, <1>3, CallChanges DEF Knows, Hash

-----------------------------------------------------------------------------
\* What an account step of c does: types and tokens stay, other clients keep
\* their requests, and what a client knows stays known.
AccountStepKeeps(c) ==
  /\ AccountTypeOK' /\ Tokens'
  /\ \A d \in Clients : d # c => call'[d] = call[d]
  /\ \A e \in Emails : users[e] # NoUser => users'[e] = users[e]

\* A new request leaves no token and no row behind.
LEMMA AskKeeps ==
  ASSUME AccountTypeOK, Tokens, NEW c \in Clients, NEW op \in {"register", "login"},
         NEW try \in Tries[c], Ask(c, op, try)
  PROVE  AccountStepKeeps(c)
<1> DEFINE L == [pc |-> "find", op |-> op, email |-> try[1], password |-> try[2]]
<1>1. try \in Emails \X Passwords
  BY AccountsAssumption
<1>2. L \in Called /\ L.pc = "find"
  BY <1>1 DEF Called
<1>3. call' = [call EXCEPT ![c] = L] /\ answer' = [answer EXCEPT ![c] = "none"]
  BY DEF Ask
<1>4. UNCHANGED users /\ faults' \in Nat
  BY DEF Ask, AccountTypeOK
<1> HIDE DEF L
<1>5. AccountTypeOK' /\ Tokens'
  BY <1>2, <1>3, <1>4, CallChanges DEF Answers
<1>6. \A d \in Clients : d # c => call'[d] = call[d]
  BY <1>3 DEF AccountTypeOK
<1> QED BY <1>4, <1>5, <1>6 DEF AccountStepKeeps

\* The look-up only answers, or goes on to the INSERT.
LEMMA FindKeeps ==
  ASSUME AccountTypeOK, Tokens, NEW c \in Clients, Find(c)
  PROVE  AccountStepKeeps(c)
<1>1. call[c] \in Called /\ call[c].pc = "find" /\ call[c].op = "register"
  BY Calling DEF Find
<1>2. UNCHANGED users /\ faults' \in Nat
  BY DEF Find, AccountTypeOK
<1>3. AccountTypeOK' /\ Tokens'
  <2>1. CASE Reply(c, "conflict")
    BY <1>1, <1>2, <2>1, Replies DEF Answers
  <2>2. CASE Go(c, "save") /\ UNCHANGED answer
    <3> DEFINE L == [call[c] EXCEPT !.pc = "save"]
    <3>1. L \in Called /\ L.pc = "save" /\ L.op = "register"
      BY <1>1, MovesOn
    <3>2. call' = [call EXCEPT ![c] = L]
      BY <2>2 DEF Go
    <3>3. answer' = [answer EXCEPT ![c] = answer[c]] /\ answer[c] \in Answers
      BY <2>2 DEF AccountTypeOK, Answers
    <3>4. answer[c] # "token"
      BY <1>1 DEF Tokens
    <3> HIDE DEF L
    <3> QED BY <1>2, <3>1, <3>2, <3>3, <3>4, CallChanges
  <2> QED BY <2>1, <2>2 DEF Find
<1>4. \A d \in Clients : d # c => call'[d] = call[d]
  BY DEF Find, Reply, Go, AccountTypeOK
<1> QED BY <1>2, <1>3, <1>4 DEF AccountStepKeeps

\* The INSERT gives an address its first owner.
LEMMA SaveKeeps ==
  ASSUME AccountTypeOK, Tokens, NEW c \in Clients, Save(c)
  PROVE  AccountStepKeeps(c)
<1>1. call[c] \in Called /\ call[c].pc = "save" /\ call[c].op = "register" /\ faults' \in Nat
  BY Calling DEF Save, Tokens, AccountTypeOK
<1>2. call[c].email \in Emails /\ call[c].password \in Passwords /\ Hash(c) \in Passwords
  BY <1>1, AccountsAssumption DEF Called, Hash
<1>3. \A d \in Clients : d # c => call'[d] = call[d]
  BY DEF Save, Reply, Go, AccountTypeOK
<1>4. CASE Row(c) # NoUser
  <2>1. Reply(c, "error") /\ UNCHANGED users
    BY <1>4 DEF Save
  <2>2. AccountTypeOK' /\ Tokens'
    BY <1>1, <2>1, Replies DEF Answers
  <2> QED BY <1>3, <2>1, <2>2 DEF AccountStepKeeps
<1>5. CASE Row(c) = NoUser
  <2> DEFINE L == [call[c] EXCEPT !.pc = "saved"]
             h == Hash(c)
             e == call[c].email
  <2>1. /\ L \in Called /\ L.pc = "saved" /\ L.op = "register"
        /\ L.email = e /\ L.password = call[c].password
    BY <1>1, MovesOn
  <2>2. /\ call' = [call EXCEPT ![c] = L] /\ UNCHANGED answer
        /\ users' = [users EXCEPT ![e] = h]
    BY <1>5 DEF Save, Go
  <2>a. h = Digest[call[c].password] /\ h \in Passwords /\ e \in Emails
    BY <1>2 DEF Hash
  <2>b. users[e] = NoUser
    BY <1>5 DEF Row
  <2> HIDE DEF L, h, e
  <2>3. AccountTypeOK'
    BY <1>1, <2>a, <2>1, <2>2 DEF AccountTypeOK, Called
  <2>4. \A a \in Emails : users[a] # NoUser => users'[a] = users[a]
    BY <2>b, <2>2 DEF AccountTypeOK
  <2>5. ASSUME NEW d \in Clients, d # c, Knows(d) PROVE Knows(d)'
    <3>1. Hash(d) \in Passwords /\ call'[d] = call[d]
      BY <1>3, <2>5, AccountsAssumption DEF Knows, Hash
    <3>2. users'[call[d].email] = users[call[d].email]
      BY <2>4, <2>5, <3>1, AccountsAssumption DEF Knows
    <3> QED BY <2>5, <3>1, <3>2 DEF Knows, Hash
  <2>6. call'[c] = L /\ Knows(c)'
    BY <1>2, <2>a, <2>1, <2>2 DEF Knows, Hash, AccountTypeOK
  <2>7. answer[c] # "token"
    BY <1>1 DEF Tokens
  <2>8. Tokens'
    <3> SUFFICES ASSUME NEW d \in Clients
                 PROVE  /\ answer'[d] = "token" => call'[d].pc = "free" /\ Knows(d)'
                        /\ call'[d].pc \in {"save", "saved"} => call'[d].op = "register"
                        /\ call'[d].pc = "saved" => Knows(d)'
      BY DEF Tokens
    <3>1. CASE d = c
      BY <2>1, <2>2, <2>6, <2>7, <3>1
    <3>2. CASE d # c
      BY <1>3, <2>2, <2>5, <3>2 DEF Tokens
    <3> QED BY <3>1, <3>2
  <2> QED BY <1>3, <2>3, <2>4, <2>8 DEF AccountStepKeeps
<1> QED BY <1>4, <1>5

\* What a client knows, it knows after the account step of another.
LEMMA KnowsLasts ==
  ASSUME NEW c \in Clients, AccountStepKeeps(c), NEW d \in Clients, Knows(d), call'[d] = call[d]
  PROVE  Knows(d)'
BY AccountsAssumption DEF AccountStepKeeps, Knows, Hash

\* Every step of the accounts keeps rows and tokens in order.
LEMMA AccountStepIsSafe ==
  ASSUME AccountTypeOK, Tokens, NEW c \in Clients, AccountStep(c)
  PROVE  AccountStepKeeps(c)
<1>1. ASSUME NEW op \in {"register", "login"}, NEW try \in Tries[c], Ask(c, op, try)
      PROVE AccountStepKeeps(c)
  BY <1>1, AskKeeps
<1>2. CASE Find(c)
  BY <1>2, FindKeeps
<1>3. CASE Save(c)
  BY <1>3, SaveKeeps
<1>4. ASSUME NEW a \in Answers, call[c].pc # "free", Reply(c, a), UNCHANGED users,
             faults' \in Nat, a = "token" => Knows(c)
      PROVE AccountStepKeeps(c)
  <2>1. AccountTypeOK' /\ Tokens'
    BY <1>4, Replies
  <2>2. \A d \in Clients : d # c => call'[d] = call[d]
    BY <1>4 DEF Reply, Go, AccountTypeOK
  <2> QED BY <1>4, <2>1, <2>2 DEF AccountStepKeeps
<1>5. CASE Sign(c)
  BY <1>4, <1>5 DEF Sign, Answers, Tokens, AccountTypeOK
<1>6. CASE Login(c)
  <2>1. call[c] \in Called
    BY <1>6, Calling DEF Login
  <2>2. Row(c) = Hash(c) => Knows(c)
    BY <2>1 DEF Row, Knows, Called
  <2>3. faults' \in Nat /\ UNCHANGED users /\ call[c].pc # "free"
    BY <1>6 DEF Login, AccountTypeOK
  <2>4. CASE Row(c) = Hash(c)
    BY <1>4, <1>6, <2>2, <2>3, <2>4 DEF Login, Answers
  <2>5. CASE Row(c) # Hash(c)
    BY <1>4, <1>6, <2>3, <2>5 DEF Login, Answers
  <2> QED BY <2>4, <2>5
<1>7. CASE Fail(c)
  BY <1>4, <1>7 DEF Fail, Answers, AccountTypeOK
<1>8. CASE Expire(c)
  <2>1. call' = [call EXCEPT ![c] = call[c]] /\ call[c] \in Called \cup Uncalled
    BY <1>8 DEF Expire, AccountTypeOK, Called, Uncalled
  <2>2. call[c].pc = "free"
    BY <1>8 DEF Expire, Tokens
  <2>3. AccountTypeOK' /\ Tokens'
    BY <1>8, <2>1, <2>2, CallChanges DEF Expire, Answers, AccountTypeOK
  <2> QED BY <1>8, <2>3 DEF AccountStepKeeps, Expire
<1> QED BY <1>1, <1>2, <1>3, <1>5, <1>6, <1>7, <1>8 DEF AccountStep, Handle

-----------------------------------------------------------------------------
\* The account step of c disturbs no search and no request about one.
LEMMA AuthenticateKeeps ==
  ASSUME IInv, NEW c \in Clients, Authenticate(c)
  PROVE  IInv'
<1>1. AccountStepKeeps(c) /\ UNCHANGED searchVars
  BY AccountStepIsSafe DEF IInv, TypeOK, Authenticate
<1>2. ASSUME NEW d \in Clients, query[d].pc # "free"
      PROVE  call'[d].pc = "free" /\ call'[d].email = call[d].email /\ Knows(d)'
  <2>1. call[d].pc = "free" /\ Knows(d)
    BY <1>2 DEF IInv, TypeOK, RequestOf
  <2>2. call'[d].pc = "free"
    BY <1>1, <1>2, <2>1 DEF Authenticate, Waits, AccountStepKeeps
  <2>3. call'[d] = call[d]
    <3>1. CASE d # c
      BY <1>1, <3>1 DEF AccountStepKeeps
    <3>2. CASE d = c /\ \E op \in {"register", "login"}, try \in Tries[c] : Ask(c, op, try)
      BY <2>2, <3>2 DEF Ask, IInv, TypeOK, AccountTypeOK
    <3>3. CASE d = c /\ (Handle(c) \/ Fail(c))
      BY <2>1, <3>3 DEF Handle, Find, Save, Sign, Login, Fail
    <3>4. CASE d = c /\ Expire(c)
      BY <3>4 DEF Expire
    <3> QED BY <3>1, <3>2, <3>3, <3>4 DEF Authenticate, AccountStep
  <2> QED BY <1>1, <2>1, <2>2, <2>3, KnowsLasts
<1>3. TypeOK'
  BY <1>1, <1>2 DEF IInv, TypeOK, AccountStepKeeps, searchVars
<1>4. ASSUME NEW d \in Clients PROVE RequestOf(d)'
  BY <1>1, <1>2 DEF IInv, RequestOf, searchVars
<1> QED BY <1>1, <1>3, <1>4 DEF IInv, AccountStepKeeps

\* The values of query[c], and what a step of c about a search leaves alone.
Asked(ids) == [pc : {"free", "insert", "inserted", "find", "delete", "deleted"},
               user : Emails \cup {NoUser}, id : ids \cup {NoUser}]

\* An answered request keeps its user and its id.
LEMMA Answering ==
  ASSUME NEW q \in Asked(used), NEW pc \in {"free", "insert", "inserted", "find", "delete", "deleted"}
  PROVE  /\ [q EXCEPT !.pc = pc] \in Asked(used)
         /\ [q EXCEPT !.pc = pc].pc = pc
         /\ [q EXCEPT !.pc = pc].user = q.user /\ [q EXCEPT !.pc = pc].id = q.id
BY DEF Asked

\* A client's request about a search moves on to Q and is answered r; ids are
\* only ever added, and the searches that stay keep their owners.
LEMMA QueryChanges ==
  ASSUME IInv, NEW c \in Clients, UNCHANGED <<users, call, answer>>, faults' \in Nat,
         NEW Q \in Asked(used'), query' = [query EXCEPT ![c] = Q],
         NEW r \in {"none", "created", "removed", "missing", "forbidden", "error"},
         reply' = [reply EXCEPT ![c] = r],
         used \subseteq used', used' \subseteq Ids,
         DOMAIN searches' \subseteq used', searches' \in [DOMAIN searches' -> Emails],
         DOMAIN searches' \cap used \subseteq DOMAIN searches,
         \A i \in DOMAIN searches \cap DOMAIN searches' : searches'[i] = searches[i],
         Q.pc # "free" => Q.user = call[c].email /\ call[c].pc = "free",
         RequestOf(c)'
  PROVE  IInv'
<1>1. query'[c] = Q /\ reply'[c] = r
  BY DEF IInv, TypeOK
<1>2. ASSUME NEW d \in Clients, d # c PROVE query'[d] = query[d] /\ reply'[d] = reply[d]
  BY <1>2 DEF IInv, TypeOK
<1>3. TypeOK'
  <2>1. query' \in [Clients -> Asked(used')]
    BY DEF IInv, TypeOK, Asked
  <2>2. \A d \in Clients : query'[d].pc # "free" => query'[d].user = call'[d].email /\ call'[d].pc = "free"
    BY <1>1, <1>2 DEF IInv, TypeOK
  <2>3. reply' \in [Clients -> {"none", "created", "removed", "missing", "forbidden", "error"}]
    BY DEF IInv, TypeOK
  <2>4. AccountTypeOK'
    BY DEF IInv, TypeOK, AccountTypeOK
  <2> QED BY <2>1, <2>2, <2>3, <2>4 DEF TypeOK, Asked
<1>4. Tokens'
  BY DEF IInv, Tokens, Knows, Hash
<1>5. ASSUME NEW d \in Clients, d # c PROVE RequestOf(d)'
  <2>1. RequestOf(d)
    BY DEF IInv
  <2>2. query'[d] = query[d] /\ reply'[d] = reply[d] /\ (Knows(d) => Knows(d)')
    BY <1>2, <1>5 DEF Knows, Hash
  <2>3. query[d].id \in used /\ query[d].id \notin DOMAIN searches
          => query[d].id \in used' /\ query[d].id \notin DOMAIN searches'
    OBVIOUS
  <2>4. query[d].id \in used /\ query[d].id \in DOMAIN searches'
          => query[d].id \in DOMAIN searches /\ searches'[query[d].id] = searches[query[d].id]
    OBVIOUS
  <2> QED BY <2>1, <2>2, <2>3, <2>4 DEF RequestOf
<1> QED BY <1>3, <1>4, <1>5 DEF IInv

\* Being let in, and an answer, change nothing but the client's own request.
LEMMA AdmitKeeps ==
  ASSUME IInv, NEW c \in Clients, NEW pc \in {"insert", "find"}, NEW id \in used \cup {NoUser},
         Admit(c, pc, id), pc = "find" => id \in used
  PROVE  IInv'
<1> DEFINE Q == [pc |-> pc, user |-> Session(c), id |-> id]
<1>1. UNCHANGED <<users, call, answer, faults, searches, used>> /\ Session(c) # NoUser /\ call[c].pc = "free"
  BY DEF Admit, accountVars
<1>2. answer[c] = "token" /\ Session(c) = call[c].email /\ Knows(c)
  BY <1>1 DEF Session, IInv, Tokens
<1>3. Q \in Asked(used) /\ Q.pc = pc /\ Q.user = call[c].email /\ Q.id = id
  BY <1>2 DEF Asked, Knows
<1>4. query' = [query EXCEPT ![c] = Q] /\ reply' = [reply EXCEPT ![c] = "none"]
  BY DEF Admit
<1> HIDE DEF Q
<1>5. query'[c] = Q /\ reply'[c] = "none"
  BY <1>4 DEF IInv, TypeOK
<1>6. RequestOf(c)'
  BY <1>1, <1>2, <1>3, <1>5 DEF RequestOf, Knows, Hash
<1>7. faults' \in Nat /\ used' \subseteq Ids /\ DOMAIN searches' \subseteq used'
      /\ searches' \in [DOMAIN searches' -> Emails]
  BY <1>1 DEF IInv, TypeOK, AccountTypeOK
<1> QED BY <1>1, <1>3, <1>4, <1>6, <1>7, QueryChanges

\* An answer is safe to give if what it says is so.
LEMMA AnswerKeeps ==
  ASSUME IInv, NEW c \in Clients, query[c].pc # "free",
         NEW r \in {"created", "removed", "missing", "forbidden", "error"}, Answer(c, r),
         UNCHANGED <<users, call, answer, searches, used>>, faults' \in Nat,
         r \in {"removed", "missing"} => query[c].id \in used /\ query[c].id \notin DOMAIN searches
  PROVE  IInv'
<1> DEFINE Q == [query[c] EXCEPT !.pc = "free"]
<1>1. query[c] \in Asked(used)
  BY DEF IInv, TypeOK, Asked
<1>2. Q \in Asked(used) /\ Q.pc = "free" /\ Q.id = query[c].id
  BY <1>1, Answering
<1>3. query' = [query EXCEPT ![c] = Q] /\ reply' = [reply EXCEPT ![c] = r]
  BY DEF Answer
<1> HIDE DEF Q
<1>4. query'[c] = Q /\ reply'[c] = r
  BY <1>3 DEF IInv, TypeOK
<1>5. RequestOf(c)'
  BY <1>2, <1>4 DEF RequestOf
<1>6. used' \subseteq Ids /\ DOMAIN searches' \subseteq used' /\ searches' \in [DOMAIN searches' -> Emails]
  BY DEF IInv, TypeOK
<1> QED BY <1>2, <1>3, <1>5, <1>6, QueryChanges

\* A new search belongs to whoever asked for it.
LEMMA InsertKeeps ==
  ASSUME IInv, NEW c \in Clients, Insert(c)
  PROVE  IInv'
<1>1. PICK id \in Ids \ used :
        /\ searches' = [i \in DOMAIN searches \cup {id} |->
                          IF i = id THEN query[c].user ELSE searches[i]]
        /\ used' = used \cup {id}
        /\ query' = [query EXCEPT ![c] = [@ EXCEPT !.pc = "inserted", !.id = id]]
  BY DEF Insert
<1> DEFINE Q == [query[c] EXCEPT !.pc = "inserted", !.id = id]
<1>2. query[c] \in Asked(used) /\ query[c].pc = "insert"
  BY DEF Insert, IInv, TypeOK, Asked
<1>3. Q \in Asked(used') /\ Q.pc = "inserted" /\ Q.user = query[c].user /\ Q.id = id
  BY <1>1, <1>2, Zenon DEF Asked
<1>4. UNCHANGED <<users, call, answer, faults, reply>>
  BY DEF Insert, accountVars
<1>5. query[c].user = call[c].email /\ call[c].pc = "free" /\ Knows(c) /\ reply[c] = "none"
  BY <1>2 DEF IInv, TypeOK, RequestOf
<1>6. query' = [query EXCEPT ![c] = Q] /\ reply' = [reply EXCEPT ![c] = "none"]
  BY <1>1, <1>4, <1>5 DEF IInv, TypeOK
<1> HIDE DEF Q
<1>7. query'[c] = Q /\ reply'[c] = "none"
  BY <1>6 DEF IInv, TypeOK
<1>8. RequestOf(c)'
  BY <1>3, <1>4, <1>5, <1>7 DEF RequestOf, Knows, Hash
<1>9. DOMAIN searches' = DOMAIN searches \cup {id} /\ used' \subseteq Ids
      /\ searches' \in [DOMAIN searches' -> Emails] /\ DOMAIN searches' \subseteq used'
  BY <1>1, <1>5 DEF IInv, TypeOK, Knows
<1>10. \A i \in DOMAIN searches \cap DOMAIN searches' : searches'[i] = searches[i]
  BY <1>1 DEF IInv, TypeOK
<1>11. DOMAIN searches' \cap used \subseteq DOMAIN searches /\ used \subseteq used'
  BY <1>1, <1>9
<1>12. faults' \in Nat
  BY <1>4 DEF IInv, TypeOK, AccountTypeOK
<1> QED BY <1>3, <1>4, <1>5, <1>6, <1>8, <1>9, <1>10, <1>11, <1>12, QueryChanges

\* LookUp goes on to the DELETE of a row of the client's own.
LEMMA ProceedKeeps ==
  ASSUME IInv, NEW c \in Clients, NEW pc \in {"delete", "deleted"}, Proceed(c, pc),
         query[c].pc \in {"find", "delete"},
         UNCHANGED <<users, call, answer, faults, used>>,
         searches' \in {searches, [i \in DOMAIN searches \ {query[c].id} |-> searches[i]]},
         pc = "delete" => query[c].id \in DOMAIN searches' /\ searches'[query[c].id] = query[c].user,
         pc = "deleted" => query[c].id \notin DOMAIN searches'
  PROVE  IInv'
<1> DEFINE Q == [query[c] EXCEPT !.pc = pc]
<1>1. query[c] \in Asked(used)
  BY DEF IInv, TypeOK, Asked
<1>2. Q \in Asked(used) /\ Q.pc = pc /\ Q.id = query[c].id /\ Q.user = query[c].user
  <2>1. pc \in {"free", "insert", "inserted", "find", "delete", "deleted"}
    OBVIOUS
  <2> QED BY <1>1, <2>1, Answering
<1>3. query[c].user = call[c].email /\ call[c].pc = "free" /\ Knows(c) /\ reply[c] = "none"
      /\ query[c].id \in used
  BY DEF IInv, TypeOK, RequestOf
<1>4. query' = [query EXCEPT ![c] = Q] /\ reply' = [reply EXCEPT ![c] = "none"]
  BY <1>3 DEF Proceed, IInv, TypeOK
<1> HIDE DEF Q
<1>5. query'[c] = Q /\ reply'[c] = "none"
  BY <1>4 DEF IInv, TypeOK
<1>6. RequestOf(c)'
  BY <1>2, <1>3, <1>5 DEF RequestOf, Knows, Hash
<1>7. /\ DOMAIN searches' \subseteq DOMAIN searches /\ used' \subseteq Ids
      /\ searches' \in [DOMAIN searches' -> Emails] /\ DOMAIN searches' \subseteq used'
      /\ \A i \in DOMAIN searches \cap DOMAIN searches' : searches'[i] = searches[i]
  BY DEF IInv, TypeOK
<1>8. faults' \in Nat
  BY DEF IInv, TypeOK, AccountTypeOK
<1> QED BY <1>2, <1>3, <1>4, <1>6, <1>7, <1>8, QueryChanges

-----------------------------------------------------------------------------
\* The invariant holds at the start and every step keeps it.
LEMMA InitIsSafe == Init => IInv
BY AccountsAssumption
   DEF Init, AccountInit, IInv, TypeOK, AccountTypeOK, Tokens, RequestOf, NoCall, NoQuery

\* Every step keeps the invariant.
LEMMA NextIsSafe == IInv /\ [Next]_vars => IInv'
<1> SUFFICES ASSUME IInv, [Next]_vars PROVE IInv'
  OBVIOUS
<1>1. ASSUME NEW c \in Clients, Authenticate(c) PROVE IInv'
  BY <1>1, AuthenticateKeeps
<1>2. ASSUME NEW c \in Clients, AskCreate(c) PROVE IInv'
  BY <1>2, AdmitKeeps DEF AskCreate
<1>3. ASSUME NEW c \in Clients, Insert(c) PROVE IInv'
  BY <1>3, InsertKeeps
<1>4. ASSUME NEW c \in Clients, AskRemove(c) PROVE IInv'
  BY <1>4, AdmitKeeps DEF AskRemove
<1>5. ASSUME NEW c \in Clients, LookUp(c) PROVE IInv'
  <2>1. /\ UNCHANGED <<users, call, answer, faults, searches, used>> /\ faults' \in Nat
        /\ query[c].pc = "find" /\ query[c].id \in used
    BY <1>5 DEF LookUp, accountVars, IInv, TypeOK, AccountTypeOK, RequestOf
  <2>2. CASE Answer(c, "missing") /\ query[c].id \notin DOMAIN searches
    BY <2>1, <2>2, AnswerKeeps
  <2>3. CASE Answer(c, "forbidden")
    BY <2>1, <2>3, AnswerKeeps
  <2>4. CASE Proceed(c, "delete") /\ query[c].id \in DOMAIN searches /\ searches[query[c].id] = query[c].user
    BY <2>1, <2>4, ProceedKeeps
  <2> QED BY <1>5, <2>2, <2>3, <2>4 DEF LookUp
<1>6. ASSUME NEW c \in Clients, Delete(c) PROVE IInv'
  <2>1. /\ UNCHANGED <<users, call, answer, faults, used>> /\ query[c].pc = "delete"
        /\ searches' = [i \in DOMAIN searches \ {query[c].id} |-> searches[i]]
        /\ Proceed(c, "deleted")
    BY <1>6 DEF Delete, accountVars
  <2>2. query[c].id \notin DOMAIN searches'
    BY <2>1
  <2> QED BY <2>1, <2>2, ProceedKeeps
<1>7. ASSUME NEW c \in Clients, Respond(c) PROVE IInv'
  <2>1. UNCHANGED <<users, call, answer, faults, searches, used>> /\ faults' \in Nat
    BY <1>7 DEF Respond, accountVars, IInv, TypeOK, AccountTypeOK
  <2>2. CASE query[c].pc = "inserted" /\ Answer(c, "created")
    BY <2>1, <2>2, AnswerKeeps
  <2>3. CASE query[c].pc = "deleted" /\ Answer(c, "removed")
    <3>1. query[c].id \in used /\ query[c].id \notin DOMAIN searches
      BY <2>3 DEF IInv, RequestOf
    <3> QED BY <2>1, <2>3, <3>1, AnswerKeeps
  <2> QED BY <1>7, <2>2, <2>3 DEF Respond
<1>8. ASSUME NEW c \in Clients, QueryFails(c) PROVE IInv'
  BY <1>8, AnswerKeeps DEF QueryFails, IInv, TypeOK, AccountTypeOK
<1>9. CASE UNCHANGED vars
  BY <1>9 DEF vars, accountVars, searchVars, IInv, TypeOK, AccountTypeOK, Tokens, RequestOf, Knows, Hash
<1> QED BY <1>1, <1>2, <1>3, <1>4, <1>5, <1>6, <1>7, <1>8, <1>9 DEF Next, SearchStep

\* The type and what is known of removed searches hold in every state.
THEOREM Safety == Spec => []IInv
<1> QED BY InitIsSafe, NextIsSafe, PTL DEF Spec

\* The state keeps its type; a request about a search is one of an account.
THEOREM TypeCorrect == Spec => []TypeOK
BY Safety, PTL DEF IInv

\* Who is told that a search is removed, or not there, never sees it again.
THEOREM RemovalsAreFinal == Spec => []RemovalIsFinal
<1>1. IInv => RemovalIsFinal
  BY DEF IInv, RequestOf, RemovalIsFinal
<1> QED BY <1>1, Safety, PTL

\* A search comes and goes only by a client that knows its owner's password.
THEOREM OnlyOwnersAct == Spec => OwnersOnly
<1>1. ASSUME IInv, [Next]_vars
      PROVE \A e \in Emails :
       {i \in DOMAIN searches : searches[i] = e} # {i \in DOMAIN searches' : searches'[i] = e} =>
         \E c \in Clients : query'[c] # query[c] /\ call[c].email = e /\ users[e] = Hash(c)
  <2> DEFINE Of(e) == {i \in DOMAIN searches : searches[i] = e}
  <2> SUFFICES ASSUME NEW e \in Emails, Of(e) # Of(e)'
               PROVE \E c \in Clients : query'[c] # query[c] /\ call[c].email = e /\ users[e] = Hash(c)
    OBVIOUS
  <2> USE <1>1
  <2>1. searches' # searches
    OBVIOUS
  <2>2. PICK c \in Clients : Insert(c) \/ Delete(c)
    BY <2>1 DEF Next, SearchStep, Authenticate, AskCreate, AskRemove, Admit, LookUp, Respond,
                QueryFails, vars, searchVars
  <2>3. query[c].pc \in {"insert", "delete"} /\ query[c] \in Asked(used)
    BY <2>2 DEF Insert, Delete, IInv, TypeOK, Asked
  <2>4. query[c].user = call[c].email /\ Knows(c)
    BY <2>3 DEF IInv, TypeOK, RequestOf
  <2>5. CASE Insert(c)
    <3>1. PICK id \in Ids \ used :
            /\ searches' = [i \in DOMAIN searches \cup {id} |->
                              IF i = id THEN query[c].user ELSE searches[i]]
            /\ query' = [query EXCEPT ![c].pc = "inserted", ![c].id = id]
      BY <2>5 DEF Insert
    <3>2. query[c].pc = "insert" /\ query'[c].pc = "inserted"
      BY <2>5, <3>1, <2>3 DEF Insert, IInv, TypeOK
    <3>3. id \notin DOMAIN searches
      BY DEF IInv, TypeOK
    <3>4. query[c].user = e
      <4>1. ASSUME query[c].user # e PROVE FALSE
        <5>1. \A i : i \in Of(e)' <=> i \in Of(e)
          BY <3>1, <3>3, <4>1
        <5> QED BY <5>1
      <4> QED BY <4>1
    <3> QED BY <2>4, <3>2, <3>4 DEF Knows
  <2>6. CASE Delete(c)
    <3>1. searches' = [i \in DOMAIN searches \ {query[c].id} |-> searches[i]]
      BY <2>6 DEF Delete
    <3>2. query[c].pc = "delete" /\ query'[c].pc = "deleted"
      BY <2>6, <2>3 DEF Delete, Proceed, IInv, TypeOK
    <3>3. query[c].id \in DOMAIN searches /\ searches[query[c].id] = e
      <4>1. ASSUME ~(query[c].id \in DOMAIN searches /\ searches[query[c].id] = e) PROVE FALSE
        <5>1. \A i : i \in Of(e)' <=> i \in Of(e)
          BY <3>1, <4>1
        <5> QED BY <5>1
      <4> QED BY <4>1
    <3>4. query[c].user = e
      BY <3>2, <3>3 DEF IInv, RequestOf
    <3> QED BY <2>4, <3>2, <3>4 DEF Knows
  <2> QED BY <2>2, <2>5, <2>6
<1> QED BY <1>1, Safety, PTL DEF Spec, OwnersOnly

-----------------------------------------------------------------------------
\* The names the refinement gives to what a client asked and got.
asks == [c \in Clients |-> [op |-> call[c].op, email |-> call[c].email, password |-> call[c].password]]
effects == [c \in Clients |-> CASE call[c].pc = "free" -> "none"
                                [] call[c].pc = "saved" -> "granted"
                                [] OTHER -> "pending"]

\* A step of one client changes what it asked and got, and no other's.
LEMMA Mapped ==
  ASSUME AccountTypeOK, NEW c \in Clients, NEW L \in Called \cup Uncalled,
         call' = [call EXCEPT ![c] = L]
  PROVE  /\ asks' = [asks EXCEPT ![c] = [op |-> L.op, email |-> L.email, password |-> L.password]]
         /\ effects' = [effects EXCEPT ![c] =
                          IF L.pc = "free" THEN "none" ELSE IF L.pc = "saved" THEN "granted" ELSE "pending"]
BY DEF asks, effects, AccountTypeOK

\* Every step of the accounts is one of the registry's, or none: the look-up
\* is only a guess, and the INSERT decides.
LEMMA StepImplements ==
  ASSUME AccountTypeOK, Tokens, NEW c \in Clients, AccountStep(c)
  PROVE  [Atomic!Next]_Atomic!vars
<1> DEFINE Nothing == UNCHANGED <<users, asks, effects, answer>>
           Step == \/ Atomic!Ask(c) \/ Atomic!Register(c) \/ Atomic!Give(c)
                   \/ Atomic!Refuse(c) \/ Atomic!Fail(c) \/ Atomic!Expire(c)
<1>0. Step \/ Nothing => [Atomic!Next]_Atomic!vars
  BY DEF Atomic!Next, Atomic!vars, asks, effects
<1>a. /\ asks[c] = [op |-> call[c].op, email |-> call[c].email, password |-> call[c].password]
      /\ effects[c] = CASE call[c].pc = "free" -> "none"
                        [] call[c].pc = "saved" -> "granted"
                        [] OTHER -> "pending"
  BY DEF asks, effects
<1>b. Row(c) = users[asks[c].email] /\ Hash(c) = Digest[asks[c].password]
  BY <1>a DEF Row, Hash
<1> HIDE DEF Step
<1>c. ASSUME NEW status, call[c].pc # "free", Reply(c, status)
      PROVE  /\ asks' = asks
             /\ effects' = [effects EXCEPT ![c] = "none"]
             /\ answer' = [answer EXCEPT ![c] = status]
  <2> DEFINE L == [call[c] EXCEPT !.pc = "free"]
  <2>1. call[c] \in Called
    BY <1>c, Calling
  <2>2. /\ L \in Uncalled /\ L.pc = "free" /\ L.op = call[c].op
        /\ L.email = call[c].email /\ L.password = call[c].password
    BY <2>1, MovesOn
  <2>3. call' = [call EXCEPT ![c] = L] /\ answer' = [answer EXCEPT ![c] = status]
    BY <1>c DEF Reply, Go
  <2> HIDE DEF L
  <2>4. /\ asks' = [asks EXCEPT ![c] = [op |-> L.op, email |-> L.email, password |-> L.password]]
        /\ effects' = [effects EXCEPT ![c] = "none"]
    BY <2>2, <2>3, Mapped
  <2>5. asks' = asks
    BY <2>2, <2>4, <1>a DEF asks
  <2> QED BY <2>3, <2>4, <2>5
<1>1. ASSUME NEW op \in {"register", "login"}, NEW try \in Tries[c], Ask(c, op, try) PROVE Step
  <2> DEFINE L == [pc |-> "find", op |-> op, email |-> try[1], password |-> try[2]]
  <2>1. /\ try[1] \in Emails /\ try[2] \in Passwords /\ L \in Called
        /\ L.pc = "find" /\ L.op = op /\ L.email = try[1] /\ L.password = try[2]
    BY AccountsAssumption DEF Called
  <2>2. call' = [call EXCEPT ![c] = L] /\ call[c].pc = "free"
    BY <1>1 DEF Ask
  <2> HIDE DEF L
  <2>3. /\ asks' = [asks EXCEPT ![c] = [op |-> op, email |-> try[1], password |-> try[2]]]
        /\ effects' = [effects EXCEPT ![c] = "pending"]
    <3>1. L \in Called \cup Uncalled
      BY <2>1
    <3>2. /\ asks' = [asks EXCEPT ![c] = [op |-> L.op, email |-> L.email, password |-> L.password]]
          /\ effects' = [effects EXCEPT ![c] =
               IF L.pc = "free" THEN "none" ELSE IF L.pc = "saved" THEN "granted" ELSE "pending"]
      BY <3>1, <2>2, Mapped
    <3> QED BY <2>1, <3>2, Zenon
  <2>4. \E o \in Atomic!Operations, e \in Emails, p \in Passwords :
          asks' = [asks EXCEPT ![c] = [op |-> o, email |-> e, password |-> p]]
    BY <2>1, <2>3 DEF Atomic!Operations
  <2>5. effects[c] = "none" /\ UNCHANGED users /\ answer' = [answer EXCEPT ![c] = "none"]
    BY <1>1, <1>a DEF Ask
  <2>6. Atomic!Ask(c)
    BY <2>3, <2>4, <2>5 DEF Atomic!Ask, asks, effects
  <2> QED BY <2>6 DEF Step
<1>2. CASE Find(c)
  <2>1. CASE Row(c) # NoUser
    <3>1. Reply(c, "conflict") /\ call[c].pc = "find" /\ call[c].op = "register" /\ UNCHANGED users
      BY <1>2, <2>1 DEF Find
    <3>2. Atomic!Refuse(c)
      BY <1>a, <1>b, <1>c, <2>1, <3>1
         DEF Atomic!Refuse, Atomic!Account, Atomic!Reply, asks, effects
    <3> QED BY <3>2, <1>0 DEF Step
  <2>2. CASE Row(c) = NoUser
    <3> DEFINE L == [call[c] EXCEPT !.pc = "save"]
    <3>1. call[c] \in Called /\ call[c].pc = "find" /\ UNCHANGED <<users, answer>>
      BY <1>2, <2>2, Calling DEF Find
    <3>2. /\ L \in Called /\ L.pc = "save" /\ L.op = call[c].op
          /\ L.email = call[c].email /\ L.password = call[c].password
      BY <3>1, MovesOn
    <3>3. call' = [call EXCEPT ![c] = L]
      BY <1>2, <2>2 DEF Find, Go
    <3> HIDE DEF L
    <3>4. /\ asks' = [asks EXCEPT ![c] = [op |-> L.op, email |-> L.email, password |-> L.password]]
          /\ effects' = [effects EXCEPT ![c] = "pending"]
      BY <3>2, <3>3, Mapped
    <3>5. asks' = asks
      BY <1>a, <3>2, <3>4 DEF asks
    <3>6. effects[c] = "pending"
      BY <1>a, <3>1
    <3>7. effects' = effects
      BY <3>4, <3>6 DEF effects
    <3> QED BY <3>1, <3>5, <3>7, <1>0
  <2> QED BY <2>1, <2>2
<1>3. CASE Save(c)
  <2>1. call[c] \in Called /\ call[c].pc = "save" /\ call[c].op = "register"
    BY <1>3, Calling DEF Save, Tokens
  <2>2. CASE Row(c) # NoUser
    <3>1. Reply(c, "error") /\ UNCHANGED users
      BY <1>3, <2>2 DEF Save
    <3>2. Atomic!Fail(c)
      BY <1>a, <1>c, <2>1, <3>1 DEF Atomic!Fail, Atomic!Reply, asks, effects
    <3> QED BY <3>2, <1>0 DEF Step
  <2>3. CASE Row(c) = NoUser
    <3> DEFINE L == [call[c] EXCEPT !.pc = "saved"]
    <3>1. users' = [users EXCEPT ![call[c].email] = Hash(c)] /\ UNCHANGED answer
      BY <1>3, <2>3 DEF Save
    <3>2. /\ L \in Called /\ L.pc = "saved" /\ L.op = call[c].op
          /\ L.email = call[c].email /\ L.password = call[c].password
      BY <2>1, MovesOn
    <3>3. call' = [call EXCEPT ![c] = L]
      BY <1>3, <2>3 DEF Save, Go
    <3> HIDE DEF L
    <3>4. /\ asks' = [asks EXCEPT ![c] = [op |-> L.op, email |-> L.email, password |-> L.password]]
          /\ effects' = [effects EXCEPT ![c] = "granted"]
      BY <3>2, <3>3, Mapped
    <3>5. asks' = asks
      BY <1>a, <3>2, <3>4 DEF asks
    <3>6. Atomic!Register(c)
      BY <1>a, <1>b, <2>1, <2>3, <3>1, <3>4, <3>5
         DEF Atomic!Register, Atomic!Account, Atomic!Given, asks, effects
    <3> QED BY <3>6, <1>0 DEF Step
  <2> QED BY <2>2, <2>3
<1>4. CASE Sign(c)
  <2>1. Atomic!Give(c)
    BY <1>4, <1>a, <1>c DEF Sign, Atomic!Give, Atomic!Reply, asks, effects
  <2> QED BY <2>1, <1>0 DEF Step
<1>5. CASE Login(c)
  <2>1. CASE Row(c) = Hash(c)
    <3>1. Atomic!Give(c)
      BY <1>5, <1>a, <1>b, <1>c, <2>1
         DEF Login, Atomic!Give, Atomic!Reply, Atomic!Account, Atomic!Given, asks, effects
    <3> QED BY <3>1, <1>0 DEF Step
  <2>2. CASE Row(c) # Hash(c)
    <3>1. Atomic!Refuse(c)
      BY <1>5, <1>a, <1>b, <1>c, <2>2
         DEF Login, Atomic!Refuse, Atomic!Reply, Atomic!Account, Atomic!Given, asks, effects
    <3> QED BY <3>1, <1>0 DEF Step
  <2> QED BY <2>1, <2>2
<1>6. CASE Fail(c)
  <2>1. Atomic!Fail(c)
    BY <1>6, <1>a, <1>c DEF Fail, Atomic!Fail, Atomic!Reply, asks, effects
  <2> QED BY <2>1, <1>0 DEF Step
<1>7. CASE Expire(c)
  <2>1. Atomic!Expire(c)
    BY <1>7 DEF Expire, Atomic!Expire, asks, effects
  <2> QED BY <2>1, <1>0 DEF Step
<1> QED BY <1>0, <1>1, <1>2, <1>3, <1>4, <1>5, <1>6, <1>7 DEF AccountStep, Handle

\* Accounts implement the atomic registry, with saved searches beside them.
THEOREM AccountsAreAtomic == Spec => ImplementsRegistry
<1>1. Init => Atomic!Init
  BY DEF Init, AccountInit, NoCall, Atomic!Init
<1>2. IInv /\ [Next]_vars => [Atomic!Next]_Atomic!vars
  <2> SUFFICES ASSUME IInv, [Next]_vars PROVE [Atomic!Next]_Atomic!vars
    OBVIOUS
  <2>1. ASSUME NEW c \in Clients, Authenticate(c) PROVE [Atomic!Next]_Atomic!vars
    BY <2>1, StepImplements DEF Authenticate, IInv, TypeOK
  <2>2. CASE UNCHANGED <<users, call, answer>>
    BY <2>2 DEF Atomic!vars
  <2>3. ASSUME NEW c \in Clients, SearchStep(c) PROVE UNCHANGED <<users, call, answer>>
    BY <2>3 DEF SearchStep, AskCreate, AskRemove, Admit, Insert, LookUp, Delete, Respond,
                QueryFails, accountVars
  <2> QED BY <2>1, <2>2, <2>3 DEF Next, vars, accountVars
<1> QED BY <1>1, <1>2, Safety, PTL DEF Spec, ImplementsRegistry, Atomic!Spec
=============================================================================
