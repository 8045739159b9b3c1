---------------------------- MODULE SavedSearches ----------------------------
(***************************************************************************)
(* Saved searches (src/saved-searches/saved-searches.service.ts) behind    *)
(* the accounts whose tokens guard them.  A removal looks the row up, then *)
(* deletes it by its id: another client of the account may have removed it *)
(* in between, and the token may have expired.                             *)
(***************************************************************************)
EXTENDS Accounts

CONSTANT Ids      \* bound: the uuids Postgres gives to the rows

VARIABLES
  searches,       \* id -> the address of its owner, while its row is there
  used,           \* ids given so far
  query,          \* client -> the locals of the handler of its last request
  reply           \* client -> what that request was answered

searchVars == <<searches, used, query, reply>>
vars == <<accountVars, searchVars>>

NoQuery == [pc |-> "free", user |-> NoUser, id |-> NoUser]

Proceed(c, pc) == query' = [query EXCEPT ![c].pc = pc] /\ UNCHANGED reply

Answer(c, status) ==
  /\ query' = [query EXCEPT ![c].pc = "free"]
  /\ reply' = [reply EXCEPT ![c] = status]

\* The guard lets a request in whose token is valid; its user is the token's.
Admit(c, pc, id) ==
  /\ Session(c) # NoUser /\ query[c].pc = "free" /\ call[c].pc = "free"
  /\ query' = [query EXCEPT ![c] = [pc |-> pc, user |-> Session(c), id |-> id]]
  /\ reply' = [reply EXCEPT ![c] = "none"]
  /\ UNCHANGED <<accountVars, searches, used>>

-----------------------------------------------------------------------------
\* POST /searches, and its INSERT.
AskCreate(c) ==
  /\ Cardinality({d \in Clients : query[d].pc = "insert"}) < Cardinality(Ids \ used)
  /\ Admit(c, "insert", NoUser)

Insert(c) ==
  /\ query[c].pc = "insert"
  /\ \E id \in Ids \ used :
       /\ searches' = [i \in DOMAIN searches \cup {id} |->
                         IF i = id THEN query[c].user ELSE searches[i]]
       /\ used' = used \cup {id}
       /\ query' = [query EXCEPT ![c].pc = "inserted", ![c].id = id]
  /\ UNCHANGED <<accountVars, reply>>

\* DELETE /searches/:id, with the id of any search the client has heard of.
AskRemove(c) == \E id \in used : Admit(c, "find", id)

\* Mutation of LookUp: the owner is not looked at.
LookUpAny(c) ==
  /\ query[c].pc = "find"
  /\ IF query[c].id \notin DOMAIN searches THEN Answer(c, "missing")
     ELSE Proceed(c, "delete")
  /\ UNCHANGED <<accountVars, searches, used>>

\* Mutation of LookUp: the removal is not awaited, and 200 goes out before it.
LookUpDetached(c) ==
  LET id == query[c].id
  IN  /\ query[c].pc = "find"
      /\ IF id \notin DOMAIN searches THEN Answer(c, "missing")
         ELSE IF searches[id] # query[c].user THEN Answer(c, "forbidden")
         ELSE /\ query' = [query EXCEPT ![c].pc = "delete"]
              /\ reply' = [reply EXCEPT ![c] = "removed"]
      /\ UNCHANGED <<accountVars, searches, used>>

\* findOneBy: 404, 403, or on to the DELETE.
LookUp(c) ==
  LET id == query[c].id
  IN  /\ query[c].pc = "find"
      /\ IF id \notin DOMAIN searches THEN Answer(c, "missing")
         ELSE IF searches[id] # query[c].user THEN Answer(c, "forbidden")
         ELSE Proceed(c, "delete")
      /\ UNCHANGED <<accountVars, searches, used>>

\* repo.remove: a row that is gone by now is no error.
Delete(c) ==
  /\ query[c].pc = "delete"
  /\ searches' = [i \in DOMAIN searches \ {query[c].id} |-> searches[i]]
  /\ Proceed(c, "deleted")
  /\ UNCHANGED <<accountVars, used>>

Respond(c) ==
  /\ \/ query[c].pc = "inserted" /\ Answer(c, "created")
     \/ query[c].pc = "deleted" /\ Answer(c, "removed")
  /\ UNCHANGED <<accountVars, searches, used>>

\* A query throws, the answer of its commit is lost, or the instance dies.
QueryFails(c) ==
  /\ query[c].pc # "free" /\ faults > 0
  /\ faults' = faults - 1
  /\ Answer(c, "error")
  /\ UNCHANGED <<users, call, answer, searches, used>>

-----------------------------------------------------------------------------
Init ==
  /\ AccountInit
  /\ searches = [i \in {} |-> NoUser] /\ used = {}
  /\ query = [c \in Clients |-> NoQuery] /\ reply = [c \in Clients |-> "none"]

\* A client waits for one answer before its next request.
Waits(c) == query[c].pc # "free"

Authenticate(c) ==
  /\ AccountStep(c) /\ (Waits(c) => call'[c].pc = "free")
  /\ UNCHANGED searchVars

SearchStep(c) ==
  \/ AskCreate(c) \/ Insert(c) \/ AskRemove(c) \/ LookUp(c) \/ Delete(c) \/ Respond(c)
  \/ QueryFails(c)

Next == \E c \in Clients : Authenticate(c) \/ SearchStep(c)

Spec == Init /\ [][Next]_vars

\* Awaited calls return or throw; a client tries what it knows again and again.
Fairness == \A c \in Clients :
  /\ WF_vars(Handle(c) /\ UNCHANGED searchVars)
  /\ WF_vars(LookUp(c) \/ Delete(c) \/ Insert(c) \/ Respond(c))
  /\ \A try \in Tries[c] : SF_vars(~Waits(c) /\ Ask(c, "login", try) /\ UNCHANGED searchVars)

FairSpec == Spec /\ Fairness

-----------------------------------------------------------------------------
\* The type of the state; a request in progress is one of an account.
TypeOK ==
  /\ AccountTypeOK
  /\ used \subseteq Ids /\ DOMAIN searches \subseteq used
  /\ searches \in [DOMAIN searches -> Emails]
  /\ query \in [Clients -> [pc : {"free", "insert", "inserted", "find", "delete", "deleted"},
                            user : Emails \cup {NoUser}, id : used \cup {NoUser}]]
  /\ \A c \in Clients : query[c].pc # "free" => query[c].user = call[c].email /\ call[c].pc = "free"
  /\ reply \in [Clients -> {"none", "created", "removed", "missing", "forbidden", "error"}]

\* A search comes and goes only by a client that gave the password its owner
\* registered with, however registrations, logins and removals overlap.
OwnersOnly ==
  [][\A e \in Emails :
       {i \in DOMAIN searches : searches[i] = e} # {i \in DOMAIN searches' : searches'[i] = e} =>
         \E c \in Clients : query'[c] # query[c] /\ call[c].email = e /\ users[e] = Hash(c)]_vars

\* A client told that a search is removed, or is not there, never sees it again,
\* whoever else was removing it.
RemovalIsFinal ==
  \A c \in Clients : reply[c] \in {"removed", "missing"} => query[c].id \notin DOMAIN searches

\* A registration whose answer was lost, or a race for an address, locks nobody
\* out: who keeps giving the password of the row gets a token.
HolderGetsIn ==
  \A c \in Clients : \A try \in Tries[c] :
    users[try[1]] = Digest[try[2]] ~> Session(c) = try[1] /\ call[c].password = try[2]
=============================================================================
