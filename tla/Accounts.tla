-------------------------------- MODULE Accounts --------------------------------
(***************************************************************************)
(* Accounts, and the sessions that say which account a browser is logged   *)
(* in to.                                                                  *)
(*                                                                         *)
(* src/src/api/handlers.rs (current_username, register, login, logout,     *)
(* delete_account, change_password, the account side of                    *)
(* contest_problem_submit), src/src/db/user.rs, src/src/session_store.rs,  *)
(* src/migrations.                                                         *)
(*                                                                         *)
(* Two tables: users (name unique; the submissions of a deleted account    *)
(* are kept without owner) and tower_sessions.  A browser holds a cookie   *)
(* with the id of a session.  The session layer loads the record of a      *)
(* session when a handler first asks for it, which for a login or a        *)
(* registration is after its work on users, and stores the record with the *)
(* response, if the handler changed it.  Requests of one browser (tabs)    *)
(* and of several run side by side, one statement at a time.               *)
(*                                                                         *)
(* An account and a session are named by the request that creates them.    *)
(***************************************************************************)
EXTENDS Naturals, FiniteSets

CONSTANTS
  Requests,
  Browsers,
  Names,
  Passwords,
  Elder,      \* an account and its session, older than any request
  None,
  MaxOpen,    \* requests in flight at a time
  MaxExpired  \* sessions that expire (bound)

Ids   == Requests \cup {Elder}
Kinds == {"register", "login", "logout", "delete", "password", "submit", "page"}
Keep  == "keep"

ASSUME ConstantsAssumption ==
  /\ Elder \notin Requests
  /\ None \notin Ids \cup Names \cup Passwords \cup Kinds
  /\ Keep \notin Ids \cup {None}
  /\ MaxOpen \in Nat
  /\ MaxExpired \in Nat

VARIABLES
  users,     \* the accounts
  rows,      \* name and password of an account
  store,     \* the record of a session: its account, and whether it is valid
  cookie,    \* the session a browser sends
  req,       \* the requests
  owner,     \* whose the submission of a request is
  expired,   \* how many sessions expired
  proven,    \* history: who registered or gave the password, in which browser
  told,      \* history: the account a browser was last told it is logged in to
  unsure,    \* history: browsers whose answers overlapped or were lost
  flushed,   \* history: the sessions that were logged out of ...
  held       \* history: ... and the requests that had loaded them by then

vars == <<users, rows, store, cookie, req, owner, expired, proven, told, unsure,
          flushed, held>>

accounts == <<users, rows, owner>>
history  == <<proven, told, unsure, flushed, held>>

Idle == [pc |-> "idle", kind |-> None, browser |-> None, name |-> None,
         password |-> None, session |-> None, user |-> None, set |-> Keep,
         alone |-> TRUE]

InFlight       == {r \in Requests : req[r].pc \notin {"idle", "over"}}
SameBrowser(b) == {r \in InFlight : req[r].browser = b}

\* The requests that have loaded a session and are about to save it.
Holders(s) == {r \in Requests : req[r].pc \in {"insert", "save"} /\ req[r].session = s}

-----------------------------------------------------------------------------
\* Mutant of FindById: a session that keeps the name of the account.
FindByHolderOfName(u) == {v \in users : u \in Ids /\ rows[v].name = rows[u].name}

\* db_user::find_by_id.
FindById(u) == {v \in users : v = u}

\* db_user::find_by_username.
FindByUsername(n) == {v \in users : rows[v].name = n}

\* current_username: the account a browser's next request acts for.
CurrentUser(b) ==
  IF cookie[b] # None /\ store[cookie[b]].valid
  THEN FindById(store[cookie[b]].user) ELSE {}

NoRecord  == [user |-> None, valid |-> FALSE]
Record(u) == [user |-> u, valid |-> TRUE]

Init ==
  /\ users = {Elder}
  /\ rows \in [Ids -> {[name |-> n, password |-> p] : n \in Names, p \in Passwords}]
  /\ \A u, v \in Ids : rows[u] = rows[v]
  /\ store = [s \in Ids |-> IF s = Elder THEN Record(Elder) ELSE NoRecord]
  /\ \E b \in Browsers :
       /\ cookie = [c \in Browsers |-> IF c = b THEN Elder ELSE None]
       /\ told = cookie
       /\ proven = {<<b, Elder>>}
  /\ req = [r \in Requests |-> Idle]
  /\ owner = [r \in Requests |-> None]
  /\ expired = 0
  /\ unsure = {}
  /\ flushed = {}
  /\ held = [s \in Ids |-> {}]

-----------------------------------------------------------------------------
To(r, pc) == req' = [req EXCEPT ![r].pc = pc]

\* Of a request that is over only the browser is of interest.
Over(r) == req' = [req EXCEPT ![r] = [Idle EXCEPT !.pc = "over", !.browser = req[r].browser]]

\* The response: what becomes of the cookie.
Answer(r, set) ==
  IF set = Keep THEN Over(r)
  ELSE req' = [req EXCEPT ![r].pc = "answer", ![r].set = set]

FirstStep(k) == CASE k = "register" -> "check"
                  [] k = "login"    -> "find"
                  [] k = "logout"   -> "flush"
                  [] OTHER          -> "load"

\* A browser sends a request with its cookie.
Begin(r, k, b, n, p) ==
  /\ req[r].pc = "idle"
  /\ Cardinality(InFlight) < MaxOpen
  /\ (k \in {"register", "login"}) = (n # None)
  /\ (k \in {"register", "login", "delete", "password"}) = (p # None)
  /\ req' = [q \in Requests |->
       IF q = r THEN [Idle EXCEPT !.pc = FirstStep(k), !.kind = k, !.browser = b,
                                  !.name = n, !.password = p,
                                  !.session = cookie[b],
                                  !.alone = SameBrowser(b) = {}]
       ELSE [req[q] EXCEPT !.alone = @ /\ q \notin SameBrowser(b)]]
  /\ UNCHANGED <<accounts, store, cookie, expired, history>>

\* register: the name must be free ...
Check(r) ==
  /\ req[r].pc = "check"
  /\ IF FindByUsername(req[r].name) # {} THEN Answer(r, Keep) ELSE To(r, "register")
  /\ UNCHANGED <<accounts, store, cookie, expired, history>>

Insert(r) ==
  /\ users' = users \cup {r}
  /\ rows' = [rows EXCEPT ![r] = [name |-> req[r].name, password |-> req[r].password]]
  /\ proven' = proven \cup {<<req[r].browser, r>>}
  /\ req' = [req EXCEPT ![r].pc = "load", ![r].user = r]

\* Mutant of Register: no UNIQUE on the name, only the check.
RegisterAgain(r) ==
  /\ req[r].pc = "register"
  /\ Insert(r)
  /\ UNCHANGED <<store, cookie, owner, expired, told, unsure, flushed, held>>

\* ... and the INSERT fails if it no longer is.
Register(r) ==
  /\ req[r].pc = "register"
  /\ \/ FindByUsername(req[r].name) = {} /\ Insert(r)
     \/ FindByUsername(req[r].name) # {} /\ Answer(r, Keep) /\ UNCHANGED <<users, rows, proven>>
  /\ UNCHANGED <<store, cookie, owner, expired, told, unsure, flushed, held>>

Verified(r, v) == rows[v].password = req[r].password

\* login: find_by_username and the password.
FindLogin(r) ==
  /\ req[r].pc = "find" /\ req[r].kind = "login"
  /\ \/ \E v \in FindByUsername(req[r].name) :
          /\ Verified(r, v)
          /\ proven' = proven \cup {<<req[r].browser, v>>}
          /\ req' = [req EXCEPT ![r].pc = "load", ![r].user = v]
     \/ /\ \A v \in FindByUsername(req[r].name) : ~Verified(r, v)
        /\ Answer(r, Keep)
        /\ UNCHANGED proven
  /\ UNCHANGED <<accounts, store, cookie, expired, told, unsure, flushed, held>>

-----------------------------------------------------------------------------
AfterLoad(k) == CASE k \in {"register", "login"}  -> "save"
                  [] k \in {"delete", "password"} -> "find"
                  [] OTHER                        -> "insert"

\* Mutant of WithoutRecord: no redirect to /login.
WithoutRedirect(r) ==
  IF req[r].kind = "page" THEN Over(r)
  ELSE req' = [req EXCEPT ![r].pc = AfterLoad(req[r].kind), ![r].session = None]

\* No valid record: the session gets a new id if it is saved, and otherwise the
\* cookie is taken back.
WithoutRecord(r) ==
  IF req[r].kind \in {"register", "login"}
  THEN req' = [req EXCEPT ![r].pc = "save", ![r].session = None]
  ELSE Answer(r, IF req[r].session = None THEN Keep ELSE None)

\* PgSessionStore::load: an expired record is read, then deleted.
Load(r) ==
  LET s == req[r].session IN
  /\ req[r].pc = "load"
  /\ IF s = None THEN WithoutRecord(r)
     ELSE IF store[s] = NoRecord THEN WithoutRecord(r)
     ELSE IF ~store[s].valid THEN To(r, "sweep")
     ELSE IF req[r].kind = "page" THEN Over(r)
     ELSE req' = [req EXCEPT ![r].pc = AfterLoad(req[r].kind),
                             ![r].user = IF req[r].kind \in {"register", "login"}
                                         THEN @ ELSE store[s].user]
  /\ UNCHANGED <<accounts, store, cookie, expired, history>>

Sweep(r) ==
  /\ req[r].pc = "sweep"
  /\ store' = [store EXCEPT ![req[r].session] = NoRecord]
  /\ WithoutRecord(r)
  /\ UNCHANGED <<accounts, cookie, expired, history>>

Saved(r) == IF req[r].session = None THEN r ELSE req[r].session

SaveTo(r, record) ==
  /\ req[r].pc = "save"
  /\ store' = [store EXCEPT ![Saved(r)] = record]
  /\ req' = [req EXCEPT ![r].pc = "answer", ![r].session = Saved(r), ![r].set = Saved(r)]
  /\ flushed' = IF r \in held[Saved(r)] THEN flushed \ {Saved(r)} ELSE flushed
  /\ UNCHANGED <<accounts, cookie, expired, proven, told, unsure, held>>

\* Mutant of Save: ON CONFLICT DO NOTHING.
SaveIfNew(r) ==
  LET old == store[Saved(r)] IN
  SaveTo(r, IF old = NoRecord THEN Record(req[r].user) ELSE old)

\* PgSessionStore::save: the record of the request replaces the row.
Save(r) == SaveTo(r, Record(req[r].user))

\* logout, and the end of delete_account: what the handler leaves of the session.
LoggedOut(r) ==
  LET s == req[r].session IN
  /\ Answer(r, IF s = None THEN Keep ELSE None)
  /\ IF s = None THEN UNCHANGED <<flushed, held>>
     ELSE /\ flushed' = flushed \cup {s}
          /\ held' = [held EXCEPT ![s] = Holders(s)]

\* Mutant of Flush: only the cookie is taken back.
FlushCookie(r) ==
  /\ req[r].pc = "flush"
  /\ LoggedOut(r)
  /\ UNCHANGED <<accounts, store, cookie, expired, proven, told, unsure>>

\* session.flush
Flush(r) ==
  /\ req[r].pc = "flush"
  /\ store' = [s \in Ids |-> IF s = req[r].session THEN NoRecord ELSE store[s]]
  /\ LoggedOut(r)
  /\ UNCHANGED <<accounts, cookie, expired, proven, told, unsure>>

-----------------------------------------------------------------------------
\* delete_account, change_password: find_by_id and the password.
FindOwn(r) ==
  /\ req[r].pc = "find" /\ req[r].kind \in {"delete", "password"}
  /\ \/ \E v \in FindById(req[r].user) :
          Verified(r, v) /\ To(r, IF req[r].kind = "delete" THEN "drop" ELSE "change")
     \/ /\ \A v \in FindById(req[r].user) : ~Verified(r, v)
        /\ Answer(r, Keep)
  /\ UNCHANGED <<accounts, store, cookie, expired, history>>

\* The row of the account, and its name in the submissions.
Drop(r) ==
  /\ req[r].pc = "drop"
  /\ users' = users \ {req[r].user}
  /\ owner' = [q \in Requests |-> IF owner[q] = req[r].user THEN None ELSE owner[q]]
  /\ To(r, "flush")
  /\ UNCHANGED <<rows, store, cookie, expired, history>>

\* UPDATE ... WHERE id: nothing if the account is gone.
Change(r) ==
  /\ req[r].pc = "change"
  /\ \E p \in Passwords :
       rows' = [u \in Ids |-> IF u \in FindById(req[r].user)
                              THEN [rows[u] EXCEPT !.password = p] ELSE rows[u]]
  /\ Answer(r, Keep)
  /\ UNCHANGED <<users, owner, store, cookie, expired, history>>

\* create_submission: user_id references users.  The time is noted in the record.
InsertSubmission(r) ==
  /\ req[r].pc = "insert"
  /\ \/ /\ req[r].user \in users
        /\ owner' = [owner EXCEPT ![r] = req[r].user]
        /\ To(r, "save")
     \/ /\ req[r].user \notin users
        /\ Answer(r, Keep)
        /\ UNCHANGED owner
  /\ UNCHANGED <<users, rows, store, cookie, expired, history>>

-----------------------------------------------------------------------------
\* The browser takes the answer.  It knows where it stands if no other request
\* of its own overlapped this one.
Deliver(r) ==
  LET b == req[r].browser IN
  /\ req[r].pc = "answer"
  /\ cookie' = [cookie EXCEPT ![b] = req[r].set]
  /\ told' = [told EXCEPT ![b] = IF req[r].set = None THEN None ELSE req[r].user]
  /\ unsure' = IF req[r].alone THEN unsure \ {b} ELSE unsure \cup {b}
  /\ Over(r)
  /\ UNCHANGED <<accounts, store, expired, proven, flushed, held>>

\* A statement fails, the client is gone and the handler is dropped, or the
\* answer is lost.
CutOff(r) ==
  /\ r \in InFlight
  /\ Over(r)
  /\ unsure' = unsure \cup {req[r].browser}
  /\ UNCHANGED <<accounts, store, cookie, expired, proven, told, flushed, held>>

\* A session expires, two weeks after the last save.
Expire(s) ==
  /\ store[s].valid
  /\ expired < MaxExpired
  /\ \A r \in InFlight : req[r].set # s
  /\ store' = [store EXCEPT ![s].valid = FALSE]
  /\ expired' = expired + 1
  /\ UNCHANGED <<accounts, cookie, req, history>>

Next ==
  \/ \E r \in Requests :
       \/ \E k \in Kinds, b \in Browsers, n \in Names \cup {None},
             p \in Passwords \cup {None} : Begin(r, k, b, n, p)
       \/ Check(r) \/ Register(r) \/ FindLogin(r)
       \/ Load(r) \/ Sweep(r) \/ Save(r) \/ Flush(r)
       \/ FindOwn(r) \/ Drop(r) \/ Change(r) \/ InsertSubmission(r)
       \/ Deliver(r) \/ CutOff(r)
  \/ \E s \in Ids : Expire(s)

Spec == Init /\ [][Next]_vars

-----------------------------------------------------------------------------
Steps == {"check", "register", "find", "load", "sweep", "save", "insert", "drop",
          "change", "flush", "answer"}

RequestType ==
  [pc : Steps \cup {"idle", "over"}, kind : Kinds \cup {None},
   browser : Browsers \cup {None}, name : Names \cup {None},
   password : Passwords \cup {None}, session : Ids \cup {None},
   user : Ids \cup {None}, set : Ids \cup {None, Keep}, alone : BOOLEAN]

TypeOK ==
  /\ users \subseteq Ids
  /\ rows \in [Ids -> [name : Names, password : Passwords]]
  /\ store \in [Ids -> [user : Ids, valid : BOOLEAN]
                      \cup {NoRecord}]
  /\ cookie \in [Browsers -> Ids \cup {None}]
  /\ req \in [Requests -> RequestType]
  /\ owner \in [Requests -> Ids \cup {None}]
  /\ expired \in 0..MaxExpired
  /\ proven \subseteq Browsers \X Ids
  /\ told \in [Browsers -> Ids \cup {None}]
  /\ unsure \subseteq Browsers
  /\ flushed \subseteq Ids
  /\ held \in [Ids -> SUBSET Requests]

-----------------------------------------------------------------------------
(* The inductive invariant.                                                *)

Acting == {"insert", "drop", "change", "save"}

\* The request knows whom it acts for.
KnowsUser(r) ==
  \/ req[r].pc \in Acting
  \/ req[r].pc \in {"load", "sweep"} /\ req[r].kind \in {"register", "login"}
  \/ req[r].pc = "find" /\ req[r].kind \in {"delete", "password"}

\* What a request has at each step.
Stage(r) ==
  /\ req[r].pc = "idle" => req[r] = Idle /\ owner[r] = None
  /\ req[r].pc \in Steps => req[r].browser \in Browsers /\ req[r].kind \in Kinds
  /\ req[r].pc = "over" => req[r] = [Idle EXCEPT !.pc = "over", !.browser = req[r].browser]
  /\ req[r].pc \in Steps \ {"answer"} => req[r].set = Keep
  /\ req[r].pc = "answer" => req[r].set # Keep
  /\ req[r].pc = "answer" /\ req[r].set # None => req[r].user \in Ids
  /\ KnowsUser(r) => req[r].user \in Ids
  /\ req[r].pc = "sweep" => req[r].session # None
  /\ req[r].pc \in {"register", "check"} => req[r].kind = "register"
  /\ req[r].pc \in {"register", "check", "find"} /\ req[r].kind \in {"register", "login"} =>
       req[r].name \in Names
  /\ req[r].kind \in {"register", "login", "delete", "password"} => req[r].password \in Passwords

StageInv == \A r \in Requests : Stage(r)

\* A browser has a session: it sends it, or one of its requests did or is about
\* to be answered with it.
Has(b, s) ==
  \/ cookie[b] = s
  \/ \E r \in Requests : req[r].browser = b /\ s \in {req[r].session, req[r].set}

\* A session is one browser's, and a new id is nobody's until it is saved.
SessionInv ==
  \A b \in Browsers, s \in Ids : Has(b, s) =>
    /\ \A c \in Browsers : Has(c, s) => b = c
    /\ s \in Requests => req[s].pc \in {"answer", "over"} /\ req[s].browser = b

\* Every account a session or a request names was proven by its browser.
ProvenInv ==
  /\ \A b \in Browsers, s \in Ids :
       Has(b, s) /\ store[s] # NoRecord => <<b, store[s].user>> \in proven
  /\ \A r \in Requests : KnowsUser(r) => <<req[r].browser, req[r].user>> \in proven

\* Nobody is taken for a user whose password they did not give: the account a
\* browser's next request acts for, the one a request in flight is about to
\* change or delete, and the owner of a submission were registered or logged in
\* to by that browser.  An account that is deleted and whose name is registered
\* anew does not inherit the sessions of the old one, and a deleted account owns
\* nothing.
ActsOnlyAsProven ==
  /\ \A b \in Browsers, u \in Ids : u \in CurrentUser(b) => <<b, u>> \in proven
  /\ \A r \in Requests :
       /\ req[r].pc \in Acting => <<req[r].browser, req[r].user>> \in proven
       /\ owner[r] # None => owner[r] \in users /\ <<req[r].browser, owner[r]>> \in proven

\* However registrations of a name overlap between the check and the INSERT,
\* one account at most has it: find_by_username finds the account meant.
OneAccountPerName ==
  \A u, v \in users : rows[u].name = rows[v].name => u = v

\* The account in the session a browser sends.
LoggedInTo(b) == IF cookie[b] = None THEN None ELSE store[cookie[b]].user

\* What a browser was told is what the server believes: after the answer to a
\* request that changes the session and that no other of its requests
\* overlapped, the session it sends is that of the account it was told (none
\* after a logout, a deletion, or a session that was found expired), until an
\* answer is lost or two of its requests overlap.
ToldIsTrue ==
  \A b \in Browsers : SameBrowser(b) = {} /\ b \notin unsure => told[b] = LoggedInTo(b)

\* A session that was logged out of is valid again only through a request that
\* had loaded it before the logout and stored its copy after it.
LogoutLasts == \A s \in flushed : store[s] = NoRecord

\* What a browser was told can differ from what the server believes only while
\* an answer is due; an answer to a request that was alone tells the truth.
ToldInv ==
  /\ \A r \in InFlight : req[r].alone => SameBrowser(req[r].browser) = {r}
  /\ \A b \in Browsers \ unsure :
       \/ told[b] = LoggedInTo(b)
       \/ \E r \in SameBrowser(b) : req[r].pc \in {"save", "answer"}
  /\ \A r \in Requests :
       req[r].pc = "answer" /\ req[r].alone /\ req[r].set # None =>
         store[req[r].set].user = req[r].user

\* Whoever may bring back a session that was logged out of is known.
LogoutInv ==
  \A s \in flushed :
    /\ Holders(s) \subseteq held[s]
    /\ s \in Requests => req[s].pc \in {"answer", "over"}

IInv ==
  /\ TypeOK /\ StageInv /\ SessionInv /\ ProvenInv /\ ToldInv /\ LogoutInv
  /\ ActsOnlyAsProven /\ OneAccountPerName /\ LogoutLasts
=============================================================================
