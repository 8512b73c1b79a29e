---------------------------- MODULE AccountsProofs ----------------------------
(***************************************************************************)
(* Proofs about Accounts: whose account a browser acts for, how many       *)
(* accounts a name has, what a browser knows, and that a logout lasts.     *)
(***************************************************************************)
EXTENDS Accounts, TLAPS

\* An idle request and one that is over are requests.
LEMMA IdleType ==
  /\ Idle \in RequestType
  /\ \A b \in Browsers \cup {None} :
       [Idle EXCEPT !.pc = "over", !.browser = b] \in RequestType
BY DEF Idle, RequestType, Steps, Kinds

\* The invariant holds before the first request.
LEMMA InitIInv == Init => IInv
<1> SUFFICES ASSUME Init PROVE IInv
  OBVIOUS
<1> USE ConstantsAssumption DEF Init
<1>1. TypeOK
  <2>1. PICK b \in Browsers :
          /\ cookie = [c \in Browsers |-> IF c = b THEN Elder ELSE None]
          /\ told = cookie
          /\ proven = {<<b, Elder>>}
    OBVIOUS
  <2>2. cookie \in [Browsers -> Ids \cup {None}]
    BY <2>1 DEF Ids
  <2>3. proven \subseteq Browsers \X Ids
    BY <2>1 DEF Ids
  <2>4. store \in [Ids -> [user : Ids, valid : BOOLEAN] \cup {NoRecord}]
    BY DEF Ids, NoRecord, Record
  <2>5. req \in [Requests -> RequestType]
    BY IdleType
  <2>6. expired \in 0..MaxExpired
    OBVIOUS
  <2>7. users \subseteq Ids
    BY DEF Ids
  <2> QED BY <2>1, <2>2, <2>3, <2>4, <2>5, <2>6, <2>7 DEF TypeOK
<1>2. StageInv
  BY DEF StageInv, Stage, Idle, KnowsUser, Acting, Steps, Kinds
<1>3. SessionInv
  BY DEF SessionInv, Has, Idle, Ids
<1>4. ProvenInv
  BY DEF ProvenInv, Has, Idle, Ids, KnowsUser, Acting, NoRecord, Record
<1>5. ToldInv
  BY DEF ToldInv, InFlight, SameBrowser, Idle, LoggedInTo, Record, Ids
<1>6. LogoutInv /\ LogoutLasts /\ OneAccountPerName
  BY DEF LogoutInv, LogoutLasts, OneAccountPerName
<1>7. ActsOnlyAsProven
  BY DEF ActsOnlyAsProven, CurrentUser, FindById, Idle, Acting, Record
<1> QED BY <1>1, <1>2, <1>3, <1>4, <1>5, <1>6, <1>7 DEF IInv

-----------------------------------------------------------------------------
(* Types.                                                                  *)

\* A request keeps its type when some of its fields are set.
LEMMA ToType ==
  ASSUME req \in [Requests -> RequestType], NEW r \in Requests, NEW pc \in Steps,
         To(r, pc)
  PROVE  req' \in [Requests -> RequestType]
BY DEF To, RequestType

\* The same when a request learns its user,
LEMMA UserType ==
  ASSUME req \in [Requests -> RequestType], NEW r \in Requests, NEW pc \in Steps,
         NEW user \in Ids \cup {None},
         req' = [req EXCEPT ![r].pc = pc, ![r].user = user]
  PROVE  req' \in [Requests -> RequestType]
<1>1. [req[r] EXCEPT !.pc = pc, !.user = user] \in RequestType
  BY DEF RequestType
<1>2. req' = [req EXCEPT ![r] = [req[r] EXCEPT !.pc = pc, !.user = user]]
  OBVIOUS
<1> QED BY <1>1, <1>2

\* when it has saved or deleted a record,
LEMMA SavedType ==
  ASSUME req \in [Requests -> RequestType], NEW r \in Requests,
         NEW session \in Ids \cup {None}, NEW set \in Ids \cup {None, Keep},
         req' = [req EXCEPT ![r].pc = "answer", ![r].session = session, ![r].set = set]
  PROVE  req' \in [Requests -> RequestType]
<1>1. [req[r] EXCEPT !.pc = "answer", !.session = session, !.set = set] \in RequestType
  BY DEF RequestType, Steps
<1>2. req' = [req EXCEPT ![r] = [req[r] EXCEPT !.pc = "answer", !.session = session,
                                               !.set = set]]
  OBVIOUS
<1> QED BY <1>1, <1>2

\* when it is over,
LEMMA OverType ==
  ASSUME req \in [Requests -> RequestType], NEW r \in Requests, Over(r)
  PROVE  req' \in [Requests -> RequestType]
<1>1. req[r].browser \in Browsers \cup {None}
  BY DEF RequestType
<1> QED BY <1>1, IdleType DEF Over

\* when it answers,
LEMMA AnswerType ==
  ASSUME req \in [Requests -> RequestType], NEW r \in Requests,
         NEW set \in Ids \cup {None, Keep}, Answer(r, set)
  PROVE  req' \in [Requests -> RequestType]
BY OverType DEF Answer, RequestType, Steps

\* and when it finds no record of its session.
LEMMA WithoutRecordType ==
  ASSUME req \in [Requests -> RequestType], NEW r \in Requests, WithoutRecord(r)
  PROVE  req' \in [Requests -> RequestType]
<1>1. CASE req' = [req EXCEPT ![r].pc = "save", ![r].session = None]
  <2>1. [req[r] EXCEPT !.pc = "save", !.session = None] \in RequestType
    BY DEF RequestType, Steps
  <2>2. req' = [req EXCEPT ![r] = [req[r] EXCEPT !.pc = "save", !.session = None]]
    BY <1>1
  <2> QED BY <2>1, <2>2
<1>2. CASE Answer(r, Keep) \/ Answer(r, None)
  BY <1>2, AnswerType
<1> QED BY <1>1, <1>2 DEF WithoutRecord

\* Every step keeps the type of the requests.
LEMMA NextRequestType ==
  ASSUME TypeOK, StageInv, Next
  PROVE  req' \in [Requests -> RequestType]
<1> DEFINE Goal == req' \in [Requests -> RequestType]
<1>0. req \in [Requests -> RequestType]
  BY DEF TypeOK
<1> USE <1>0, ConstantsAssumption
<1>1. ASSUME NEW r \in Requests, NEW k \in Kinds, NEW b \in Browsers,
             NEW n \in Names \cup {None}, NEW p \in Passwords \cup {None},
             Begin(r, k, b, n, p)
      PROVE  Goal
  <2>1. cookie[b] \in Ids \cup {None}
    BY DEF TypeOK
  <2>2. FirstStep(k) \in Steps
    BY DEF FirstStep, Steps
  <2>3. [Idle EXCEPT !.pc = FirstStep(k), !.kind = k, !.browser = b, !.name = n,
                     !.password = p, !.session = cookie[b],
                     !.alone = SameBrowser(b) = {}] \in RequestType
    BY <2>1, <2>2 DEF Idle, RequestType
  <2>4. ASSUME NEW q \in Requests
        PROVE  [req[q] EXCEPT !.alone = @ /\ q \notin SameBrowser(b)] \in RequestType
    BY DEF RequestType
  <2> QED BY <1>1, <2>3, <2>4 DEF Begin
<1>2. ASSUME NEW r \in Requests, Check(r) PROVE Goal
  <2>1. Answer(r, Keep) \/ To(r, "register")
    BY <1>2 DEF Check
  <2> QED BY <2>1, AnswerType, ToType DEF Steps
<1>3. ASSUME NEW r \in Requests, Register(r) PROVE Goal
  <2>1. CASE Answer(r, Keep)
    BY <2>1, AnswerType
  <2>2. CASE Insert(r)
    BY <2>2, UserType DEF Insert, Ids, Steps
  <2> QED BY <1>3, <2>1, <2>2 DEF Register
<1>4. ASSUME NEW r \in Requests, FindLogin(r) PROVE Goal
  <2>1. CASE Answer(r, Keep)
    BY <2>1, AnswerType
  <2>2. CASE \E v \in users : req' = [req EXCEPT ![r].pc = "load", ![r].user = v]
    BY <2>2, UserType DEF TypeOK, Steps
  <2> QED BY <1>4, <2>1, <2>2 DEF FindLogin, FindByUsername
<1>5. ASSUME NEW r \in Requests, Load(r) PROVE Goal
  <2>1. \A k : AfterLoad(k) \in Steps
    BY DEF AfterLoad, Steps
  <2>2. CASE Over(r) \/ WithoutRecord(r) \/ To(r, "sweep")
    BY <2>2, OverType, WithoutRecordType, ToType DEF Steps
  <2>3. CASE ~(Over(r) \/ WithoutRecord(r) \/ To(r, "sweep"))
    <3> DEFINE s == req[r].session
               u == IF req[r].kind \in {"register", "login"} THEN req[r].user
                    ELSE store[s].user
    <3>1. /\ s # None /\ store[s] # NoRecord
          /\ req' = [req EXCEPT ![r].pc = AfterLoad(req[r].kind), ![r].user = u]
      BY <1>5, <2>3 DEF Load
    <3>2. s \in Ids \cup {None} /\ req[r].user \in Ids \cup {None}
      BY DEF RequestType
    <3>3. store[s].user \in Ids
      BY <3>1, <3>2 DEF TypeOK
    <3>4. u \in Ids \cup {None}
      BY <3>2, <3>3
    <3> HIDE DEF u
    <3> QED BY <2>1, <3>1, <3>4, UserType
  <2> QED BY <2>2, <2>3
<1>6. ASSUME NEW r \in Requests, Sweep(r) PROVE Goal
  BY <1>6, WithoutRecordType DEF Sweep
<1>7. ASSUME NEW r \in Requests, Save(r) PROVE Goal
  <2>1. Saved(r) \in Ids
    BY DEF Saved, Ids, RequestType
  <2> QED BY <1>7, <2>1, SavedType DEF Save, SaveTo
<1>8. ASSUME NEW r \in Requests, Flush(r) PROVE Goal
  BY <1>8, AnswerType DEF Flush, LoggedOut
<1>9. ASSUME NEW r \in Requests, FindOwn(r) PROVE Goal
  <2>1. Answer(r, Keep) \/ To(r, "drop") \/ To(r, "change")
    BY <1>9 DEF FindOwn
  <2> QED BY <2>1, AnswerType, ToType DEF Steps
<1>10. ASSUME NEW r \in Requests, Drop(r) PROVE Goal
  BY <1>10, ToType DEF Drop, Steps
<1>11. ASSUME NEW r \in Requests, Change(r) PROVE Goal
  BY <1>11, AnswerType DEF Change
<1>12. ASSUME NEW r \in Requests, InsertSubmission(r) PROVE Goal
  <2>1. Answer(r, Keep) \/ To(r, "save")
    BY <1>12 DEF InsertSubmission
  <2> QED BY <2>1, AnswerType, ToType DEF Steps
<1>13. ASSUME NEW r \in Requests, Deliver(r) PROVE Goal
  BY <1>13, OverType DEF Deliver
<1>14. ASSUME NEW r \in Requests, CutOff(r) PROVE Goal
  BY <1>14, OverType DEF CutOff
<1>15. ASSUME NEW s \in Ids, Expire(s) PROVE Goal
  BY <1>15 DEF Expire
<1> QED
  BY <1>1, <1>2, <1>3, <1>4, <1>5, <1>6, <1>7, <1>8, <1>9, <1>10, <1>11, <1>12,
     <1>13, <1>14, <1>15 DEF Next

\* Every step keeps the types.
LEMMA NextTypeOK ==
  ASSUME TypeOK, StageInv, Next
  PROVE  TypeOK'
<1> DEFINE Stored == [user : Ids, valid : BOOLEAN] \cup {NoRecord}
<1>0. req' \in [Requests -> RequestType]
  BY NextRequestType
<1>a. \A r \in Requests : r \in Ids /\ req[r] \in RequestType
  BY DEF TypeOK, Ids
<1>b. \A r \in Requests : req[r].pc \in Steps => req[r].browser \in Browsers
  BY DEF StageInv, Stage
<1> USE ConstantsAssumption
<1>1. store' \in [Ids -> Stored]
  <2>1. store \in [Ids -> Stored]
    BY DEF TypeOK
  <2>2. ASSUME NEW r \in Requests, Save(r) PROVE store' \in [Ids -> Stored]
    <3>1. req[r].user \in Ids
      BY <2>2 DEF Save, SaveTo, StageInv, Stage, KnowsUser, Acting
    <3> QED BY <2>1, <2>2, <3>1 DEF Save, SaveTo, Record
  <2>3. ASSUME NEW s \in Ids, Expire(s) PROVE store' \in [Ids -> Stored]
    <3>1. store[s] \in [user : Ids, valid : BOOLEAN]
      BY <2>1, <2>3 DEF Expire, NoRecord
    <3>2. [store[s] EXCEPT !.valid = FALSE] \in [user : Ids, valid : BOOLEAN]
      BY <3>1
    <3>3. store' = [store EXCEPT ![s] = [store[s] EXCEPT !.valid = FALSE]]
      BY <2>3 DEF Expire
    <3> QED BY <2>1, <3>2, <3>3
  <2>4. ASSUME NEW r \in Requests, Sweep(r) \/ Flush(r) PROVE store' \in [Ids -> Stored]
    BY <2>1, <2>4 DEF Sweep, Flush
  <2>5. CASE UNCHANGED store
    BY <2>1, <2>5
  <2> QED
    BY <2>2, <2>3, <2>4, <2>5 DEF Next, Begin, Check, Register, FindLogin, Load, FindOwn,
       Drop, Change, InsertSubmission, Deliver, CutOff
<1>2. cookie' \in [Browsers -> Ids \cup {None}] /\ told' \in [Browsers -> Ids \cup {None}]
  <2>1. ASSUME NEW r \in Requests, Deliver(r)
        PROVE  /\ cookie' \in [Browsers -> Ids \cup {None}]
               /\ told' \in [Browsers -> Ids \cup {None}]
    <3>1. req[r].pc = "answer" /\ req[r].set \in Ids \cup {None, Keep}
      BY <2>1, <1>a DEF Deliver, RequestType
    <3>2. req[r].set \in Ids \cup {None}
      BY <3>1 DEF StageInv, Stage
    <3>3. req[r].set # None => req[r].user \in Ids
      BY <3>1 DEF StageInv, Stage
    <3> QED BY <2>1, <3>2, <3>3 DEF Deliver, TypeOK
  <2>2. CASE UNCHANGED <<cookie, told>>
    BY <2>2 DEF TypeOK
  <2> QED
    BY <2>1, <2>2 DEF Next, Begin, Check, Register, FindLogin, Load, Sweep, Save, SaveTo,
       Flush, FindOwn, Drop, Change, InsertSubmission, CutOff, Expire, history
<1>3. /\ users' \subseteq Ids /\ rows' \in [Ids -> [name : Names, password : Passwords]]
      /\ proven' \subseteq Browsers \X Ids
  <2> DEFINE Goal == /\ users' \subseteq Ids
                     /\ rows' \in [Ids -> [name : Names, password : Passwords]]
                     /\ proven' \subseteq Browsers \X Ids
  <2>1. ASSUME NEW r \in Requests, Register(r), Insert(r) PROVE Goal
    <3>1. req[r].pc = "register"
      BY <2>1 DEF Register
    <3>2. /\ req[r].browser \in Browsers /\ req[r].name \in Names
          /\ req[r].password \in Passwords
      BY <3>1, <1>b DEF StageInv, Stage, Steps
    <3> QED BY <2>1, <3>2, <1>a DEF Insert, TypeOK
  <2>2. ASSUME NEW r \in Requests, FindLogin(r) PROVE Goal
    <3>1. req[r].browser \in Browsers
      BY <2>2, <1>b DEF FindLogin, Steps
    <3> QED BY <2>2, <3>1 DEF FindLogin, FindByUsername, TypeOK, accounts
  <2>3. ASSUME NEW r \in Requests, Change(r) PROVE Goal
    <3>1. PICK p \in Passwords :
            rows' = [u \in Ids |-> IF u \in FindById(req[r].user)
                                   THEN [rows[u] EXCEPT !.password = p] ELSE rows[u]]
      BY <2>3 DEF Change
    <3>2. \A u \in Ids : rows[u] \in [name : Names, password : Passwords]
      BY DEF TypeOK
    <3>3. \A u \in Ids : [rows[u] EXCEPT !.password = p] \in [name : Names, password : Passwords]
      BY <3>2
    <3> QED BY <2>3, <3>1, <3>2, <3>3 DEF Change, TypeOK, history
  <2>4. ASSUME NEW r \in Requests, Drop(r) PROVE Goal
    BY <2>4 DEF Drop, TypeOK, history
  <2>5. CASE UNCHANGED <<users, rows, proven>>
    BY <2>5 DEF TypeOK
  <2> QED
    BY <2>1, <2>2, <2>3, <2>4, <2>5 DEF Next, Begin, Check, Register, Load, Sweep, Save,
       SaveTo, Flush, FindOwn, InsertSubmission, Deliver, CutOff, Expire, history, accounts
<1>4. owner' \in [Requests -> Ids \cup {None}]
  <2>1. ASSUME NEW r \in Requests, InsertSubmission(r)
        PROVE  owner' \in [Requests -> Ids \cup {None}]
    BY <2>1 DEF InsertSubmission, TypeOK
  <2>2. ASSUME NEW r \in Requests, Drop(r) PROVE owner' \in [Requests -> Ids \cup {None}]
    BY <2>2 DEF Drop, TypeOK
  <2>3. CASE UNCHANGED owner
    BY <2>3 DEF TypeOK
  <2> QED
    BY <2>1, <2>2, <2>3 DEF Next, Begin, Check, Register, FindLogin, Load, Sweep, Save,
       SaveTo, Flush, FindOwn, Change, Deliver, CutOff, Expire, accounts
<1>5. expired' \in 0..MaxExpired
  <2>1. ASSUME NEW s \in Ids, Expire(s) PROVE expired' \in 0..MaxExpired
    BY <2>1 DEF Expire, TypeOK
  <2>2. CASE UNCHANGED expired
    BY <2>2 DEF TypeOK
  <2> QED
    BY <2>1, <2>2 DEF Next, Begin, Check, Register, FindLogin, Load, Sweep, Save, SaveTo,
       Flush, FindOwn, Drop, Change, InsertSubmission, Deliver, CutOff
<1>6. unsure' \subseteq Browsers
  <2>1. ASSUME NEW r \in Requests, Deliver(r) \/ CutOff(r) PROVE unsure' \subseteq Browsers
    <3>1. req[r].pc \in Steps
      BY <2>1, <1>a DEF Deliver, CutOff, InFlight, Steps, RequestType
    <3> QED BY <2>1, <3>1, <1>b DEF Deliver, CutOff, TypeOK
  <2>2. CASE UNCHANGED unsure
    BY <2>2 DEF TypeOK
  <2> QED
    BY <2>1, <2>2 DEF Next, Begin, Check, Register, FindLogin, Load, Sweep, Save, SaveTo,
       Flush, FindOwn, Drop, Change, InsertSubmission, Expire, history
<1>7. flushed' \subseteq Ids /\ held' \in [Ids -> SUBSET Requests]
  <2>1. ASSUME NEW r \in Requests, Flush(r)
        PROVE  flushed' \subseteq Ids /\ held' \in [Ids -> SUBSET Requests]
    <3>1. req[r].session \in Ids \cup {None}
      BY <1>a DEF RequestType
    <3> QED BY <2>1, <3>1 DEF Flush, LoggedOut, Holders, TypeOK
  <2>2. ASSUME NEW r \in Requests, Save(r)
        PROVE  flushed' \subseteq Ids /\ held' \in [Ids -> SUBSET Requests]
    BY <2>2 DEF Save, SaveTo, TypeOK
  <2>3. CASE UNCHANGED <<flushed, held>>
    BY <2>3 DEF TypeOK
  <2> QED
    BY <2>1, <2>2, <2>3 DEF Next, Begin, Check, Register, FindLogin, Load, Sweep, FindOwn,
       Drop, Change, InsertSubmission, Deliver, CutOff, Expire, history
<1> QED BY <1>0, <1>1, <1>2, <1>3, <1>4, <1>5, <1>6, <1>7 DEF TypeOK

-----------------------------------------------------------------------------
(* What a step does to the request that takes it, field by field.          *)

Ended(r) == req'[r] = [Idle EXCEPT !.pc = "over", !.browser = req[r].browser]

\* r is still in flight, at a step of pcs.
GoesTo(r, pcs) ==
  /\ req'[r].pc \in pcs /\ req'[r].pc \in Steps
  /\ req'[r].kind = req[r].kind /\ req'[r].browser = req[r].browser
  /\ req'[r].name = req[r].name /\ req'[r].password = req[r].password
  /\ req'[r].alone = req[r].alone

\* r alone takes a step.
Moves(r) ==
  /\ req[r].pc \in Steps
  /\ \A q \in Requests : q # r => req'[q] = req[q]
  /\ Ended(r) \/ GoesTo(r, Steps)

KeepsUser(r)    == req'[r].user = req[r].user
KeepsSession(r) == req'[r].session = req[r].session
KeepsSet(r)     == req'[r].set = req[r].set

\* What a step does to its own request, step by step: an ended one is over;
LEMMA EndedIsOver ==
  ASSUME NEW r \in Requests, Ended(r)
  PROVE  req'[r].pc = "over"
BY DEF Ended, Idle

\* a step that goes on changes the place and nothing else;
LEMMA ToEffect ==
  ASSUME TypeOK, NEW r \in Requests, req[r].pc \in Steps, NEW pc \in Steps, To(r, pc)
  PROVE  Moves(r) /\ GoesTo(r, {pc}) /\ KeepsUser(r) /\ KeepsSession(r) /\ KeepsSet(r)
BY DEF TypeOK, RequestType, To, Moves, GoesTo, KeepsUser, KeepsSession, KeepsSet

\* one that learns the user keeps the session;
LEMMA UserEffect ==
  ASSUME TypeOK, NEW r \in Requests, req[r].pc \in Steps, NEW pc \in Steps, NEW user,
         req' = [req EXCEPT ![r].pc = pc, ![r].user = user]
  PROVE  /\ Moves(r) /\ GoesTo(r, {pc}) /\ KeepsSession(r) /\ KeepsSet(r)
         /\ req'[r].user = user
<1>1. req' = [req EXCEPT ![r] = [req[r] EXCEPT !.pc = pc, !.user = user]]
  OBVIOUS
<1> QED BY <1>1 DEF TypeOK, RequestType, Moves, GoesTo, KeepsSession, KeepsSet

\* one that gives up ends the request;
LEMMA OverEffect ==
  ASSUME TypeOK, NEW r \in Requests, req[r].pc \in Steps, Over(r)
  PROVE  Moves(r) /\ Ended(r)
BY DEF TypeOK, Over, Moves, Ended

\* one that leaves the session as it is ends, another goes to its answer.
LEMMA AnswerEffect ==
  ASSUME TypeOK, NEW r \in Requests, req[r].pc \in Steps, NEW set, Answer(r, set)
  PROVE  /\ Moves(r)
         /\ set = Keep => Ended(r)
         /\ set # Keep => /\ GoesTo(r, {"answer"}) /\ KeepsUser(r) /\ KeepsSession(r)
                          /\ req'[r].set = set
<1>1. CASE set = Keep
  BY <1>1, OverEffect DEF Answer
<1>2. CASE set # Keep
  <2>1. req' = [req EXCEPT ![r] = [req[r] EXCEPT !.pc = "answer", !.set = set]]
    BY <1>2 DEF Answer
  <2> QED BY <1>2, <2>1 DEF TypeOK, RequestType, Moves, GoesTo, KeepsUser, KeepsSession, Steps
<1> QED BY <1>1, <1>2

\* A request that finds no record of its session.
LEMMA WithoutRecordEffect ==
  ASSUME TypeOK, NEW r \in Requests, req[r].pc \in Steps, WithoutRecord(r)
  PROVE  /\ Moves(r)
         /\ \/ /\ req[r].kind \in {"register", "login"}
               /\ GoesTo(r, {"save"}) /\ KeepsUser(r) /\ req'[r].session = None /\ KeepsSet(r)
            \/ /\ req[r].kind \notin {"register", "login"}
               /\ req[r].session = None /\ Ended(r)
            \/ /\ req[r].kind \notin {"register", "login"}
               /\ req[r].session # None
               /\ GoesTo(r, {"answer"}) /\ KeepsUser(r) /\ KeepsSession(r) /\ req'[r].set = None
<1> USE ConstantsAssumption
<1>1. CASE req[r].kind \in {"register", "login"}
  <2>1. req' = [req EXCEPT ![r] = [req[r] EXCEPT !.pc = "save", !.session = None]]
    BY <1>1 DEF WithoutRecord
  <2> QED BY <1>1, <2>1 DEF TypeOK, RequestType, Moves, GoesTo, KeepsUser, KeepsSet, Steps
<1>2. CASE req[r].kind \notin {"register", "login"} /\ req[r].session = None
  BY <1>2, AnswerEffect DEF WithoutRecord
<1>3. CASE req[r].kind \notin {"register", "login"} /\ req[r].session # None
  BY <1>3, AnswerEffect DEF WithoutRecord
<1> QED BY <1>1, <1>2, <1>3

\* A request that loads its record goes on with or without its user.
LEMMA LoadEffect ==
  ASSUME TypeOK, NEW r \in Requests, Load(r)
  PROVE  /\ Moves(r)
         /\ \/ WithoutRecord(r)
            \/ Ended(r)
            \/ /\ req[r].session # None
               /\ GoesTo(r, {"sweep"}) /\ KeepsUser(r) /\ KeepsSession(r) /\ KeepsSet(r)
            \/ /\ req[r].session # None /\ store[req[r].session].valid
               /\ store[req[r].session] # NoRecord
               /\ GoesTo(r, {AfterLoad(req[r].kind)}) /\ KeepsSession(r) /\ KeepsSet(r)
               /\ req'[r].user = IF req[r].kind \in {"register", "login"}
                                 THEN req[r].user ELSE store[req[r].session].user
<1>0. req[r].pc \in Steps /\ \A k : AfterLoad(k) \in Steps
  BY DEF Load, Steps, AfterLoad
<1>1. CASE Over(r) \/ WithoutRecord(r)
  BY <1>0, <1>1, OverEffect, WithoutRecordEffect
<1>2. CASE To(r, "sweep") /\ req[r].session # None
  BY <1>0, <1>2, ToEffect DEF Steps
<1>3. CASE ~(Over(r) \/ WithoutRecord(r) \/ (To(r, "sweep") /\ req[r].session # None))
  <2> DEFINE u == IF req[r].kind \in {"register", "login"} THEN req[r].user
                  ELSE store[req[r].session].user
  <2>1. /\ req[r].session # None /\ store[req[r].session] # NoRecord
        /\ store[req[r].session].valid
        /\ req' = [req EXCEPT ![r].pc = AfterLoad(req[r].kind), ![r].user = u]
    BY <1>3 DEF Load
  <2>2. u = IF req[r].kind \in {"register", "login"} THEN req[r].user
            ELSE store[req[r].session].user
    OBVIOUS
  <2> HIDE DEF u
  <2>3. /\ Moves(r) /\ GoesTo(r, {AfterLoad(req[r].kind)})
        /\ KeepsSession(r) /\ KeepsSet(r) /\ req'[r].user = u
    BY <1>0, <2>1, UserEffect
  <2> QED BY <2>1, <2>2, <2>3
<1> QED BY <1>1, <1>2, <1>3

\* A save gives the answer a session, new or old, whose record it wrote.
LEMMA SaveEffect ==
  ASSUME TypeOK, NEW r \in Requests, Save(r)
  PROVE  /\ Moves(r) /\ GoesTo(r, {"answer"}) /\ KeepsUser(r)
         /\ req'[r].session = Saved(r) /\ req'[r].set = Saved(r) /\ Saved(r) \in Ids
<1>1. req' = [req EXCEPT ![r] = [req[r] EXCEPT !.pc = "answer", !.session = Saved(r),
                                               !.set = Saved(r)]]
  BY DEF Save, SaveTo
<1>2. req[r].pc \in Steps
  BY DEF Save, SaveTo, Steps
<1>3. Saved(r) \in Ids
  BY DEF Saved, Ids, TypeOK, RequestType
<1> QED BY <1>1, <1>2, <1>3 DEF TypeOK, RequestType, Moves, GoesTo, KeepsUser, Steps

\* A flush without a session ends, another is to be answered with none.
LEMMA FlushEffect ==
  ASSUME TypeOK, NEW r \in Requests, Flush(r)
  PROVE  /\ Moves(r)
         /\ req[r].session = None => Ended(r)
         /\ req[r].session # None => /\ GoesTo(r, {"answer"}) /\ KeepsUser(r)
                                     /\ KeepsSession(r) /\ req'[r].set = None
<1>1. req[r].pc \in Steps
  BY DEF Flush, Steps
<1> QED BY <1>1, AnswerEffect, ConstantsAssumption DEF Flush, LoggedOut

\* A request that is sent carries the cookie of its browser and knows no user.
LEMMA BeginEffect ==
  ASSUME TypeOK, NEW r \in Requests, NEW k \in Kinds, NEW b \in Browsers,
         NEW n \in Names \cup {None}, NEW p \in Passwords \cup {None}, Begin(r, k, b, n, p)
  PROVE  /\ req'[r].pc = FirstStep(k) /\ FirstStep(k) \in Steps
         /\ req'[r].kind = k /\ req'[r].browser = b /\ req'[r].name = n
         /\ req'[r].password = p /\ req'[r].session = cookie[b]
         /\ req'[r].user = None /\ req'[r].set = Keep
         /\ req'[r].alone = (SameBrowser(b) = {})
         /\ \A q \in Requests : q # r =>
              /\ req[q].pc \in {"idle", "over"} => req'[q] = req[q]
              /\ req'[q].pc = req[q].pc /\ req'[q].kind = req[q].kind
              /\ req'[q].browser = req[q].browser /\ req'[q].name = req[q].name
              /\ req'[q].password = req[q].password /\ KeepsSession(q)
              /\ KeepsUser(q) /\ KeepsSet(q)
              /\ req'[q].alone = (req[q].alone /\ q \notin SameBrowser(b))
<1>1. req'[r] = [Idle EXCEPT !.pc = FirstStep(k), !.kind = k, !.browser = b,
                             !.name = n, !.password = p, !.session = cookie[b],
                             !.alone = SameBrowser(b) = {}]
  BY DEF Begin
<1>2. ASSUME NEW q \in Requests, q # r
      PROVE  /\ req'[q] = [req[q] EXCEPT !.alone = @ /\ q \notin SameBrowser(b)]
             /\ req[q] \in RequestType
  BY <1>2 DEF Begin, TypeOK
<1>3. FirstStep(k) \in Steps
  BY DEF FirstStep, Steps
<1>4. ASSUME NEW q \in Requests, q # r
      PROVE  /\ req'[q].pc = req[q].pc /\ req'[q].kind = req[q].kind
             /\ req'[q].browser = req[q].browser /\ req'[q].name = req[q].name
             /\ req'[q].password = req[q].password /\ KeepsSession(q)
             /\ KeepsUser(q) /\ KeepsSet(q)
             /\ req'[q].alone = (req[q].alone /\ q \notin SameBrowser(b))
  BY <1>2, <1>4 DEF RequestType, KeepsSession, KeepsUser, KeepsSet
<1>5. ASSUME NEW q \in Requests, q # r, req[q].pc \in {"idle", "over"}
      PROVE  req'[q] = req[q]
  <2>1. q \notin SameBrowser(b)
    BY <1>5 DEF SameBrowser, InFlight
  <2>2. req[q] \in RequestType /\ req[q].alone \in BOOLEAN
    BY <1>2, <1>5 DEF RequestType
  <2>3. (req[q].alone /\ q \notin SameBrowser(b)) = req[q].alone
    BY <2>1, <2>2
  <2>4. req'[q] = [req[q] EXCEPT !.alone = req[q].alone]
    BY <2>3, <1>2, <1>5
  <2> QED BY <2>2, <2>4 DEF RequestType
<1>6. /\ req'[r].pc = FirstStep(k) /\ req'[r].kind = k /\ req'[r].browser = b
      /\ req'[r].name = n /\ req'[r].password = p /\ req'[r].session = cookie[b]
      /\ req'[r].user = None /\ req'[r].set = Keep
      /\ req'[r].alone = (SameBrowser(b) = {})
  BY <1>1 DEF Idle
<1> QED BY <1>3, <1>4, <1>5, <1>6

-----------------------------------------------------------------------------
(* StageInv.                                                               *)

\* A request that is over is as the invariant says one is.
LEMMA EndedStage ==
  ASSUME NEW r \in Requests, Ended(r)
  PROVE  Stage(r)'
<1>1. req'[r].pc = "over" /\ req'[r].browser = req[r].browser /\ req'[r].kind = None
  BY DEF Ended, Idle
<1>2. req'[r] = [Idle EXCEPT !.pc = "over", !.browser = req'[r].browser]
  BY <1>1 DEF Ended
<1> QED BY <1>1, <1>2, ConstantsAssumption DEF Stage, Steps, KnowsUser, Acting, Kinds

\* A request that does not step stays as the invariant says.
LEMMA OtherStage ==
  ASSUME NEW q \in Requests, Stage(q), req'[q] = req[q],
         owner'[q] \in {owner[q], None}
  PROVE  Stage(q)'
BY DEF Stage, KnowsUser

\* Every step keeps what is known of a request at its place in its handler.
LEMMA NextStageInv ==
  ASSUME TypeOK, StageInv, Next
  PROVE  StageInv'
<1> USE ConstantsAssumption
<1>a. \A r \in Requests : Stage(r)
  BY DEF StageInv
<1>b. \A r \in Requests : req[r] \in RequestType
  BY DEF TypeOK
\* It is enough to look at the request that takes the step.
<1>c. ASSUME NEW r \in Requests, Moves(r), Ended(r) \/ Stage(r)',
             \A q \in Requests : owner'[q] \in {owner[q], None} \/ q = r
      PROVE  StageInv'
  <2>1. ASSUME NEW q \in Requests PROVE Stage(q)'
    BY <1>a, <1>c, EndedStage, OtherStage DEF Moves
  <2> QED BY <2>1 DEF StageInv
<1>1. ASSUME NEW r \in Requests, NEW k \in Kinds, NEW b \in Browsers,
             NEW n \in Names \cup {None}, NEW p \in Passwords \cup {None},
             Begin(r, k, b, n, p)
      PROVE  StageInv'
  <2>1. Stage(r)'
    <3>1. k \in {"register", "login"} => n \in Names
      BY <1>1 DEF Begin
    <3>2. k \in {"register", "login", "delete", "password"} => p \in Passwords
      BY <1>1 DEF Begin
    <3>3. /\ FirstStep(k) \in {"check", "find", "flush", "load"}
          /\ FirstStep(k) = "check" => k = "register"
          /\ FirstStep(k) = "find" => k = "login"
          /\ FirstStep(k) = "load" => k \notin {"register", "login"}
      BY DEF FirstStep
    <3>4. /\ req'[r].pc = FirstStep(k) /\ req'[r].kind = k /\ req'[r].browser = b
          /\ req'[r].name = n /\ req'[r].password = p /\ req'[r].set = Keep
      BY <1>1, BeginEffect
    <3>5. req'[r].pc \in {"check", "find", "flush", "load"} /\ ~KnowsUser(r)'
      BY <3>3, <3>4 DEF KnowsUser, Acting
    <3> QED BY <3>1, <3>2, <3>3, <3>4, <3>5 DEF Stage, Steps
  <2>2. ASSUME NEW q \in Requests, q # r PROVE Stage(q)'
    <3>1. /\ req[q].pc \in {"idle", "over"} => req'[q] = req[q]
          /\ req'[q].pc = req[q].pc /\ req'[q].kind = req[q].kind
          /\ req'[q].browser = req[q].browser /\ req'[q].name = req[q].name
          /\ req'[q].password = req[q].password /\ req'[q].session = req[q].session
          /\ req'[q].user = req[q].user /\ req'[q].set = req[q].set
      BY <1>1, <2>2, BeginEffect DEF KeepsSession, KeepsUser, KeepsSet
    <3>2. owner'[q] = owner[q]
      BY <1>1 DEF Begin, accounts
    <3> QED BY <3>1, <3>2, <1>a DEF Stage, KnowsUser
  <2> QED BY <2>1, <2>2 DEF StageInv
<1>2. ASSUME NEW r \in Requests, Check(r) PROVE StageInv'
  <2>1. req[r].pc = "check" /\ owner' = owner
    BY <1>2 DEF Check, accounts
  <2>2. Moves(r) /\ (Ended(r) \/ (/\ GoesTo(r, {"register"}) /\ KeepsUser(r)
                                  /\ KeepsSession(r) /\ KeepsSet(r)))
    BY <1>2, <2>1, ToEffect, AnswerEffect DEF Check, Steps
  <2>3. Ended(r) \/ Stage(r)'
    BY <2>1, <2>2, <1>a DEF Stage, Steps, GoesTo, KnowsUser, Acting, KeepsSet
  <2> QED BY <2>1, <2>2, <2>3, <1>c
<1>3. ASSUME NEW r \in Requests, Register(r) PROVE StageInv'
  <2>1. req[r].pc = "register" /\ owner' = owner /\ r \in Ids
    BY <1>3 DEF Register, Ids
  <2>2. Moves(r) /\ (Ended(r) \/ (GoesTo(r, {"load"}) /\ req'[r].user = r /\ KeepsSet(r)))
    BY <1>3, <2>1, UserEffect, AnswerEffect DEF Register, Insert, Steps
  <2>3. Ended(r) \/ Stage(r)'
    BY <2>1, <2>2, <1>a DEF Stage, Steps, GoesTo, KnowsUser, Acting, KeepsSet
  <2> QED BY <2>1, <2>2, <2>3, <1>c
<1>4. ASSUME NEW r \in Requests, FindLogin(r) PROVE StageInv'
  <2>1. req[r].pc = "find" /\ owner' = owner
    BY <1>4 DEF FindLogin, accounts
  <2>2. Moves(r) /\ (Ended(r) \/ (GoesTo(r, {"load"}) /\ req'[r].user \in Ids /\ KeepsSet(r)))
    <3>1. CASE Answer(r, Keep)
      BY <2>1, <3>1, AnswerEffect DEF Steps
    <3>2. CASE \E v \in users : req' = [req EXCEPT ![r].pc = "load", ![r].user = v]
      <4>1. PICK v \in users : req' = [req EXCEPT ![r].pc = "load", ![r].user = v]
        BY <3>2
      <4>2. v \in Ids
        BY DEF TypeOK
      <4>3. req[r].pc \in Steps /\ "load" \in Steps
        BY <2>1 DEF Steps
      <4> QED BY <4>1, <4>2, <4>3, UserEffect
    <3> QED BY <1>4, <3>1, <3>2 DEF FindLogin, FindByUsername
  <2>3. Ended(r) \/ Stage(r)'
    BY <2>1, <2>2, <1>a DEF Stage, Steps, GoesTo, KnowsUser, Acting, KeepsSet
  <2> QED BY <2>1, <2>2, <2>3, <1>c
\* What a request without a record goes on to.
<1>d. ASSUME NEW r \in Requests, req[r].pc \in {"load", "sweep"}, WithoutRecord(r),
             owner' = owner
      PROVE  StageInv'
  <2>1. req[r].pc \in Steps
    BY <1>d DEF Steps
  <2>2. Ended(r) \/ Stage(r)'
    BY <2>1, <1>d, <1>a, WithoutRecordEffect
    DEF Stage, Steps, GoesTo, KnowsUser, Acting, KeepsSet, KeepsUser
  <2> QED BY <2>1, <2>2, <1>c, <1>d, WithoutRecordEffect
<1>5. ASSUME NEW r \in Requests, Load(r) PROVE StageInv'
  <2>1. req[r].pc = "load" /\ owner' = owner
    BY <1>5 DEF Load, accounts
  <2>2. CASE WithoutRecord(r)
    BY <2>1, <2>2, <1>d
  <2>3. CASE Ended(r)
    BY <1>5, <2>1, <2>3, <1>c, LoadEffect
  <2>4. CASE /\ req[r].session # None
             /\ GoesTo(r, {"sweep"}) /\ KeepsUser(r) /\ KeepsSession(r) /\ KeepsSet(r)
    <3>1. Stage(r)'
      BY <2>1, <2>4, <1>a
      DEF Stage, Steps, GoesTo, KnowsUser, Acting, KeepsSet, KeepsUser, KeepsSession
    <3> QED BY <1>5, <2>1, <3>1, <1>c, LoadEffect
  <2>5. CASE /\ req[r].session # None
             /\ store[req[r].session] # NoRecord
             /\ GoesTo(r, {AfterLoad(req[r].kind)}) /\ KeepsSession(r) /\ KeepsSet(r)
             /\ req'[r].user = IF req[r].kind \in {"register", "login"}
                               THEN req[r].user ELSE store[req[r].session].user
    <3>1. store[req[r].session].user \in Ids
      BY <2>5, <1>b DEF TypeOK, RequestType
    <3>2. req'[r].user \in Ids
      BY <2>1, <2>5, <3>1, <1>a DEF Stage, KnowsUser
    <3>3. /\ AfterLoad(req[r].kind) \in {"save", "find", "insert"}
          /\ AfterLoad(req[r].kind) = "find" => req[r].kind \in {"delete", "password"}
      BY DEF AfterLoad
    <3>4. Stage(r)'
      BY <2>1, <2>5, <3>2, <3>3, <1>a
      DEF Stage, Steps, GoesTo, KnowsUser, Acting, KeepsSet, KeepsSession
    <3> QED BY <1>5, <2>1, <3>4, <1>c, LoadEffect
  <2> QED BY <1>5, <2>2, <2>3, <2>4, <2>5, LoadEffect
<1>6. ASSUME NEW r \in Requests, Sweep(r) PROVE StageInv'
  BY <1>6, <1>d DEF Sweep, accounts
<1>7. ASSUME NEW r \in Requests, Save(r) PROVE StageInv'
  <2>1. req[r].pc = "save" /\ owner' = owner
    BY <1>7 DEF Save, SaveTo, accounts
  <2>2. req[r].user \in Ids
    BY <2>1, <1>a DEF Stage, KnowsUser, Acting
  <2>3. Stage(r)'
    <3>1. /\ GoesTo(r, {"answer"}) /\ KeepsUser(r)
          /\ req'[r].set \in Ids
      BY <1>7, SaveEffect
    <3> QED BY <2>1, <2>2, <3>1, <1>a DEF Stage, Steps, GoesTo, KnowsUser, Acting, KeepsUser
  <2> QED BY <1>7, <2>1, <2>3, <1>c, SaveEffect
<1>8. ASSUME NEW r \in Requests, Flush(r) PROVE StageInv'
  <2>1. req[r].pc = "flush" /\ owner' = owner
    BY <1>8 DEF Flush, accounts
  <2>2. Ended(r) \/ Stage(r)'
    BY <1>8, <2>1, <1>a, FlushEffect DEF Stage, Steps, GoesTo, KnowsUser, Acting
  <2> QED BY <1>8, <2>1, <2>2, <1>c, FlushEffect
<1>9. ASSUME NEW r \in Requests, FindOwn(r) PROVE StageInv'
  <2>1. /\ req[r].pc = "find" /\ req[r].kind \in {"delete", "password"} /\ owner' = owner
    BY <1>9 DEF FindOwn, accounts
  <2>2. Moves(r) /\ (Ended(r) \/ (GoesTo(r, {"drop", "change"}) /\ KeepsUser(r) /\ KeepsSet(r)))
    <3>1. Answer(r, Keep) \/ To(r, "drop") \/ To(r, "change")
      BY <1>9 DEF FindOwn
    <3> QED BY <2>1, <3>1, ToEffect, AnswerEffect DEF Steps, GoesTo
  <2>3. Ended(r) \/ Stage(r)'
    BY <2>1, <2>2, <1>a DEF Stage, Steps, GoesTo, KnowsUser, Acting, KeepsSet, KeepsUser
  <2> QED BY <2>1, <2>2, <2>3, <1>c
<1>10. ASSUME NEW r \in Requests, Drop(r) PROVE StageInv'
  <2>1. /\ req[r].pc = "drop"
        /\ \A q \in Requests : owner'[q] \in {owner[q], None}
    BY <1>10 DEF Drop
  <2>2. Moves(r) /\ GoesTo(r, {"flush"}) /\ KeepsSet(r)
    BY <1>10, <2>1, ToEffect DEF Drop, Steps
  <2>3. Stage(r)'
    BY <2>1, <2>2, <1>a DEF Stage, Steps, GoesTo, KnowsUser, Acting, KeepsSet
  <2> QED BY <2>1, <2>2, <2>3, <1>c
<1>11. ASSUME NEW r \in Requests, Change(r) PROVE StageInv'
  BY <1>11, <1>c, AnswerEffect DEF Change, Steps
<1>12. ASSUME NEW r \in Requests, InsertSubmission(r) PROVE StageInv'
  <2>1. req[r].pc = "insert" /\ \A q \in Requests : q # r => owner'[q] = owner[q]
    BY <1>12 DEF InsertSubmission, TypeOK
  <2>2. Moves(r) /\ (Ended(r) \/ (GoesTo(r, {"save"}) /\ KeepsUser(r) /\ KeepsSet(r)))
    BY <1>12, <2>1, ToEffect, AnswerEffect DEF InsertSubmission, Steps
  <2>3. Ended(r) \/ Stage(r)'
    BY <2>1, <2>2, <1>a DEF Stage, Steps, GoesTo, KnowsUser, Acting, KeepsSet, KeepsUser
  <2> QED BY <2>1, <2>2, <2>3, <1>c
<1>13. ASSUME NEW r \in Requests, Deliver(r) PROVE StageInv'
  BY <1>13, <1>c, OverEffect DEF Deliver, accounts, Steps
<1>14. ASSUME NEW r \in Requests, CutOff(r) PROVE StageInv'
  <2>1. req[r].pc \in Steps
    BY <1>14, <1>b DEF CutOff, InFlight, RequestType
  <2> QED BY <1>14, <2>1, <1>c, OverEffect DEF CutOff, accounts
<1>15. ASSUME NEW s \in Ids, Expire(s) PROVE StageInv'
  BY <1>15, <1>a, OtherStage DEF Expire, accounts, StageInv
<1> QED
  BY <1>1, <1>2, <1>3, <1>4, <1>5, <1>6, <1>7, <1>8, <1>9, <1>10, <1>11, <1>12,
     <1>13, <1>14, <1>15 DEF Next

-----------------------------------------------------------------------------
(* SessionInv: whose a session is.                                         *)

\* The steps of a request that was sent.
Acts(r) ==
  \/ Check(r) \/ Register(r) \/ FindLogin(r) \/ Load(r) \/ Sweep(r) \/ Save(r) \/ Flush(r)
  \/ FindOwn(r) \/ Drop(r) \/ Change(r) \/ InsertSubmission(r) \/ Deliver(r) \/ CutOff(r)

Begins(r) ==
  \E k \in Kinds, b \in Browsers, n \in Names \cup {None}, p \in Passwords \cup {None} :
    Begin(r, k, b, n, p)

\* What all the ways to send a request have in common.
LEMMA BeginsEffect ==
  ASSUME TypeOK, NEW r \in Requests, Begins(r)
  PROVE  /\ req[r].pc = "idle"
         /\ req'[r].pc \in {"check", "find", "flush", "load"} /\ ~KnowsUser(r)'
         /\ req'[r].browser \in Browsers
         /\ req'[r].session = cookie[req'[r].browser] /\ req'[r].set = Keep
         /\ req'[r].alone = (SameBrowser(req'[r].browser) = {})
         /\ \A q \in Requests : q # r =>
              /\ req'[q].pc = req[q].pc /\ req'[q].kind = req[q].kind
              /\ req'[q].browser = req[q].browser
              /\ KeepsSession(q) /\ KeepsUser(q) /\ KeepsSet(q)
              /\ req'[q].alone = (req[q].alone /\ q \notin SameBrowser(req'[r].browser))
         /\ UNCHANGED <<accounts, store, cookie, expired, history>>
<1>1. PICK k \in Kinds, b \in Browsers, n \in Names \cup {None}, p \in Passwords \cup {None} :
        Begin(r, k, b, n, p)
  BY DEF Begins
<1>2. /\ FirstStep(k) \in {"check", "find", "flush", "load"}
      /\ FirstStep(k) = "find" => k = "login"
      /\ FirstStep(k) = "load" => k \notin {"register", "login"}
  BY DEF FirstStep
<1>3. /\ req'[r].pc = FirstStep(k) /\ req'[r].kind = k /\ req'[r].browser = b
      /\ req'[r].session = cookie[b] /\ req'[r].set = Keep
      /\ req'[r].alone = (SameBrowser(b) = {})
  BY <1>1, BeginEffect
<1>4. ~KnowsUser(r)'
  BY <1>2, <1>3 DEF KnowsUser, Acting
<1>5. ASSUME NEW q \in Requests, q # r
      PROVE  /\ req'[q].pc = req[q].pc /\ req'[q].kind = req[q].kind
             /\ req'[q].browser = req[q].browser
             /\ KeepsSession(q) /\ KeepsUser(q) /\ KeepsSet(q)
             /\ req'[q].alone = (req[q].alone /\ q \notin SameBrowser(req'[r].browser))
  <2>1. /\ req'[q].pc = req[q].pc /\ req'[q].kind = req[q].kind
        /\ req'[q].browser = req[q].browser
        /\ KeepsSession(q) /\ KeepsUser(q) /\ KeepsSet(q)
    BY <1>1, <1>5, BeginEffect
  <2>2. req'[q].alone = (req[q].alone /\ q \notin SameBrowser(b))
    BY <1>1, <1>5, BeginEffect
  <2> QED BY <2>1, <2>2, <1>3
<1>6. req[r].pc = "idle" /\ UNCHANGED <<accounts, store, cookie, expired, history>>
  BY <1>1 DEF Begin
<1>7. /\ req'[r].pc \in {"check", "find", "flush", "load"}
      /\ req'[r].browser \in Browsers
      /\ req'[r].session = cookie[req'[r].browser] /\ req'[r].set = Keep
      /\ req'[r].alone = (SameBrowser(req'[r].browser) = {})
  BY <1>2, <1>3
<1> QED BY <1>4, <1>5, <1>6, <1>7

\* A step is one of a request, or time that passes for a session.
LEMMA NextCases ==
  ASSUME Next
  PROVE  \/ \E r \in Requests : Begins(r) \/ Acts(r)
         \/ \E s \in Ids : Expire(s)
BY DEF Next, Begins, Acts

\* A step moves its own request, which keeps its browser and gets a session by a save only.
LEMMA ActsMoves ==
  ASSUME TypeOK, StageInv, NEW r \in Requests, Acts(r)
  PROVE  /\ Moves(r)
         /\ req'[r].browser = req[r].browser
         /\ \/ Save(r)
            \/ /\ req'[r].session \in {req[r].session, None}
               /\ req'[r].set \in {req[r].set, None, Keep}
         /\ req[r].pc = "answer" => Ended(r)
<1> USE ConstantsAssumption
<1> DEFINE Quiet == /\ Moves(r)
                    /\ req'[r].session \in {req[r].session, None}
                    /\ req'[r].set \in {req[r].set, None, Keep}
<1>a. ASSUME Moves(r), Ended(r) PROVE Quiet /\ req'[r].browser = req[r].browser
  BY <1>a DEF Ended, Idle
<1>b. ASSUME Moves(r) PROVE req'[r].browser = req[r].browser
  BY <1>a, <1>b DEF Moves, GoesTo
<1>1. CASE Check(r)
  <2>1. req[r].pc = "check" /\ (Answer(r, Keep) \/ To(r, "register"))
    BY <1>1 DEF Check
  <2>2. Quiet
    BY <2>1, <1>a, AnswerEffect, ToEffect DEF Steps, KeepsSession, KeepsSet
  <2> QED BY <2>1, <2>2, <1>b
<1>2. CASE Register(r)
  <2>1. /\ req[r].pc = "register"
        /\ Answer(r, Keep) \/ req' = [req EXCEPT ![r].pc = "load", ![r].user = r]
    BY <1>2 DEF Register, Insert
  <2>2. Quiet
    BY <2>1, <1>a, AnswerEffect, UserEffect DEF Steps, KeepsSession, KeepsSet
  <2> QED BY <2>1, <2>2, <1>b
<1>3. CASE FindLogin(r)
  <2>1. /\ req[r].pc = "find"
        /\ Answer(r, Keep) \/ \E v \in users : req' = [req EXCEPT ![r].pc = "load", ![r].user = v]
    BY <1>3 DEF FindLogin, FindByUsername
  <2>2. req[r].pc \in Steps /\ "load" \in Steps
    BY <2>1 DEF Steps
  <2>3. CASE Answer(r, Keep)
    BY <2>1, <2>2, <2>3, <1>a, AnswerEffect
  <2>4. CASE \E v \in users : req' = [req EXCEPT ![r].pc = "load", ![r].user = v]
    <3>1. Quiet
      <4>1. PICK v \in users : req' = [req EXCEPT ![r].pc = "load", ![r].user = v]
        BY <2>4
      <4> QED BY <2>2, <4>1, UserEffect DEF KeepsSession, KeepsSet
    <3> QED BY <2>1, <3>1, <1>b
  <2> QED BY <2>1, <2>3, <2>4
<1>c. ASSUME req[r].pc \in {"load", "sweep"}, WithoutRecord(r) PROVE Quiet
  <2>1. req[r].pc \in Steps
    BY <1>c DEF Steps
  <2> QED BY <2>1, <1>a, <1>c, WithoutRecordEffect DEF KeepsSession, KeepsSet
<1>4. CASE Load(r)
  <2>1. req[r].pc = "load"
    BY <1>4 DEF Load
  <2>2. Quiet
    BY <1>4, <2>1, <1>a, <1>c, LoadEffect DEF KeepsSession, KeepsSet
  <2> QED BY <2>1, <2>2, <1>b
<1>5. CASE Sweep(r)
  <2>1. req[r].pc = "sweep" /\ Quiet
    BY <1>5, <1>c DEF Sweep
  <2> QED BY <2>1, <1>b
<1>6. CASE Save(r)
  <2>1. req[r].pc = "save"
    BY <1>6 DEF Save, SaveTo
  <2> QED BY <1>6, <2>1, <1>b, SaveEffect
<1>7. CASE Flush(r)
  <2>1. req[r].pc = "flush" /\ Quiet
    BY <1>7, <1>a, FlushEffect DEF Flush, KeepsSession
  <2> QED BY <2>1, <1>b
<1>8. CASE FindOwn(r)
  <2>1. req[r].pc = "find" /\ (Answer(r, Keep) \/ To(r, "drop") \/ To(r, "change"))
    BY <1>8 DEF FindOwn
  <2>2. Quiet
    BY <2>1, <1>a, AnswerEffect, ToEffect DEF Steps, KeepsSession, KeepsSet
  <2> QED BY <2>1, <2>2, <1>b
<1>9. CASE Drop(r) \/ Change(r) \/ InsertSubmission(r)
  <2>1. /\ req[r].pc \in {"drop", "change", "insert"}
        /\ Answer(r, Keep) \/ To(r, "flush") \/ To(r, "save")
    BY <1>9 DEF Drop, Change, InsertSubmission
  <2>2. Quiet
    BY <2>1, <1>a, AnswerEffect, ToEffect DEF Steps, KeepsSession, KeepsSet
  <2> QED BY <2>1, <2>2, <1>b
<1>10. CASE Deliver(r) \/ CutOff(r)
  <2>1. req[r].pc \in Steps /\ Over(r)
    BY <1>10 DEF Deliver, CutOff, InFlight, Steps, TypeOK, RequestType
  <2> QED BY <2>1, <1>a, OverEffect
<1> QED
  BY <1>1, <1>2, <1>3, <1>4, <1>5, <1>6, <1>7, <1>8, <1>9, <1>10 DEF Acts

\* A request that was answered stays so, and is of the same browser.
LEMMA DoneStaysDone ==
  ASSUME TypeOK, StageInv, Next, NEW q \in Requests, req[q].pc \in {"answer", "over"}
  PROVE  req'[q].pc \in {"answer", "over"} /\ req'[q].browser = req[q].browser
<1>1. ASSUME NEW r \in Requests, Begins(r)
      PROVE  req'[q].pc \in {"answer", "over"} /\ req'[q].browser = req[q].browser
  <2>1. r # q
    BY <1>1, BeginsEffect
  <2> QED BY <1>1, <2>1, BeginsEffect
<1>2. ASSUME NEW r \in Requests, Acts(r)
      PROVE  req'[q].pc \in {"answer", "over"} /\ req'[q].browser = req[q].browser
  <2>1. CASE r = q
    <3>1. req[q].pc = "answer"
      BY <1>2, <2>1, ActsMoves DEF Moves, Steps
    <3> QED BY <1>2, <2>1, <3>1, ActsMoves DEF Ended, Idle
  <2>2. CASE r # q
    BY <1>2, <2>2, ActsMoves DEF Moves
  <2> QED BY <2>1, <2>2
<1>3. CASE UNCHANGED req
  BY <1>3
<1> QED BY <1>1, <1>2, <1>3, NextCases DEF Expire

\* A browser comes to a session it had not only as the one that creates it.
LEMMA HasGrows ==
  ASSUME TypeOK, StageInv, Next, NEW b \in Browsers, NEW s \in Ids, Has(b, s)', ~Has(b, s)
  PROVE  /\ s \in Requests /\ Save(s) /\ Saved(s) = s
         /\ req[s].browser = b /\ req[s].pc = "save"
         /\ req'[s].browser = b /\ req'[s].pc = "answer"
<1> USE ConstantsAssumption
<1> DEFINE Goal == /\ s \in Requests /\ Save(s) /\ Saved(s) = s
                   /\ req[s].browser = b /\ req[s].pc = "save"
                   /\ req'[s].browser = b /\ req'[s].pc = "answer"
<1>0. s # None /\ s # Keep
  OBVIOUS
<1>a. ASSUME NEW q \in Requests, req'[q].browser = b, req[q].browser = b,
             s \in {req'[q].session, req'[q].set},
             /\ req'[q].session \in {req[q].session, None}
             /\ req'[q].set \in {req[q].set, None, Keep}
      PROVE  FALSE
  BY <1>0, <1>a DEF Has
<1>b. ASSUME NEW r \in Requests, Begins(r) PROVE FALSE
  <2>2. cookie' = cookie
    BY <1>b, BeginsEffect
  <2>3. PICK q \in Requests : req'[q].browser = b /\ s \in {req'[q].session, req'[q].set}
    BY <2>2 DEF Has
  <2>4. CASE q = r
    <3>1. req'[r].session = cookie[req'[r].browser] /\ req'[r].set = Keep
      BY <1>b, BeginsEffect
    <3> QED BY <1>0, <2>3, <2>4, <3>1 DEF Has
  <2>5. CASE q # r
    <3>1. req'[q].browser = req[q].browser /\ KeepsSession(q) /\ KeepsSet(q)
      BY <1>b, <2>5, BeginsEffect
    <3> QED BY <2>3, <3>1, <1>a DEF KeepsSession, KeepsSet
  <2> QED BY <2>4, <2>5
<1>c. ASSUME NEW r \in Requests, Acts(r) PROVE Goal
  <2>1. CASE cookie'[b] = s
    <3>1. Deliver(r) /\ req[r].browser = b /\ req[r].set = s
      <4>1. cookie' # cookie
        BY <2>1 DEF Has
      <4>2. Deliver(r)
        BY <1>c, <4>1 DEF Acts, Check, Register, FindLogin, Load, Sweep, Save, SaveTo, Flush,
           FindOwn, Drop, Change, InsertSubmission, CutOff
      <4> QED BY <2>1, <4>2 DEF Has, Deliver, TypeOK
    <3> QED BY <3>1 DEF Has
  <2>2. CASE cookie'[b] # s
    <3>1. PICK q \in Requests : req'[q].browser = b /\ s \in {req'[q].session, req'[q].set}
      BY <2>2 DEF Has
    <3>2. CASE q # r
      BY <1>c, <3>1, <3>2, ActsMoves DEF Moves, Has
    <3>3. CASE q = r
      <4>1. req[r].browser = b
        BY <1>c, <3>1, <3>3, ActsMoves
      <4>2. Save(r)
        BY <1>c, <3>1, <3>3, <4>1, <1>a, ActsMoves
      <4>3. s = Saved(r) /\ req'[r].pc = "answer"
        BY <3>1, <3>3, <4>2, SaveEffect DEF GoesTo
      <4>4. s = r
        BY <4>1, <4>3 DEF Saved, Has
      <4> QED BY <3>1, <3>3, <4>1, <4>2, <4>3, <4>4 DEF Save, SaveTo
    <3> QED BY <3>2, <3>3
  <2> QED BY <2>1, <2>2
<1>d. ASSUME NEW u \in Ids, Expire(u) PROVE FALSE
  BY <1>d DEF Expire, Has
<1> QED BY <1>b, <1>c, <1>d, NextCases

\* Every step keeps who has which session.
LEMMA NextSessionInv ==
  ASSUME TypeOK, StageInv, SessionInv, Next
  PROVE  SessionInv'
<1> SUFFICES ASSUME NEW b \in Browsers, NEW s \in Ids, Has(b, s)'
             PROVE  /\ \A c \in Browsers : Has(c, s)' => b = c
                    /\ s \in Requests => req'[s].pc \in {"answer", "over"} /\ req'[s].browser = b
  BY DEF SessionInv
<1>1. CASE Has(b, s)
  <2>1. /\ \A c \in Browsers : Has(c, s) => b = c
        /\ s \in Requests => req[s].pc \in {"answer", "over"} /\ req[s].browser = b
    BY <1>1 DEF SessionInv
  <2>2. s \in Requests => req'[s].pc \in {"answer", "over"} /\ req'[s].browser = b
    BY <2>1, DoneStaysDone
  <2>3. ASSUME NEW c \in Browsers, Has(c, s)' PROVE b = c
    BY <2>1, <2>3, HasGrows
  <2> QED BY <2>2, <2>3
<1>2. CASE ~Has(b, s)
  <2>1. s \in Requests /\ req[s].pc = "save" /\ req[s].browser = b
        /\ req'[s].browser = b /\ req'[s].pc = "answer"
    BY <1>2, HasGrows
  <2>2. ASSUME NEW c \in Browsers, Has(c, s)' PROVE b = c
    <3>1. ~Has(c, s)
      BY <2>1 DEF SessionInv
    <3> QED BY <2>1, <2>2, <3>1, HasGrows
  <2> QED BY <2>1, <2>2
<1> QED BY <1>1, <1>2

-----------------------------------------------------------------------------
(* ProvenInv: whose password was given.                                    *)

\* A record is written by a save, deleted by a sweep or a flush, or expires.
LEMMA StoreChanges ==
  ASSUME TypeOK, StageInv, Next, NEW s \in Ids
  PROVE  \/ store'[s] = store[s]
         \/ \E r \in Requests : Save(r) /\ s = Saved(r) /\ store'[s] = Record(req[r].user)
         \/ \E r \in Requests : /\ Sweep(r) \/ Flush(r)
                                /\ s = req[r].session /\ store'[s] = NoRecord
         \/ Expire(s) /\ store'[s].user = store[s].user /\ store[s] # NoRecord
<1> DEFINE Goal ==
      \/ store'[s] = store[s]
      \/ \E r \in Requests : Save(r) /\ s = Saved(r) /\ store'[s] = Record(req[r].user)
      \/ \E r \in Requests : /\ Sweep(r) \/ Flush(r)
                             /\ s = req[r].session /\ store'[s] = NoRecord
      \/ Expire(s) /\ store'[s].user = store[s].user /\ store[s] # NoRecord
<1>1. ASSUME NEW r \in Requests, Save(r) PROVE Goal
  BY <1>1 DEF Save, SaveTo, TypeOK
<1>2. ASSUME NEW r \in Requests, Sweep(r) \/ Flush(r) PROVE Goal
  BY <1>2 DEF Sweep, Flush, TypeOK
<1>3. ASSUME NEW u \in Ids, Expire(u) PROVE Goal
  <2>1. CASE u # s
    BY <1>3, <2>1 DEF Expire, TypeOK
  <2>2. CASE u = s
    <3>1. store' = [store EXCEPT ![s] = [store[s] EXCEPT !.valid = FALSE]]
      BY <1>3, <2>2 DEF Expire
    <3>2. store[s] # NoRecord /\ store[s] \in [user : Ids, valid : BOOLEAN]
      BY <1>3, <2>2 DEF Expire, TypeOK, NoRecord
    <3>3. store'[s].user = store[s].user
      BY <3>1, <3>2 DEF TypeOK
    <3> QED BY <1>3, <2>2, <3>2, <3>3
  <2> QED BY <2>1, <2>2
<1>4. CASE UNCHANGED store
  BY <1>4
<1> QED
  BY <1>1, <1>2, <1>3, <1>4 DEF Next, Begin, Check, Register, FindLogin, Load, FindOwn,
     Drop, Change, InsertSubmission, Deliver, CutOff

\* What was proven is not forgotten.
LEMMA ProvenGrows ==
  ASSUME Next
  PROVE  proven \subseteq proven'
<1>1. ASSUME NEW r \in Requests, Register(r) \/ FindLogin(r) PROVE proven \subseteq proven'
  BY <1>1 DEF Register, Insert, FindLogin
<1>2. CASE UNCHANGED proven
  BY <1>2
<1> QED
  BY <1>1, <1>2 DEF Next, Begin, Check, Load, Sweep, Save, SaveTo, Flush, FindOwn, Drop,
     Change, InsertSubmission, Deliver, CutOff, Expire, history

\* A request learns whom it acts for by a registration, a password or its session.
LEMMA LearnsByProof ==
  ASSUME TypeOK, StageInv, ProvenInv, Next, NEW q \in Requests, KnowsUser(q)'
  PROVE  <<req'[q].browser, req'[q].user>> \in proven'
<1> DEFINE Goal == <<req'[q].browser, req'[q].user>> \in proven'
<1> USE ConstantsAssumption
<1>a. ASSUME KnowsUser(q), req'[q].browser = req[q].browser, KeepsUser(q) PROVE Goal
  BY <1>a, ProvenGrows DEF ProvenInv, KeepsUser
<1>b. ASSUME req'[q].pc = req[q].pc, req'[q].kind = req[q].kind,
             req'[q].browser = req[q].browser, KeepsUser(q)
      PROVE  Goal
  <2>1. KnowsUser(q)
    BY <1>b DEF KnowsUser
  <2> QED BY <1>a, <1>b, <2>1
<1>c. ~Ended(q)
  BY DEF Ended, Idle, KnowsUser, Acting
<1>1. ASSUME NEW r \in Requests, Begins(r) PROVE Goal
  <2>1. q # r
    BY <1>1, BeginsEffect
  <2> QED BY <1>1, <1>b, <2>1, BeginsEffect
<1>2. ASSUME NEW r \in Requests, Acts(r), q # r PROVE Goal
  <2>1. req'[q] = req[q]
    BY <1>2, ActsMoves DEF Moves
  <2> QED BY <1>b, <2>1 DEF KeepsUser
<1>3. ASSUME NEW s \in Ids, Expire(s) PROVE Goal
  BY <1>3, <1>b DEF Expire, KeepsUser
<1>4. ASSUME Acts(q) PROVE Goal
  <2>1. req'[q].browser = req[q].browser
    BY <1>4, ActsMoves
  <2>2. CASE Check(q)
    <3>1. req[q].pc = "check" /\ (Answer(q, Keep) \/ To(q, "register"))
      BY <2>2 DEF Check
    <3> QED BY <3>1, <1>c, AnswerEffect, ToEffect DEF Steps, GoesTo, KnowsUser, Acting
  <2>3. CASE Register(q)
    <3>1. req[q].pc = "register" /\ req[q].pc \in Steps
      BY <2>3 DEF Register, Steps
    <3>2. Insert(q)
      BY <2>3, <3>1, <1>c, AnswerEffect DEF Register
    <3>3. req'[q].user = q
      BY <3>2 DEF Insert, TypeOK, RequestType
    <3> QED BY <2>1, <3>2, <3>3 DEF Insert
  <2>4. CASE FindLogin(q)
    <3>1. req[q].pc = "find" /\ req[q].pc \in Steps /\ "load" \in Steps
      BY <2>4 DEF FindLogin, Steps
    <3>2. PICK v \in users : /\ proven' = proven \cup {<<req[q].browser, v>>}
                             /\ req' = [req EXCEPT ![q].pc = "load", ![q].user = v]
      BY <2>4, <3>1, <1>c, AnswerEffect DEF FindLogin, FindByUsername
    <3>3. req'[q].user = v
      BY <3>1, <3>2, UserEffect
    <3> QED BY <2>1, <3>2, <3>3
  <2>a. ASSUME req[q].pc \in {"load", "sweep"}, WithoutRecord(q) PROVE Goal
    <3>1. req[q].pc \in Steps
      BY <2>a DEF Steps
    <3>2. req[q].kind \in {"register", "login"} /\ KeepsUser(q)
      BY <2>a, <3>1, <1>c, WithoutRecordEffect DEF GoesTo, KnowsUser, Acting
    <3>3. KnowsUser(q)
      BY <2>a, <3>2 DEF KnowsUser
    <3> QED BY <2>1, <3>2, <3>3, <1>a
  <2>5. CASE Load(q)
    <3>1. req[q].pc = "load"
      BY <2>5 DEF Load
    <3>2. CASE WithoutRecord(q)
      BY <3>1, <3>2, <2>a
    <3>3. CASE GoesTo(q, {"sweep"}) /\ KeepsUser(q)
      <4>1. KnowsUser(q)
        BY <3>1, <3>3 DEF GoesTo, KnowsUser, Acting
      <4> QED BY <2>1, <3>3, <4>1, <1>a
    <3>4. CASE /\ req[q].session # None /\ store[req[q].session] # NoRecord
               /\ req'[q].user = IF req[q].kind \in {"register", "login"}
                                 THEN req[q].user ELSE store[req[q].session].user
      <4>1. CASE req[q].kind \in {"register", "login"}
        <5>1. KnowsUser(q)
          BY <3>1, <4>1 DEF KnowsUser
        <5> QED BY <2>1, <3>4, <4>1, <5>1, <1>a DEF KeepsUser
      <4>2. CASE req[q].kind \notin {"register", "login"}
        <5>1. req[q].session \in Ids /\ req[q].browser \in Browsers
          BY <3>1, <3>4 DEF TypeOK, RequestType, StageInv, Stage, Steps
        <5>2. <<req[q].browser, store[req[q].session].user>> \in proven
          BY <3>4, <5>1 DEF ProvenInv, Has
        <5> QED BY <2>1, <3>4, <4>2, <5>2, ProvenGrows
      <4> QED BY <4>1, <4>2
    <3> QED BY <2>5, <3>2, <3>3, <3>4, <1>c, LoadEffect
  <2>6. CASE Sweep(q)
    BY <2>6, <2>a DEF Sweep
  <2>7. CASE Save(q)
    BY <2>7, SaveEffect DEF GoesTo, KnowsUser, Acting
  <2>8. CASE Flush(q)
    BY <2>8, <1>c, FlushEffect DEF GoesTo, KnowsUser, Acting
  <2>9. CASE FindOwn(q)
    <3>1. /\ req[q].pc = "find" /\ KnowsUser(q)
          /\ Answer(q, Keep) \/ To(q, "drop") \/ To(q, "change")
      BY <2>9 DEF FindOwn, KnowsUser
    <3>2. KeepsUser(q)
      BY <3>1, <1>c, AnswerEffect, ToEffect DEF Steps
    <3> QED BY <2>1, <3>1, <3>2, <1>a
  <2>10. CASE Drop(q) \/ Change(q) \/ InsertSubmission(q)
    <3>1. /\ req[q].pc \in {"drop", "change", "insert"} /\ KnowsUser(q)
          /\ Answer(q, Keep) \/ To(q, "flush") \/ To(q, "save")
      BY <2>10 DEF Drop, Change, InsertSubmission, KnowsUser, Acting
    <3>2. KeepsUser(q)
      BY <3>1, <1>c, AnswerEffect, ToEffect DEF Steps
    <3> QED BY <2>1, <3>1, <3>2, <1>a
  <2>11. CASE Deliver(q) \/ CutOff(q)
    <3>1. req[q].pc \in Steps /\ Over(q)
      BY <2>11 DEF Deliver, CutOff, InFlight, Steps, TypeOK, RequestType
    <3> QED BY <3>1, <1>c, OverEffect
  <2> QED
    BY <1>4, <2>2, <2>3, <2>4, <2>5, <2>6, <2>7, <2>8, <2>9, <2>10, <2>11 DEF Acts
<1> QED BY <1>1, <1>2, <1>3, <1>4, NextCases

\* Every step keeps that a session names an account its browser proved.
LEMMA NextProvenInv ==
  ASSUME TypeOK, StageInv, SessionInv, ProvenInv, Next
  PROVE  ProvenInv'
<1>1. ASSUME NEW b \in Browsers, NEW s \in Ids, Has(b, s)', store'[s] # NoRecord
      PROVE  <<b, store'[s].user>> \in proven'
  <2>1. CASE \E r \in Requests : Save(r) /\ s = Saved(r) /\ store'[s] = Record(req[r].user)
    <3>1. PICK r \in Requests : Save(r) /\ s = Saved(r) /\ store'[s] = Record(req[r].user)
      BY <2>1
    <3>2. <<req[r].browser, req[r].user>> \in proven /\ req[r].browser \in Browsers
      BY <3>1 DEF Save, SaveTo, ProvenInv, KnowsUser, Acting, StageInv, Stage, Steps
    <3>3. ASSUME NEW c \in Browsers, c = req[r].browser PROVE Has(c, s)'
      BY <3>1, <3>3, SaveEffect DEF Has, GoesTo
    <3>4. req[r].browser = b
      <4>1. SessionInv' /\ req[r].browser \in Browsers
        BY <3>2, NextSessionInv
      <4>2. \A c \in Browsers : Has(c, s)' => b = c
        BY <1>1, <4>1 DEF SessionInv
      <4> QED BY <3>3, <4>1, <4>2
    <3> QED BY <3>1, <3>2, <3>4, ProvenGrows DEF Record
  <2>2. CASE ~\E r \in Requests : Save(r) /\ s = Saved(r) /\ store'[s] = Record(req[r].user)
    <3>1. store'[s].user = store[s].user /\ store[s] # NoRecord
      BY <1>1, <2>2, StoreChanges
    <3>2. Has(b, s)
      <4>1. ASSUME ~Has(b, s) PROVE FALSE
        <5>1. s \in Requests /\ Save(s) /\ Saved(s) = s
          BY <1>1, <4>1, HasGrows
        <5>2. store'[s] = Record(req[s].user)
          BY <5>1 DEF Save, SaveTo, TypeOK
        <5> QED BY <2>2, <5>1, <5>2
      <4> QED BY <4>1
    <3> QED BY <3>1, <3>2, ProvenGrows DEF ProvenInv
  <2> QED BY <2>1, <2>2
<1>2. \A r \in Requests : KnowsUser(r)' => <<req'[r].browser, req'[r].user>> \in proven'
  BY LearnsByProof
<1> QED BY <1>1, <1>2 DEF ProvenInv

\* A submission is of an account that exists and whose browser proved itself.
LEMMA NextOwner ==
  ASSUME TypeOK, StageInv, ProvenInv, ActsOnlyAsProven, Next,
         NEW q \in Requests, owner'[q] # None
  PROVE  owner'[q] \in users' /\ <<req'[q].browser, owner'[q]>> \in proven'
<1> DEFINE Goal == owner'[q] \in users' /\ <<req'[q].browser, owner'[q]>> \in proven'
<1> USE ConstantsAssumption
<1>a. ASSUME owner[q] # None
      PROVE  /\ owner[q] \in users /\ <<req[q].browser, owner[q]>> \in proven'
             /\ req'[q].browser = req[q].browser
  <2>1. owner[q] \in users /\ <<req[q].browser, owner[q]>> \in proven'
    BY <1>a, ProvenGrows DEF ActsOnlyAsProven
  <2>2. req[q].pc # "idle"
    BY <1>a DEF StageInv, Stage
  <2>3. ASSUME NEW r \in Requests, Begins(r) PROVE req'[q].browser = req[q].browser
    BY <2>2, <2>3, BeginsEffect
  <2>4. ASSUME NEW r \in Requests, Acts(r) PROVE req'[q].browser = req[q].browser
    BY <2>4, ActsMoves DEF Moves
  <2> QED BY <2>1, <2>3, <2>4, NextCases DEF Expire
<1>1. ASSUME NEW r \in Requests, InsertSubmission(r) PROVE Goal
  <2>1. CASE owner'[q] = owner[q]
    BY <1>1, <2>1, <1>a DEF InsertSubmission
  <2>2. CASE owner'[q] # owner[q]
    <3>1. /\ q = r /\ req[r].user \in users /\ owner'[q] = req[r].user /\ req[r].pc = "insert"
          /\ users' = users /\ proven' = proven
      BY <1>1, <2>2 DEF InsertSubmission, TypeOK, history
    <3>2. <<req[r].browser, req[r].user>> \in proven
      BY <3>1 DEF ProvenInv, KnowsUser, Acting
    <3>3. req'[r].browser = req[r].browser
      BY <1>1, ActsMoves DEF Acts
    <3> QED BY <3>1, <3>2, <3>3
  <2> QED BY <2>1, <2>2
<1>2. ASSUME NEW r \in Requests, Drop(r) PROVE Goal
  <2>1. owner'[q] = owner[q] /\ owner[q] # req[r].user /\ users' = users \ {req[r].user}
    BY <1>2 DEF Drop
  <2> QED BY <2>1, <1>a
<1>3. CASE owner' = owner /\ users \subseteq users'
  BY <1>3, <1>a
<1>4. ASSUME NEW r \in Requests, Register(r) PROVE Goal
  BY <1>3, <1>4 DEF Register, Insert
<1> QED
  BY <1>1, <1>2, <1>3, <1>4 DEF Next, Begin, Check, FindLogin, Load, Sweep, Save, SaveTo,
     Flush, FindOwn, Change, Deliver, CutOff, Expire, accounts

\* So nobody comes to act for an account they did not prove.
LEMMA NextActsOnlyAsProven ==
  ASSUME TypeOK, StageInv, SessionInv, ProvenInv, ActsOnlyAsProven, Next
  PROVE  ActsOnlyAsProven'
<1>a. TypeOK' /\ ProvenInv'
  BY NextTypeOK, NextProvenInv
<1>1. ASSUME NEW b \in Browsers, NEW u \in Ids, u \in CurrentUser(b)'
      PROVE  <<b, u>> \in proven'
  <2>1. /\ cookie'[b] # None /\ store'[cookie'[b]].valid
        /\ u = store'[cookie'[b]].user
    BY <1>1 DEF CurrentUser, FindById
  <2>2. cookie'[b] \in Ids
    BY <1>a, <2>1 DEF TypeOK
  <2>3. store'[cookie'[b]] # NoRecord
    BY <2>1 DEF NoRecord
  <2>4. ASSUME NEW s \in Ids, s = cookie'[b] PROVE Has(b, s)'
    BY <2>4 DEF Has
  <2> QED BY <1>a, <2>1, <2>2, <2>3, <2>4 DEF ProvenInv
<1>2. ASSUME NEW r \in Requests
      PROVE  /\ req'[r].pc \in Acting => <<req'[r].browser, req'[r].user>> \in proven'
             /\ owner'[r] # None =>
                  owner'[r] \in users' /\ <<req'[r].browser, owner'[r]>> \in proven'
  <2>1. req'[r].pc \in Acting => KnowsUser(r)'
    BY DEF KnowsUser
  <2> QED BY <1>a, <2>1, NextOwner DEF ProvenInv
<1> QED BY <1>1, <1>2 DEF ActsOnlyAsProven

-----------------------------------------------------------------------------
(* OneAccountPerName.                                                      *)

\* Every step keeps names unique: the INSERT refuses a name that is taken.
LEMMA NextOneAccountPerName ==
  ASSUME TypeOK, OneAccountPerName, Next
  PROVE  OneAccountPerName'
<1>1. ASSUME NEW r \in Requests, Register(r), Insert(r) PROVE OneAccountPerName'
  <2>1. /\ users' = users \cup {r} /\ r \in Ids
        /\ rows'[r].name = req[r].name
        /\ \A u \in users : u # r => rows'[u].name = rows[u].name
    BY <1>1 DEF Insert, TypeOK, Ids
  <2>2. \A u \in users : rows[u].name # req[r].name
    <3>1. CASE FindByUsername(req[r].name) = {}
      BY <3>1 DEF FindByUsername
    <3>2. CASE Answer(r, Keep)
      <4>1. req[r].pc \in Steps
        BY <1>1 DEF Register, Steps
      <4>2. req'[r].pc = "over"
        BY <3>2, <4>1, AnswerEffect DEF Ended, Idle
      <4>3. req' = [req EXCEPT ![r].pc = "load", ![r].user = r] /\ "load" \in Steps
        BY <1>1 DEF Insert, Steps
      <4>4. req'[r].pc = "load"
        BY <4>1, <4>3, UserEffect DEF GoesTo
      <4> QED BY <4>2, <4>4
    <3> QED BY <1>1, <3>1, <3>2 DEF Register
  <2> QED BY <2>1, <2>2 DEF OneAccountPerName
<1>2. ASSUME NEW r \in Requests, Change(r) PROVE OneAccountPerName'
  <2>1. PICK p \in Passwords :
          rows' = [u \in Ids |-> IF u \in FindById(req[r].user)
                                 THEN [rows[u] EXCEPT !.password = p] ELSE rows[u]]
    BY <1>2 DEF Change
  <2>2. ASSUME NEW u \in users PROVE rows'[u].name = rows[u].name
    <3>1. u \in Ids /\ rows[u] \in [name : Names, password : Passwords]
      BY DEF TypeOK
    <3>2. [rows[u] EXCEPT !.password = p].name = rows[u].name
      BY <3>1
    <3> QED BY <2>1, <3>1, <3>2
  <2> QED BY <1>2, <2>2 DEF Change, OneAccountPerName
<1>3. CASE rows' = rows /\ users' \subseteq users
  BY <1>3 DEF OneAccountPerName
<1>4. ASSUME NEW r \in Requests, Drop(r) PROVE OneAccountPerName'
  BY <1>3, <1>4 DEF Drop
<1> QED
  BY <1>1, <1>2, <1>3, <1>4 DEF Next, Begin, Check, Register, FindLogin, Load, Sweep, Save,
     SaveTo, Flush, FindOwn, InsertSubmission, Deliver, CutOff, Expire, accounts

-----------------------------------------------------------------------------
(* LogoutInv: who may bring back a session that was logged out of.         *)

\* A request comes to hold a session only by loading a valid record of it.
LEMMA HoldersGrow ==
  ASSUME TypeOK, StageInv, Next, NEW s \in Ids, NEW q \in Holders(s)', q \notin Holders(s)
  PROVE  store[s] # NoRecord
<1> USE ConstantsAssumption
<1>1. q \in Requests /\ req'[q].pc \in {"insert", "save"} /\ req'[q].session = s
  BY DEF Holders
<1>a. s # None /\ ~Ended(q)
  BY <1>1 DEF Ended, Idle
<1>b. ASSUME req'[q].pc = req[q].pc, req'[q].session = req[q].session PROVE FALSE
  BY <1>1, <1>b DEF Holders
<1>2. ASSUME NEW r \in Requests, Begins(r) PROVE FALSE
  <2>1. CASE q = r
    BY <1>1, <1>2, <2>1, BeginsEffect
  <2>2. CASE q # r
    BY <1>1, <1>2, <2>2, <1>b, BeginsEffect DEF KeepsSession
  <2> QED BY <2>1, <2>2
<1>3. ASSUME NEW r \in Requests, Acts(r), q # r PROVE FALSE
  BY <1>1, <1>3, <1>b, ActsMoves DEF Moves
<1>4. ASSUME NEW u \in Ids, Expire(u) PROVE FALSE
  BY <1>4, <1>b DEF Expire
<1>5. ASSUME Acts(q) PROVE store[s] # NoRecord
  <2>a. ASSUME req[q].pc \in {"load", "sweep"}, WithoutRecord(q) PROVE FALSE
    <3>1. req[q].pc \in Steps
      BY <2>a DEF Steps
    <3> QED BY <2>a, <3>1, <1>1, <1>a, WithoutRecordEffect DEF GoesTo
  <2>1. CASE Load(q)
    <3>1. req[q].pc = "load"
      BY <2>1 DEF Load
    <3>2. CASE WithoutRecord(q)
      BY <3>1, <3>2, <2>a
    <3>3. CASE GoesTo(q, {"sweep"})
      BY <3>3, <1>1 DEF GoesTo
    <3>4. CASE KeepsSession(q) /\ store[req[q].session] # NoRecord
      BY <3>4, <1>1 DEF KeepsSession
    <3> QED BY <2>1, <3>2, <3>3, <3>4, <1>1, <1>a, LoadEffect
  <2>2. CASE Sweep(q)
    BY <2>2, <2>a DEF Sweep
  <2>3. CASE Check(q) \/ FindOwn(q) \/ Change(q)
    <3>1. /\ req[q].pc \in Steps
          /\ \/ Answer(q, Keep) \/ To(q, "register") \/ To(q, "drop") \/ To(q, "change")
      BY <2>3 DEF Check, FindOwn, Change, Steps
    <3> QED BY <3>1, <1>1, <1>a, AnswerEffect, ToEffect DEF GoesTo, Steps
  <2>4. CASE Register(q)
    <3>1. req[q].pc \in Steps /\ "load" \in Steps
      BY <2>4 DEF Register, Steps
    <3>2. Answer(q, Keep) \/ req' = [req EXCEPT ![q].pc = "load", ![q].user = q]
      BY <2>4 DEF Register, Insert
    <3> QED BY <3>1, <3>2, <1>1, <1>a, AnswerEffect, UserEffect DEF GoesTo
  <2>5. CASE FindLogin(q)
    <3>1. req[q].pc \in Steps /\ "load" \in Steps
      BY <2>5 DEF FindLogin, Steps
    <3>2. PICK v \in users : req' = [req EXCEPT ![q].pc = "load", ![q].user = v]
      BY <2>5, <3>1, <1>1, <1>a, AnswerEffect DEF FindLogin, FindByUsername
    <3> QED BY <3>1, <3>2, <1>1, UserEffect DEF GoesTo
  <2>6. CASE Save(q) \/ Flush(q)
    BY <2>6, <1>1, <1>a, SaveEffect, FlushEffect DEF GoesTo
  <2>7. CASE Drop(q)
    <3>1. req[q].pc \in Steps /\ To(q, "flush") /\ "flush" \in Steps
      BY <2>7 DEF Drop, Steps
    <3> QED BY <3>1, <1>1, ToEffect DEF GoesTo
  <2>8. CASE InsertSubmission(q)
    <3>1. /\ req[q].pc = "insert" /\ req[q].pc \in Steps /\ "save" \in Steps
          /\ Answer(q, Keep) \/ To(q, "save")
      BY <2>8 DEF InsertSubmission, Steps
    <3>2. KeepsSession(q)
      BY <3>1, <1>1, <1>a, AnswerEffect, ToEffect
    <3> QED BY <3>1, <3>2, <1>1 DEF KeepsSession, Holders
  <2>9. CASE Deliver(q) \/ CutOff(q)
    <3>1. req[q].pc \in Steps /\ Over(q)
      BY <2>9, <1>1 DEF Deliver, CutOff, InFlight, Steps, TypeOK, RequestType
    <3> QED BY <3>1, <1>1, <1>a, OverEffect
  <2> QED BY <1>5, <2>1, <2>2, <2>3, <2>4, <2>5, <2>6, <2>7, <2>8, <2>9 DEF Acts
<1> QED BY <1>1, <1>2, <1>3, <1>4, <1>5, NextCases

\* Every step keeps a session dead that was logged out of, but for earlier loads.
LEMMA NextLogoutInv ==
  ASSUME TypeOK, StageInv, SessionInv, LogoutInv, LogoutLasts, Next
  PROVE  LogoutInv' /\ LogoutLasts'
<1> USE ConstantsAssumption
\* What was logged out of before this step.
<1>1. ASSUME NEW s \in Ids, s \in flushed, s \in flushed', held'[s] = held[s]
      PROVE  /\ Holders(s)' \subseteq held'[s]
             /\ s \in Requests => req'[s].pc \in {"answer", "over"}
             /\ store'[s] = NoRecord
  <2>1. store[s] = NoRecord
    BY <1>1 DEF LogoutLasts
  <2>2. Holders(s)' \subseteq held'[s]
    BY <1>1, <2>1, HoldersGrow DEF LogoutInv
  <2>3. s \in Requests => req'[s].pc \in {"answer", "over"}
    BY <1>1, DoneStaysDone DEF LogoutInv
  <2>4. ASSUME NEW r \in Requests, Save(r), s = Saved(r) PROVE FALSE
    <3>1. req[r].pc = "save" /\ r \notin held[s]
      BY <1>1, <2>4 DEF Save, SaveTo
    <3>2. CASE req[r].session = None
      BY <1>1, <2>4, <3>1, <3>2 DEF Saved, LogoutInv
    <3>3. CASE req[r].session # None
      BY <1>1, <2>4, <3>1, <3>3 DEF Saved, LogoutInv, Holders
    <3> QED BY <3>2, <3>3
  <2>5. store'[s] = NoRecord
    BY <2>1, <2>4, StoreChanges
  <2> QED BY <2>2, <2>3, <2>5
\* What this step logs out of.
<1>2. ASSUME NEW r \in Requests, Flush(r), NEW s \in Ids, s = req[r].session
      PROVE  /\ Holders(s)' \subseteq held'[s]
             /\ s \in Requests => req'[s].pc \in {"answer", "over"}
             /\ store'[s] = NoRecord
  <2>1. req[r].pc = "flush" /\ store'[s] = NoRecord /\ held'[s] = Holders(s)
    BY <1>2 DEF Flush, LoggedOut, TypeOK
  <2>2. Moves(r) /\ req'[r].pc = "answer"
    BY <1>2, FlushEffect DEF GoesTo
  <2>3. Holders(s)' \subseteq Holders(s)
    BY <2>2 DEF Moves, Holders
  <2>4. s \in Requests => req[s].pc \in {"answer", "over"}
    <3>1. req[r].browser \in Browsers
      BY <2>1 DEF StageInv, Stage, Steps
    <3>2. Has(req[r].browser, s)
      BY <1>2 DEF Has
    <3> QED BY <3>1, <3>2 DEF SessionInv
  <2> QED BY <2>1, <2>3, <2>4, DoneStaysDone
<1>3. ASSUME NEW r \in Requests, Flush(r) PROVE LogoutInv' /\ LogoutLasts'
  <2>1. ASSUME NEW s \in flushed'
        PROVE  /\ Holders(s)' \subseteq held'[s]
               /\ s \in Requests => req'[s].pc \in {"answer", "over"}
               /\ store'[s] = NoRecord
    <3>1. s \in Ids
      BY NextTypeOK DEF TypeOK
    <3>2. CASE s = req[r].session
      BY <1>2, <1>3, <3>1, <3>2
    <3>3. CASE s # req[r].session
      <4>1. s \in flushed /\ held'[s] = held[s]
        BY <1>3, <3>1, <3>3 DEF Flush, LoggedOut, TypeOK
      <4> QED BY <1>1, <3>1, <4>1
    <3> QED BY <3>2, <3>3
  <2> QED BY <2>1 DEF LogoutInv, LogoutLasts
<1>4. CASE flushed' \subseteq flushed /\ held' = held
  <2>1. ASSUME NEW s \in flushed'
        PROVE  /\ Holders(s)' \subseteq held'[s]
               /\ s \in Requests => req'[s].pc \in {"answer", "over"}
               /\ store'[s] = NoRecord
    BY <1>1, <1>4 DEF TypeOK
  <2> QED BY <2>1 DEF LogoutInv, LogoutLasts
<1>5. ASSUME NEW r \in Requests, Save(r) PROVE LogoutInv' /\ LogoutLasts'
  <2>1. flushed' \subseteq flushed /\ held' = held
    BY <1>5 DEF Save, SaveTo
  <2> QED BY <1>4, <2>1
<1> QED
  BY <1>3, <1>4, <1>5 DEF Next, Begin, Check, Register, FindLogin, Load, Sweep, FindOwn,
     Drop, Change, InsertSubmission, Deliver, CutOff, Expire, history

-----------------------------------------------------------------------------
(* ToldInv: what a browser knows.                                          *)

\* A request in flight that was alone so far shares its browser with no other.
LEMMA AloneIsAlone ==
  ASSUME ToldInv, NEW q \in InFlight, NEW w \in InFlight, req[q].alone,
         req[w].browser = req[q].browser
  PROVE  w = q
BY DEF ToldInv, SameBrowser

\* A step of one request leaves the others in flight, or not, as they are.
LEMMA ActsInFlight ==
  ASSUME TypeOK, StageInv, NEW r \in Requests, Acts(r)
  PROVE  /\ r \in InFlight
         /\ \A q \in Requests \ {r} : (q \in InFlight') <=> (q \in InFlight)
         /\ \A q \in InFlight' :
              q \in InFlight /\ req'[q].browser = req[q].browser /\ req'[q].alone = req[q].alone
<1>1. Moves(r) /\ req'[r].browser = req[r].browser
  BY ActsMoves
<1>2. r \in InFlight
  BY <1>1 DEF Moves, InFlight, Steps
<1>3. ASSUME NEW q \in Requests \ {r} PROVE (q \in InFlight') <=> (q \in InFlight)
  BY <1>1 DEF Moves, InFlight
<1>4. ASSUME NEW q \in InFlight'
      PROVE  q \in InFlight /\ req'[q].browser = req[q].browser /\ req'[q].alone = req[q].alone
  <2>1. CASE q = r
    <3>1. GoesTo(r, Steps)
      BY <1>1, <2>1 DEF Moves, Ended, Idle, InFlight
    <3> QED BY <1>2, <2>1, <3>1 DEF GoesTo
  <2>2. CASE q # r
    BY <1>1, <1>3, <2>2 DEF Moves, InFlight
  <2> QED BY <2>1, <2>2
<1> QED BY <1>2, <1>3, <1>4

\* A request that is alone is the only one of its browser in flight.
LEMMA NextAlone ==
  ASSUME TypeOK, StageInv, ToldInv, Next,
         NEW q \in InFlight', NEW w \in InFlight', req'[q].alone,
         req'[w].browser = req'[q].browser
  PROVE  w = q
<1>1. ASSUME NEW r \in Requests, Begins(r) PROVE w = q
  <2>0. q \in Requests /\ w \in Requests
    BY DEF InFlight
  <2>1. ASSUME NEW v \in InFlight', v # r
        PROVE  /\ v \in InFlight /\ req'[v].browser = req[v].browser
               /\ req'[v].alone => req[v].alone /\ v \notin SameBrowser(req'[r].browser)
    <3>1. v \in Requests /\ req'[v].pc \notin {"idle", "over"}
      BY DEF InFlight
    <3>2. req'[v].pc = req[v].pc /\ req'[v].browser = req[v].browser
      BY <1>1, <2>1, <3>1, BeginsEffect
    <3>3. req'[v].alone = (req[v].alone /\ v \notin SameBrowser(req'[r].browser))
      BY <1>1, <2>1, <3>1, BeginsEffect
    <3> QED BY <3>1, <3>2, <3>3 DEF InFlight
  <2>2. CASE q = r /\ w # r
    <3>1. SameBrowser(req'[r].browser) = {}
      BY <1>1, <2>2, BeginsEffect
    <3>2. w \in InFlight /\ req[w].browser = req'[r].browser
      BY <2>1, <2>2
    <3> QED BY <3>1, <3>2 DEF SameBrowser
  <2>3. CASE q # r /\ w = r
    <3>1. q \in InFlight /\ q \notin SameBrowser(req'[r].browser) /\ req[q].browser = req'[r].browser
      BY <2>1, <2>3
    <3> QED BY <3>1 DEF SameBrowser
  <2>4. CASE q # r /\ w # r
    BY <2>1, <2>4, AloneIsAlone
  <2> QED BY <2>2, <2>3, <2>4
<1>2. ASSUME NEW r \in Requests, Acts(r) PROVE w = q
  BY <1>2, ActsInFlight, AloneIsAlone
<1>3. ASSUME NEW s \in Ids, Expire(s) PROVE w = q
  BY <1>3, AloneIsAlone DEF Expire, InFlight
<1> QED BY <1>1, <1>2, <1>3, NextCases

\* Who writes the record of a session is a request of the browser that has it.
LEMMA WritesItsOwn ==
  ASSUME TypeOK, StageInv, SessionInv, NEW b \in Browsers, NEW s \in Ids, Has(b, s),
         NEW r \in Requests,
         \/ Save(r) /\ s = Saved(r)
         \/ (Sweep(r) \/ Flush(r)) /\ s = req[r].session
  PROVE  req[r].browser = b /\ req[r].session = s
<1>1. req[r].pc \in {"save", "sweep", "flush"}
  BY DEF Save, SaveTo, Sweep, Flush
<1>2. req[r].browser \in Browsers
  BY <1>1 DEF StageInv, Stage, Steps
<1>3. req[r].session = s
  <2>1. s \in Requests => req[s].pc \in {"answer", "over"}
    BY DEF SessionInv
  <2> QED BY <1>1, <2>1 DEF Saved
<1>4. Has(req[r].browser, s)
  BY <1>3 DEF Has
<1> QED BY <1>2, <1>3, <1>4 DEF SessionInv

\* A request about to be answered with a session has the account of its record.
LEMMA NextAnswer ==
  ASSUME TypeOK, StageInv, SessionInv, ToldInv, Next,
         NEW q \in Requests, req'[q].pc = "answer", req'[q].alone, req'[q].set # None
  PROVE  store'[req'[q].set].user = req'[q].user
<1> USE ConstantsAssumption
<1>0. TypeOK' /\ StageInv' /\ req'[q].set \in Ids
  <2>1. TypeOK' /\ StageInv'
    BY NextTypeOK, NextStageInv
  <2> QED BY <2>1 DEF TypeOK, RequestType, StageInv, Stage
<1>1. CASE Save(q)
  <2>1. store'[Saved(q)] = Record(req[q].user)
    BY <1>1, SaveEffect DEF Save, SaveTo, TypeOK
  <2> QED BY <1>1, <2>1, SaveEffect DEF Record, KeepsUser
<1>2. CASE Acts(q) /\ ~Save(q)
  <2>1. req[q].pc \in Steps \ {"answer"}
    <3>1. ~Ended(q)
      BY EndedIsOver
    <3>2. req[q].pc \in Steps
      BY <1>2, ActsMoves DEF Moves
    <3> QED BY <1>2, <3>1, <3>2, ActsMoves
  <2>2. req[q].set = Keep
    BY <2>1 DEF StageInv, Stage
  <2>3. req'[q].set \in {req[q].set, None, Keep}
    BY <1>2, ActsMoves
  <2> QED BY <1>0, <2>2, <2>3
<1>3. CASE /\ req[q].pc = "answer" /\ req'[q].set = req[q].set
           /\ req'[q].user = req[q].user /\ req[q].alone
  <2> DEFINE s == req[q].set
  <2>1. store[s].user = req[q].user /\ s \in Ids
    BY <1>0, <1>3 DEF ToldInv
  <2>2. q \in InFlight /\ req[q].browser \in Browsers
    BY <1>3 DEF InFlight, StageInv, Stage, Steps
  <2>3. Has(req[q].browser, s)
    BY DEF Has
  <2>4. ASSUME NEW r \in Requests,
               \/ Save(r) /\ s = Saved(r)
               \/ (Sweep(r) \/ Flush(r)) /\ s = req[r].session
        PROVE  FALSE
    <3>1. req[r].browser = req[q].browser
      BY <2>1, <2>2, <2>3, <2>4, WritesItsOwn
    <3>2. r \in InFlight /\ r # q
      BY <2>4, <1>3 DEF Save, SaveTo, Sweep, Flush, InFlight
    <3> QED BY <2>2, <3>1, <3>2, <1>3, AloneIsAlone
  <2>5. store'[s].user = store[s].user
    BY <2>1, <2>4, StoreChanges
  <2> QED BY <1>3, <2>1, <2>5
<1>4. ASSUME NEW r \in Requests, Begins(r) PROVE store'[req'[q].set].user = req'[q].user
  <2>1. q # r
    BY <1>4, BeginsEffect
  <2> QED BY <1>3, <1>4, <2>1, BeginsEffect DEF KeepsSet, KeepsUser
<1>5. ASSUME NEW r \in Requests, Acts(r), r # q
      PROVE  store'[req'[q].set].user = req'[q].user
  BY <1>3, <1>5, ActsMoves DEF Moves
<1>6. ASSUME NEW u \in Ids, Expire(u) PROVE store'[req'[q].set].user = req'[q].user
  BY <1>3, <1>6 DEF Expire
<1> QED BY <1>1, <1>2, <1>4, <1>5, <1>6, NextCases

\* A browser that is sure was told the truth or is about to be.
LEMMA NextTold ==
  ASSUME TypeOK, StageInv, SessionInv, ToldInv, Next, NEW b \in Browsers, b \notin unsure'
  PROVE  \/ told'[b] = LoggedInTo(b)'
         \/ \E r \in SameBrowser(b)' : req'[r].pc \in {"save", "answer"}
<1> USE ConstantsAssumption
<1> DEFINE Due  == \E r \in SameBrowser(b)' : req'[r].pc \in {"save", "answer"}
           Goal == told'[b] = LoggedInTo(b)' \/ Due
<1>a. ASSUME NEW r \in Requests, req'[r].browser = b, req'[r].pc \in {"save", "answer"}
      PROVE  Due
  BY <1>a DEF SameBrowser, InFlight
<1>1. ASSUME NEW r \in Requests, Deliver(r), req[r].browser = b PROVE Goal
  <2>1. /\ req[r].pc = "answer" /\ req[r].alone /\ store' = store
        /\ cookie'[b] = req[r].set
        /\ told'[b] = IF req[r].set = None THEN None ELSE req[r].user
    BY <1>1 DEF Deliver, TypeOK
  <2>2. req[r].set # None => store[req[r].set].user = req[r].user
    BY <2>1 DEF ToldInv
  <2> QED BY <2>1, <2>2 DEF LoggedInTo
<1>2. CASE /\ told'[b] = told[b] /\ cookie'[b] = cookie[b] /\ b \notin unsure
           /\ \A r \in Requests : req[r].browser = b => ~Deliver(r) /\ ~CutOff(r)
  <2>1. CASE told[b] = LoggedInTo(b) /\ cookie[b] = None
    BY <1>2, <2>1 DEF LoggedInTo
  <2>2. CASE told[b] = LoggedInTo(b) /\ cookie[b] # None
    <3> DEFINE s == cookie[b]
    <3>1. s \in Ids /\ Has(b, s)
      BY <2>2 DEF TypeOK, Has
    <3>2. CASE store'[s].user = store[s].user
      BY <1>2, <2>2, <3>2 DEF LoggedInTo
    <3>3. ASSUME NEW r \in Requests,
                 \/ Save(r) /\ s = Saved(r)
                 \/ (Sweep(r) \/ Flush(r)) /\ s = req[r].session
          PROVE  Due
      <4>1. req[r].browser = b /\ req[r].session # None
        BY <3>1, <3>3, WritesItsOwn
      <4>2. req'[r].browser = b
        BY <3>3, <4>1, ActsMoves DEF Acts
      <4>3. CASE Save(r)
        BY <4>2, <4>3, <1>a, SaveEffect DEF GoesTo
      <4>4. CASE Sweep(r)
        <5>1. req[r].pc \in Steps /\ WithoutRecord(r)
          BY <4>4 DEF Sweep, Steps
        <5> QED BY <4>1, <4>2, <5>1, <1>a, WithoutRecordEffect DEF GoesTo
      <4>5. CASE Flush(r)
        BY <4>1, <4>2, <4>5, <1>a, FlushEffect DEF GoesTo
      <4> QED BY <3>3, <4>3, <4>4, <4>5
    <3> QED BY <3>1, <3>2, <3>3, StoreChanges
  <2>3. ASSUME NEW w \in SameBrowser(b), req[w].pc \in {"save", "answer"} PROVE Due
    <3>1. w \in Requests /\ req[w].browser = b
      BY <2>3 DEF SameBrowser, InFlight
    <3>2. ASSUME NEW r \in Requests, Begins(r) PROVE Due
      BY <2>3, <3>1, <3>2, <1>a, BeginsEffect
    <3>3. ASSUME NEW r \in Requests, Acts(r), r # w PROVE Due
      BY <2>3, <3>1, <3>3, <1>a, ActsMoves DEF Moves
    <3>4. ASSUME NEW u \in Ids, Expire(u) PROVE Due
      BY <2>3, <3>1, <3>4, <1>a DEF Expire
    <3>5. ASSUME Acts(w) PROVE Due
      <4>1. Save(w)
        BY <1>2, <2>3, <3>1, <3>5 DEF Acts, Check, Register, FindLogin, Load, Sweep, Flush,
           FindOwn, Drop, Change, InsertSubmission
      <4> QED BY <3>1, <4>1, <1>a, ActsMoves, SaveEffect DEF GoesTo, Acts
    <3> QED BY <3>2, <3>3, <3>4, <3>5, NextCases
  <2> QED BY <1>2, <2>1, <2>2, <2>3 DEF ToldInv
<1>3. CASE told'[b] = told[b] /\ cookie'[b] = cookie[b] /\ b \notin unsure
  <2>1. ASSUME NEW r \in Requests, req[r].browser = b PROVE ~CutOff(r)
    BY <2>1 DEF CutOff
  <2> QED BY <1>1, <1>2, <1>3, <2>1
<1>4. ASSUME NEW r \in Requests, Deliver(r), req[r].browser # b PROVE Goal
  <2>1. told'[b] = told[b] /\ cookie'[b] = cookie[b] /\ b \notin unsure
    BY <1>4 DEF Deliver, TypeOK
  <2> QED BY <1>3, <2>1
<1>5. ASSUME NEW r \in Requests, CutOff(r) PROVE Goal
  <2>1. told' = told /\ cookie' = cookie /\ b \notin unsure
    BY <1>5 DEF CutOff
  <2> QED BY <1>3, <2>1
<1> QED
  BY <1>1, <1>3, <1>4, <1>5 DEF Next, Begin, Check, Register, FindLogin, Load, Sweep, Save,
     SaveTo, Flush, FindOwn, Drop, Change, InsertSubmission, Expire, history

\* Every step keeps true what a browser was told.
LEMMA NextToldInv ==
  ASSUME TypeOK, StageInv, SessionInv, ToldInv, Next
  PROVE  ToldInv'
<1>1. ASSUME NEW r \in InFlight', req'[r].alone
      PROVE  \A q \in InFlight' : req'[q].browser = req'[r].browser <=> q = r
  BY <1>1, NextAlone
<1>2. \A r \in InFlight' : req'[r].alone => SameBrowser(req[r].browser)' = {r}
  BY <1>1 DEF SameBrowser
<1>3. \A b \in (Browsers \ unsure)' :
        \/ told'[b] = LoggedInTo(b)'
        \/ \E r \in SameBrowser(b)' : req'[r].pc \in {"save", "answer"}
  BY NextTold
<1>4. \A r \in Requests : req'[r].pc = "answer" /\ req'[r].alone /\ req'[r].set # None =>
        store'[req'[r].set].user = req'[r].user
  BY NextAnswer
<1> QED BY <1>2, <1>3, <1>4 DEF ToldInv

\* What a browser knows is the truth while none of its requests is in flight.
LEMMA ToldInvToldIsTrue ==
  ASSUME ToldInv
  PROVE  ToldIsTrue
BY DEF ToldInv, ToldIsTrue

-----------------------------------------------------------------------------
\* The inductive invariant: what every state satisfies, whatever the requests,
\* the browsers, the names and the passwords, and however the statements of the
\* requests in flight interleave.
THEOREM InductiveInvariant == Spec => []IInv
<1>1. IInv /\ [Next]_vars => IInv'
  <2> SUFFICES ASSUME IInv, [Next]_vars PROVE IInv'
    OBVIOUS
  <2>1. CASE Next
    <3>1. TypeOK /\ StageInv /\ SessionInv /\ ProvenInv /\ ToldInv /\ LogoutInv
          /\ ActsOnlyAsProven /\ OneAccountPerName /\ LogoutLasts
      BY DEF IInv
    <3> QED
      BY <2>1, <3>1, NextTypeOK, NextStageInv, NextSessionInv, NextProvenInv, NextToldInv,
         NextLogoutInv, NextActsOnlyAsProven, NextOneAccountPerName DEF IInv
  <2>2. CASE UNCHANGED vars
    <3> USE <2>2 DEF vars
    <3>1. TypeOK' /\ StageInv'
      BY DEF IInv, TypeOK, StageInv, Stage, KnowsUser
    <3>2. SessionInv' /\ ProvenInv'
      BY DEF IInv, SessionInv, ProvenInv, Has, KnowsUser
    <3>3. ToldInv'
      BY DEF IInv, ToldInv, InFlight, SameBrowser, LoggedInTo
    <3>4. LogoutInv' /\ LogoutLasts' /\ OneAccountPerName'
      BY DEF IInv, LogoutInv, Holders, LogoutLasts, OneAccountPerName
    <3>5. ActsOnlyAsProven'
      BY DEF IInv, ActsOnlyAsProven, CurrentUser, FindById
    <3> QED BY <3>1, <3>2, <3>3, <3>4, <3>5 DEF IInv
  <2> QED BY <2>1, <2>2
<1> QED BY <1>1, InitIInv, PTL DEF Spec

\* Nobody is taken for a user whose password they did not give: neither the
\* account a browser's next request acts for (current_username), nor the one a
\* request in flight will change or delete, nor the owner of a submission.
THEOREM NoImpersonation == Spec => []ActsOnlyAsProven
BY InductiveInvariant, PTL DEF IInv

\* However registrations of a name overlap, one account at most has it.
THEOREM NamesAreUnique == Spec => []OneAccountPerName
BY InductiveInvariant, PTL DEF IInv

\* A browser that is sure of its last answer is logged in as it was told.
THEOREM AnswersAreTrue == Spec => []ToldIsTrue
BY InductiveInvariant, ToldInvToldIsTrue, PTL DEF IInv

\* A session that was logged out of comes back only through a request that had
\* loaded it before.
THEOREM LogoutIsFinal == Spec => []LogoutLasts
BY InductiveInvariant, PTL DEF IInv

===============================================================================
