------------------------------ MODULE SubmitGate ------------------------------
(***************************************************************************)
(* What a request to submit has to pass before its job is queued: the size *)
(* limit, and the cooldown kept in the session of the browser.             *)
(*                                                                         *)
(* src/src/api/handlers.rs (contest_problem_submit, problems_submit,       *)
(* api_submit, check_submit_cooldown, record_submit_time),                 *)
(* src/src/session_store.rs (load, save).                                  *)
(*                                                                         *)
(* One session, several requests of it at a time.  The session layer loads *)
(* the whole record for a request at its first get, and stores the whole   *)
(* record when the response is ready, if the request changed it and the    *)
(* response is not a server error: in between a request works on its copy. *)
(* A clock tick is what the cooldowns are counted in; the clock only moves *)
(* forward.                                                                *)
(***************************************************************************)
EXTENDS Naturals, FiniteSets

CONSTANTS
  Requests,
  Kinds,              \* the routes the requests may take
  ExactCooldown,      \* 5 seconds
  HeuristicCooldown,  \* 5 minutes
  MaxOpen,            \* requests in flight at a time
  MaxTime             \* the last reading of the clock (bound)

AllKinds   == {"exact", "heuristic", "practice", "api"}
Gated      == {"exact", "heuristic"}
Keys       == {"last_submit_at", "last_heuristic_submit_at"}

ASSUME ConstantsAssumption ==
  /\ Kinds \subseteq AllKinds
  /\ ExactCooldown \in Nat \ {0}
  /\ HeuristicCooldown \in Nat \ {0}
  /\ HeuristicCooldown >= ExactCooldown
  /\ MaxTime \in Nat
  /\ MaxTime >= HeuristicCooldown

VARIABLES
  now,      \* the clock
  stored,   \* the times in the row of the session
  pc,       \* where a request is
  kind,     \* its route
  big,      \* its source is over the limit
  record,   \* its copy of the times
  created,  \* when its submission was inserted, 0 if it was not
  queued,   \* the requests whose job was sent
  answer,   \* what it was told
  decided,  \* history: when it was refused for the cooldown
  saved,    \* history: the requests whose copy reached the row
  seen      \* history: those of them whose copy a request's load came after

vars == <<now, stored, pc, kind, big, record, created, queued, answer, decided,
          saved, seen>>

\* Mutant of Key: one key for both kinds of contest.
SharedKey(k) == "last_submit_at"

Key(k) == IF k = "heuristic" THEN "last_heuristic_submit_at" ELSE "last_submit_at"

Cooldown(k) == IF k = "heuristic" THEN HeuristicCooldown ELSE ExactCooldown

InFlight == {r \in Requests : pc[r] \notin {"idle", "over"}}

-----------------------------------------------------------------------------
\* A time that was never recorded reads as 0, long before any request.
Init ==
  /\ now = HeuristicCooldown
  /\ stored = [k \in Keys |-> 0]
  /\ pc = [r \in Requests |-> "idle"]
  /\ kind \in [Requests -> Kinds]
  /\ big \in [Requests -> BOOLEAN]
  /\ record = [r \in Requests |-> [k \in Keys |-> 0]]
  /\ created = [r \in Requests |-> 0]
  /\ queued = {}
  /\ answer = [r \in Requests |-> "none"]
  /\ decided = [r \in Requests |-> 0]
  /\ saved = {}
  /\ seen = [r \in Requests |-> {}]

Tick ==
  /\ now < MaxTime
  /\ now' = now + 1
  /\ UNCHANGED <<stored, pc, kind, big, record, created, queued, answer, decided,
                 saved, seen>>

\* session.get("user_id") loads the record.
Load(r) ==
  /\ pc[r] = "idle"
  /\ Cardinality(InFlight) < MaxOpen
  /\ pc' = [pc EXCEPT ![r] = "loaded"]
  /\ record' = [record EXCEPT ![r] = stored]
  /\ seen' = [seen EXCEPT ![r] = saved]
  /\ UNCHANGED <<now, stored, kind, big, created, queued, answer, decided, saved>>

Answered(r, what) ==
  /\ pc' = [pc EXCEPT ![r] = "over"]
  /\ answer' = [answer EXCEPT ![r] = what]

TooLarge(r) == kind[r] # "practice" /\ big[r]

\* Mutant of TooSoon: the cooldown of the other key's kind.
TooSoonByRoute(r) ==
  kind[r] \in Gated /\ now - record[r][Key(kind[r])] < HeuristicCooldown

TooSoon(r) ==
  kind[r] \in Gated /\ now - record[r][Key(kind[r])] < Cooldown(kind[r])

\* The checks, in their order, once the contest is read: unknown or upcoming
\* contest, size, cooldown, unreadable problem.
Check(r) ==
  /\ pc[r] = "loaded"
  /\ \/ Answered(r, "other") /\ UNCHANGED decided
     \/ TooLarge(r) /\ Answered(r, "too_large") /\ UNCHANGED decided
     \/ /\ ~TooLarge(r) /\ TooSoon(r)
        /\ Answered(r, "too_soon")
        /\ decided' = [decided EXCEPT ![r] = now]
     \/ /\ ~TooLarge(r) /\ ~TooSoon(r)
        /\ pc' = [pc EXCEPT ![r] = "checked"]
        /\ UNCHANGED <<answer, decided>>
  /\ UNCHANGED <<now, stored, kind, big, record, created, queued, saved, seen>>

\* create_submission
Insert(r) ==
  /\ pc[r] = "checked"
  /\ created' = [created EXCEPT ![r] = now]
  /\ pc' = [pc EXCEPT ![r] = IF kind[r] \in Gated THEN "inserted" ELSE "stamped"]
  /\ UNCHANGED <<now, stored, kind, big, record, queued, answer, decided, saved,
                 seen>>

Stamped(r, key, time) == [record EXCEPT ![r][key] = time]

\* Mutant of Stamp: the time the next submission is allowed at.
StampDeadline(r) ==
  /\ pc[r] = "inserted"
  /\ record' = Stamped(r, Key(kind[r]), now + Cooldown(kind[r]))
  /\ pc' = [pc EXCEPT ![r] = "stamped"]
  /\ UNCHANGED <<now, stored, kind, big, created, queued, answer, decided, saved,
                 seen>>

\* Mutant of Stamp: always under the key of the exact contests.
StampExact(r) ==
  /\ pc[r] = "inserted"
  /\ record' = Stamped(r, "last_submit_at", now)
  /\ pc' = [pc EXCEPT ![r] = "stamped"]
  /\ UNCHANGED <<now, stored, kind, big, created, queued, answer, decided, saved,
                 seen>>

\* record_submit_time: into the copy.
Stamp(r) ==
  /\ pc[r] = "inserted"
  /\ record' = Stamped(r, Key(kind[r]), now)
  /\ pc' = [pc EXCEPT ![r] = "stamped"]
  /\ UNCHANGED <<now, stored, kind, big, created, queued, answer, decided, saved,
                 seen>>

\* job_tx.send
Send(r) ==
  /\ pc[r] = "stamped"
  /\ queued' = queued \cup {r}
  /\ pc' = [pc EXCEPT ![r] = "sent"]
  /\ UNCHANGED <<now, stored, kind, big, record, created, answer, decided, saved,
                 seen>>

\* The copy of a request that changed it becomes the row.
Save(r) ==
  IF kind[r] \in Gated
  THEN stored' = record[r] /\ saved' = saved \cup {r}
  ELSE UNCHANGED <<stored, saved>>

Respond(r) ==
  /\ pc[r] = "sent"
  /\ Save(r)
  /\ Answered(r, "submitted")
  /\ UNCHANGED <<now, kind, big, record, created, queued, decided, seen>>

\* A statement or the send fails, or the client is gone and the handler is
\* dropped: what the step was about to do may have been done.
CutOff(r) ==
  /\ pc[r] \in {"checked", "stamped", "sent"}
  /\ \/ UNCHANGED <<created, stored, saved>>
     \/ /\ pc[r] = "checked"
        /\ created' = [created EXCEPT ![r] = now]
        /\ UNCHANGED <<stored, saved>>
     \/ pc[r] = "sent" /\ Save(r) /\ UNCHANGED created
  /\ Answered(r, "other")
  /\ UNCHANGED <<now, kind, big, record, queued, decided, seen>>

Next ==
  \/ Tick
  \/ \E r \in Requests :
       Load(r) \/ Check(r) \/ Insert(r) \/ Stamp(r) \/ Send(r) \/ Respond(r)
         \/ CutOff(r)

Spec == Init /\ [][Next]_vars

-----------------------------------------------------------------------------
Times == 0..MaxTime

TypeOK ==
  /\ now \in HeuristicCooldown..MaxTime
  /\ stored \in [Keys -> Times]
  /\ pc \in [Requests ->
       {"idle", "loaded", "checked", "inserted", "stamped", "sent", "over"}]
  /\ kind \in [Requests -> Kinds]
  /\ big \in [Requests -> BOOLEAN]
  /\ record \in [Requests -> [Keys -> Times]]
  /\ created \in [Requests -> Times]
  /\ queued \subseteq Requests
  /\ answer \in [Requests ->
       {"none", "submitted", "too_soon", "too_large", "other"}]
  /\ decided \in [Requests -> Times]
  /\ saved \subseteq Requests
  /\ seen \in [Requests -> SUBSET Requests]

\* The time a request recorded in its copy.
Stamp0(r) == record[r][Key(kind[r])]

Overlap(q, r) == q \notin seen[r] /\ r \notin seen[q]

\* Of the copies in `past`, r's is there and no other was made while r had its
\* own out.
Undisturbed(r, past) ==
  r \in past /\ \A q \in past : q = r \/ ~Overlap(q, r)

-----------------------------------------------------------------------------
(* The inductive invariant.                                                *)

BeforeInsert == {"idle", "loaded", "checked"}

\* Who has recorded its time, and that no time lies ahead of the clock.
ProgressInv ==
  /\ \A r \in Requests :
       /\ answer[r] # "none" => pc[r] = "over"
       /\ pc[r] \in BeforeInsert => created[r] = 0
       /\ pc[r] \in {"inserted", "stamped", "sent"} => created[r] # 0
       /\ pc[r] = "inserted" => kind[r] \in Gated
       /\ pc[r] \in {"stamped", "sent"} /\ kind[r] \in Gated =>
            created[r] <= Stamp0(r) /\ Stamp0(r) # 0
       /\ created[r] <= now
       /\ \A k \in Keys : record[r][k] <= now
  /\ \A k \in Keys : stored[k] <= now

\* A copy that was saved is a finished one, and is seen by later loads only.
SavedInv ==
  /\ \A r \in saved :
       /\ pc[r] = "over" /\ kind[r] \in Gated
       /\ created[r] # 0 /\ created[r] <= Stamp0(r)
  /\ \A r \in Requests :
       /\ seen[r] \subseteq saved
       /\ r \notin seen[r]
       /\ pc[r] = "idle" => seen[r] = {}

\* A time recorded by an undisturbed request is not overwritten by an older one.
NoLostStamp ==
  /\ \A r \in Requests :
       Undisturbed(r, saved) => Stamp0(r) <= stored[Key(kind[r])]
  /\ \A r, s \in Requests :
       Undisturbed(r, seen[s]) => Stamp0(r) <= record[s][Key(kind[r])]

\* A request that passed the check is a cooldown away from those.
CheckedInv ==
  \A r, s \in Requests :
    /\ pc[s] = "checked" /\ kind[r] \in Gated /\ kind[s] = kind[r]
    /\ Undisturbed(r, seen[s])
    => Stamp0(r) + Cooldown(kind[r]) <= now

RecordedBy(r, k, time) ==
  r \in saved /\ Key(kind[r]) = k /\ Stamp0(r) = time

\* No time comes from nowhere.
StampsHaveOwners ==
  /\ \A k \in Keys :
       stored[k] # 0 => \E r \in Requests : RecordedBy(r, k, stored[k])
  /\ \A s \in Requests, k \in Keys :
       record[s][k] # 0 =>
         \/ \E r \in Requests : RecordedBy(r, k, record[s][k])
         \/ k = Key(kind[s]) /\ pc[s] \in {"stamped", "sent", "over"}

-----------------------------------------------------------------------------
\* The cooldown holds between submissions whose requests did not overlap: if
\* the session of r was stored before the request s loaded it, and no third
\* request had read the session before r stored it and stored it after r
\* read it, then s comes a cooldown after r or not at all.
IntervalUnlessOverlap ==
  \A r, s \in Requests :
    /\ created[s] # 0 /\ kind[r] \in Gated /\ kind[s] = kind[r]
    /\ Undisturbed(r, seen[s])
    => created[s] >= created[r] + Cooldown(kind[r])

\* Nobody is asked to wait for nothing: behind every refusal is a submission
\* of the same kind that this session made, and recorded within the cooldown.
RefusalIsJustified ==
  \A s \in Requests :
    answer[s] = "too_soon" =>
      \E r \in saved \ {s} :
        /\ kind[r] = kind[s]
        /\ created[r] # 0 /\ created[r] <= Stamp0(r)
        /\ decided[s] < Stamp0(r) + Cooldown(kind[s])

IInv ==
  /\ TypeOK /\ ProgressInv /\ SavedInv /\ NoLostStamp /\ CheckedInv
  /\ StampsHaveOwners /\ IntervalUnlessOverlap /\ RefusalIsJustified
===============================================================================
