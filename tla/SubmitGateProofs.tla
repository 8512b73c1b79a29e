--------------------------- MODULE SubmitGateProofs ---------------------------
(***************************************************************************)
(* Proofs about SubmitGate: the cooldown separates the submissions of      *)
(* requests that did not overlap, and every refusal has its reason.        *)
(***************************************************************************)
EXTENDS SubmitGate, TLAPS

\* A recorded time is read from one of two keys.
LEMMA KeyType == \A k \in Kinds : Key(k) \in Keys
BY DEF Key, Keys

\* Among the routes with a cooldown the key tells the kind of the contest.
LEMMA KeyOfGated ==
  \A j, k \in Gated : Key(j) = Key(k) => j = k
BY DEF Key, Gated

\* A cooldown is a positive number, at most the five minutes.
LEMMA CooldownType ==
  \A k : Cooldown(k) \in Nat \ {0} /\ Cooldown(k) <= HeuristicCooldown
BY ConstantsAssumption DEF Cooldown

\* The invariant holds before the first request.
LEMMA InitIInv == Init => IInv
<1> SUFFICES ASSUME Init PROVE IInv
  OBVIOUS
<1> USE ConstantsAssumption DEF Init
<1>1. TypeOK
  BY DEF TypeOK, Times
<1>2. ProgressInv
  BY DEF ProgressInv, BeforeInsert
<1>3. SavedInv
  BY DEF SavedInv
<1>4. NoLostStamp /\ CheckedInv /\ IntervalUnlessOverlap
  BY DEF NoLostStamp, CheckedInv, IntervalUnlessOverlap, Undisturbed
<1>5. StampsHaveOwners
  BY DEF StampsHaveOwners
<1>6. RefusalIsJustified
  BY DEF RefusalIsJustified
<1> QED BY <1>1, <1>2, <1>3, <1>4, <1>5, <1>6 DEF IInv

\* Every step keeps the types.
LEMMA NextTypeOK == TypeOK /\ [Next]_vars => TypeOK'
<1> SUFFICES ASSUME TypeOK, [Next]_vars PROVE TypeOK'
  OBVIOUS
<1> USE ConstantsAssumption, KeyType DEF TypeOK, Times
<1>1. CASE Tick
  BY <1>1 DEF Tick
<1>2. CASE \E r \in Requests : Load(r)
  BY <1>2 DEF Load
<1>3. CASE \E r \in Requests : Check(r)
  <2> PICK r \in Requests : Check(r)
    BY <1>3
  <2>1. /\ pc' = [pc EXCEPT ![r] = "over"] \/ pc' = [pc EXCEPT ![r] = "checked"]
        /\ \/ UNCHANGED answer
           \/ \E what \in {"other", "too_large", "too_soon"} :
                answer' = [answer EXCEPT ![r] = what]
        /\ decided' = decided \/ decided' = [decided EXCEPT ![r] = now]
    BY DEF Check, Answered
  <2>2. UNCHANGED <<now, stored, kind, big, record, created, queued, saved, seen>>
    BY DEF Check
  <2>3. now \in 0..MaxTime
    OBVIOUS
  <2>4. decided' \in [Requests -> 0..MaxTime]
    BY <2>1, <2>3
  <2>5. /\ pc' \in [Requests -> {"idle", "loaded", "checked", "inserted",
                                 "stamped", "sent", "over"}]
        /\ answer' \in [Requests -> {"none", "submitted", "too_soon",
                                     "too_large", "other"}]
    BY <2>1
  <2>6. TypeOK
    OBVIOUS
  <2> HIDE DEF TypeOK
  <2> QED BY <2>2, <2>4, <2>5, <2>6 DEF TypeOK
<1>4. CASE \E r \in Requests : Insert(r)
  BY <1>4 DEF Insert
<1>5. CASE \E r \in Requests : Stamp(r)
  <2> PICK r \in Requests : Stamp(r)
    BY <1>5
  <2>1. /\ Key(kind[r]) \in Keys
        /\ record' = [record EXCEPT ![r][Key(kind[r])] = now]
    BY DEF Stamp, Stamped
  <2>2. record' \in [Requests -> [Keys -> 0..MaxTime]]
    BY <2>1
  <2> QED BY <2>2 DEF Stamp
<1>6. CASE \E r \in Requests : Send(r)
  BY <1>6 DEF Send
<1>7. CASE \E r \in Requests : Respond(r)
  BY <1>7 DEF Respond, Answered, Save
<1>8. CASE \E r \in Requests : CutOff(r)
  BY <1>8 DEF CutOff, Answered, Save
<1>9. CASE UNCHANGED vars
  BY <1>9 DEF vars
<1> QED BY <1>1, <1>2, <1>3, <1>4, <1>5, <1>6, <1>7, <1>8, <1>9 DEF Next

-----------------------------------------------------------------------------
(* What a step leaves alone.                                               *)

\* A step changes one request at most, and never one that is over.
LEMMA OverStays ==
  ASSUME TypeOK, [Next]_vars, NEW r \in Requests, pc[r] = "over"
  PROVE  /\ pc'[r] = "over"
         /\ record'[r] = record[r] /\ created'[r] = created[r]
         /\ seen'[r] = seen[r] /\ answer'[r] = answer[r]
<1> USE DEF TypeOK
<1>1. CASE Tick
  BY <1>1 DEF Tick
<1>2. ASSUME NEW q \in Requests, Load(q) PROVE r # q /\ UNCHANGED <<created, answer>>
  BY <1>2 DEF Load
<1>3. CASE \E q \in Requests : Load(q)
  BY <1>2, <1>3 DEF Load
<1>4. CASE \E q \in Requests : Check(q)
  BY <1>4 DEF Check, Answered
<1>5. CASE \E q \in Requests : Insert(q)
  BY <1>5 DEF Insert
<1>6. CASE \E q \in Requests : Stamp(q)
  BY <1>6 DEF Stamp, Stamped
<1>7. CASE \E q \in Requests : Send(q)
  BY <1>7 DEF Send
<1>8. CASE \E q \in Requests : Respond(q)
  BY <1>8 DEF Respond, Answered
<1>9. CASE \E q \in Requests : CutOff(q)
  BY <1>9 DEF CutOff, Answered
<1>10. CASE UNCHANGED vars
  BY <1>10 DEF vars
<1> QED BY <1>1, <1>3, <1>4, <1>5, <1>6, <1>7, <1>8, <1>9, <1>10 DEF Next

\* A request keeps its route, the clock does not go back and nothing saved is
\* forgotten.
LEMMA Monotone ==
  ASSUME TypeOK, [Next]_vars
  PROVE  kind' = kind /\ now <= now' /\ saved \subseteq saved'
<1>1. now \in Nat
  BY ConstantsAssumption DEF TypeOK
<1> QED
  BY <1>1 DEF Next, vars, Tick, Load, Check, Insert, Stamp, Send, Respond, CutOff,
              Save

\* So what is known of the copies saved so far stays known.
LEMMA SavedStays ==
  ASSUME TypeOK, SavedInv, [Next]_vars
  PROVE  /\ \A r \in saved : Stamp0(r)' = Stamp0(r) /\ created'[r] = created[r]
         /\ \A r \in saved, past \in SUBSET saved :
              Undisturbed(r, past)' <=> Undisturbed(r, past)
<1>1. saved \subseteq Requests /\ kind' = kind
  BY Monotone DEF TypeOK
<1>2. \A r \in saved : /\ record'[r] = record[r] /\ created'[r] = created[r]
                      /\ seen'[r] = seen[r]
  BY <1>1, OverStays DEF SavedInv
<1>3. \A r \in saved : Stamp0(r)' = Stamp0(r)
  BY <1>1, <1>2 DEF Stamp0
<1>4. ASSUME NEW r \in saved, NEW past \in SUBSET saved
      PROVE  Undisturbed(r, past)' <=> Undisturbed(r, past)
  BY <1>2 DEF Undisturbed, Overlap
<1> QED BY <1>2, <1>3, <1>4

-----------------------------------------------------------------------------
(* One lemma per part of the invariant.                                    *)

\* Every step keeps the order of a request's own times.
LEMMA NextProgress ==
  ASSUME TypeOK, ProgressInv, [Next]_vars, TypeOK' PROVE ProgressInv'
<1>1. now \in Nat /\ now' \in Nat /\ now # 0
  BY ConstantsAssumption DEF TypeOK
<1> USE <1>1 DEF TypeOK, ProgressInv, BeforeInsert, Stamp0
<1>2. CASE Tick
  BY <1>2 DEF Tick, Times
<1>3. CASE \E q \in Requests : Load(q)
  BY <1>3 DEF Load
<1>4. CASE \E q \in Requests : Check(q)
  BY <1>4 DEF Check, Answered
<1>5. CASE \E q \in Requests : Insert(q)
  BY <1>5 DEF Insert
<1>6. CASE \E q \in Requests : Stamp(q)
  BY <1>6, KeyType DEF Stamp, Stamped
<1>7. CASE \E q \in Requests : Send(q)
  BY <1>7 DEF Send
<1>8. CASE \E q \in Requests : Respond(q)
  BY <1>8 DEF Respond, Answered, Save
<1>9. CASE \E q \in Requests : CutOff(q)
  BY <1>9 DEF CutOff, Answered, Save
<1>10. CASE UNCHANGED vars
  BY <1>10 DEF vars
<1> QED BY <1>2, <1>3, <1>4, <1>5, <1>6, <1>7, <1>8, <1>9, <1>10 DEF Next

\* Only a finished request with its time recorded is saved.
LEMMA NextSaved ==
  ASSUME TypeOK, ProgressInv, SavedInv, [Next]_vars, TypeOK' PROVE SavedInv'
<1>1. \A r \in saved : /\ pc'[r] = "over" /\ kind'[r] \in Gated
                      /\ created'[r] # 0 /\ created'[r] <= Stamp0(r)'
  BY OverStays, SavedStays, Monotone DEF SavedInv, TypeOK
<1>2. ASSUME NEW r \in saved', r \notin saved
      PROVE  /\ pc'[r] = "over" /\ kind'[r] \in Gated
             /\ created'[r] # 0 /\ created'[r] <= Stamp0(r)'
  <2>1. PICK q \in Requests : Respond(q) \/ CutOff(q)
    BY <1>2 DEF Next, vars, Tick, Load, Check, Insert, Stamp, Send
  <2>2. r = q /\ pc[q] = "sent" /\ kind[q] \in Gated /\ pc'[q] = "over"
    BY <1>2, <2>1 DEF Respond, CutOff, Save, Answered, TypeOK
  <2>3. UNCHANGED <<created, record, kind>>
    BY <2>1, <2>2 DEF Respond, CutOff
  <2> QED BY <2>2, <2>3 DEF ProgressInv, Stamp0
<1>3. ASSUME NEW r \in Requests
      PROVE  /\ seen'[r] \subseteq saved'
             /\ r \notin seen'[r]
             /\ pc'[r] = "idle" => seen'[r] = {}
  <2>1. CASE Load(r)
    BY <2>1 DEF Load, SavedInv, TypeOK
  <2>2. CASE ~Load(r)
    <3>1. seen'[r] = seen[r] /\ (pc'[r] = "idle" => pc[r] = "idle")
      BY <2>2 DEF Next, vars, Tick, Load, Check, Insert, Stamp, Send, Respond, CutOff,
                Answered, TypeOK
    <3> QED BY <3>1, Monotone DEF SavedInv
  <2> QED BY <2>1, <2>2
<1> QED BY <1>1, <1>2, <1>3 DEF SavedInv

\* A copy goes back to the row only over what it has seen, or next to what it
\* overlaps with.
LEMMA NextNoLostStamp ==
  ASSUME TypeOK, ProgressInv, SavedInv, NoLostStamp, [Next]_vars, TypeOK', SavedInv'
  PROVE  NoLostStamp'
<1>1. kind' = kind /\ saved \subseteq saved' /\ saved' \subseteq Requests
  BY Monotone DEF TypeOK
<1>2. \A r \in Requests, s \in Requests :
        /\ seen[s] \subseteq saved /\ saved \in SUBSET saved
        /\ seen'[s] \subseteq saved'
        /\ Stamp0(r) \in Nat
  BY KeyType DEF SavedInv, Stamp0, TypeOK, Times
\* What is in the row, as long as nothing is saved.
<1>3. ASSUME NEW r \in Requests, Undisturbed(r, saved)', UNCHANGED <<stored, saved>>
      PROVE  Stamp0(r)' <= stored'[Key(kind'[r])]
  <2>1. r \in saved
    BY <1>3 DEF Undisturbed
  <2>2. Undisturbed(r, saved)
    BY <1>3, <2>1, SavedStays DEF Undisturbed, Overlap
  <2> QED BY <1>1, <1>3, <2>1, <2>2, SavedStays DEF NoLostStamp
\* What is in a copy.
<1>4. ASSUME NEW r \in Requests, NEW s \in Requests, Undisturbed(r, seen[s])'
      PROVE  Stamp0(r)' <= record'[s][Key(kind'[r])]
  <2>1. CASE Load(s)
    <3>1. /\ UNCHANGED <<stored, saved>>
          /\ seen'[s] = saved' /\ record'[s] = stored'
      BY <2>1 DEF Load, TypeOK
    <3>2. Undisturbed(r, saved)'
      BY <1>4, <3>1 DEF Undisturbed, Overlap
    <3> QED BY <1>3, <3>1, <3>2
  <2>2. CASE ~Load(s)
    <3>1. seen'[s] = seen[s]
      BY <2>2 DEF Next, vars, Tick, Load, Check, Insert, Stamp, Send, Respond, CutOff,
                TypeOK
    <3>2. r \in saved /\ seen[s] \subseteq saved
      BY <1>2, <1>4, <3>1 DEF Undisturbed
    <3>3. Undisturbed(r, seen[s])
      BY <1>4, <3>1, <3>2, SavedStays DEF Undisturbed, Overlap
    <3>4. Stamp0(r)' = Stamp0(r) /\ Stamp0(r) <= record[s][Key(kind[r])]
      BY <3>2, <3>3, SavedStays DEF NoLostStamp
    <3>5. CASE Stamp(s)
      <4>1. /\ Key(kind[r]) \in Keys /\ Key(kind[s]) \in Keys
            /\ record' = [record EXCEPT ![s][Key(kind[s])] = now]
        BY <3>5, KeyType DEF Stamp, Stamped, TypeOK
      <4>2. Stamp0(r) <= now
        BY <4>1 DEF ProgressInv, Stamp0
      <4> QED BY <1>1, <3>4, <4>1, <4>2 DEF TypeOK
    <3>6. CASE ~Stamp(s)
      <4>1. record'[s] = record[s]
        BY <2>2, <3>6 DEF Next, vars, Tick, Load, Check, Insert, Stamp, Stamped, Send,
                  Respond, CutOff, TypeOK
      <4> QED BY <1>1, <3>4, <4>1
    <3> QED BY <3>5, <3>6
  <2> QED BY <2>1, <2>2
\* What is in the row when q saves its copy.
<1>5. ASSUME NEW r \in Requests, Undisturbed(r, saved)',
             NEW q \in Requests, pc[q] = "sent", stored' = record[q],
             saved' = saved \cup {q}, record' = record, seen' = seen
      PROVE  Stamp0(r)' <= stored'[Key(kind'[r])]
  <2>1. CASE r = q
    BY <1>1, <1>2, <1>5, <2>1 DEF Stamp0
  <2>2. CASE r # q
    <3>1. r \in saved /\ q \notin saved
      BY <1>5, <2>2 DEF Undisturbed, SavedInv
    <3>2. q \notin seen[r]
      BY <1>2, <3>1
    <3>3. r \in seen[q]
      BY <1>5, <2>2, <3>2 DEF Undisturbed, Overlap
    <3>4. Undisturbed(r, seen[q])'
      BY <1>2, <1>5, <3>3 DEF Undisturbed, Overlap
    <3> QED BY <1>4, <1>5, <3>4
  <2> QED BY <2>1, <2>2
<1>6. ASSUME NEW r \in Requests, Undisturbed(r, saved)'
      PROVE  Stamp0(r)' <= stored'[Key(kind'[r])]
  <2>1. CASE UNCHANGED <<stored, saved>>
    BY <1>3, <1>6, <2>1
  <2>2. CASE ~UNCHANGED <<stored, saved>>
    <3>1. PICK q \in Requests : Respond(q) \/ CutOff(q)
      BY <2>2 DEF Next, vars, Tick, Load, Check, Insert, Stamp, Send
    <3>2. /\ pc[q] = "sent" /\ stored' = record[q] /\ saved' = saved \cup {q}
          /\ record' = record /\ seen' = seen
      BY <2>2, <3>1 DEF Respond, CutOff, Save
    <3> QED BY <1>5, <1>6, <3>2
  <2> QED BY <2>1, <2>2
<1> QED BY <1>4, <1>6 DEF NoLostStamp

\* What a request has seen saved it will always have seen saved.
LEMMA SeenStays ==
  ASSUME TypeOK, SavedInv, [Next]_vars,
         NEW r \in Requests, NEW s \in Requests, pc[s] # "idle",
         Undisturbed(r, seen[s])'
  PROVE  seen'[s] = seen[s] /\ r \in saved /\ Undisturbed(r, seen[s])
<1>1. seen'[s] = seen[s]
  BY DEF Next, vars, Tick, Load, Check, Insert, Stamp, Send, Respond, CutOff, TypeOK
<1>2. r \in saved /\ seen[s] \subseteq saved
  BY <1>1 DEF Undisturbed, SavedInv
<1> QED BY <1>1, <1>2, SavedStays DEF Undisturbed, Overlap

\* A request that passes the check has read a time that is a cooldown ago.
LEMMA NextChecked ==
  ASSUME TypeOK, SavedInv, NoLostStamp, CheckedInv, [Next]_vars
  PROVE  CheckedInv'
<1> SUFFICES ASSUME NEW r \in Requests, NEW s \in Requests,
                    pc'[s] = "checked", kind[r] \in Gated, kind[s] = kind[r],
                    Undisturbed(r, seen[s])'
             PROVE  Stamp0(r)' + Cooldown(kind[r]) <= now'
  BY Monotone DEF CheckedInv
<1>1. CASE pc[s] = "checked"
  <2>1. r \in saved /\ Undisturbed(r, seen[s])
    BY <1>1, SeenStays
  <2>2. Stamp0(r)' + Cooldown(kind[r]) <= now
    BY <1>1, <2>1, SavedStays DEF CheckedInv
  <2>3. Stamp0(r) \in Nat /\ Cooldown(kind[r]) \in Nat /\ now \in Nat /\ now' \in Nat
    BY ConstantsAssumption, KeyType, CooldownType
       DEF TypeOK, Times, Stamp0, Next, vars, Tick, Load, Check, Insert, Stamp, Send,
           Respond, CutOff
  <2> QED BY <2>1, <2>2, <2>3, Monotone, SavedStays
<1>2. CASE pc[s] # "checked"
  <2>1. Check(s)
    BY <1>2 DEF Next, vars, Tick, Load, Check, Insert, Stamp, Send, Respond, CutOff,
                Answered, TypeOK
  <2>2. pc[s] = "loaded" /\ ~TooSoon(s) /\ now' = now
    BY <2>1 DEF Check, Answered, TypeOK
  <2>3. r \in saved /\ Undisturbed(r, seen[s])
    BY <2>2, SeenStays
  <2>4. Stamp0(r)' = Stamp0(r) /\ Stamp0(r) <= record[s][Key(kind[s])]
    BY <2>3, SavedStays DEF NoLostStamp
  <2>5. ~(now - record[s][Key(kind[s])] < Cooldown(kind[s]))
    BY <2>2 DEF TooSoon
  <2>6. /\ Stamp0(r) \in Nat /\ record[s][Key(kind[s])] \in Nat
        /\ Cooldown(kind[s]) \in Nat /\ now \in Nat
    BY ConstantsAssumption, KeyType, CooldownType DEF TypeOK, Times, Stamp0
  <2> QED BY <2>2, <2>4, <2>5, <2>6
<1> QED BY <1>1, <1>2

\* The insertion comes after the check.
LEMMA NextInterval ==
  ASSUME TypeOK, SavedInv, ProgressInv, CheckedInv, IntervalUnlessOverlap, [Next]_vars
  PROVE  IntervalUnlessOverlap'
<1> SUFFICES ASSUME NEW r \in Requests, NEW s \in Requests,
                    created'[s] # 0, kind[r] \in Gated, kind[s] = kind[r],
                    Undisturbed(r, seen[s])'
             PROVE  created'[s] >= created'[r] + Cooldown(kind[r])
  BY Monotone DEF IntervalUnlessOverlap
<1>1. CASE created'[s] = created[s]
  <2>1. pc[s] # "idle"
    BY <1>1 DEF ProgressInv, BeforeInsert
  <2>2. r \in saved /\ Undisturbed(r, seen[s])
    BY <2>1, SeenStays
  <2> QED BY <1>1, <2>2, SavedStays DEF IntervalUnlessOverlap
<1>2. CASE created'[s] # created[s]
  <2>1. pc[s] = "checked" /\ created'[s] = now
    BY <1>2 DEF Next, vars, Tick, Load, Check, Insert, Stamp, Send, Respond, CutOff,
                TypeOK
  <2>2. r \in saved /\ Undisturbed(r, seen[s])
    BY <2>1, SeenStays
  <2>3. Stamp0(r) + Cooldown(kind[r]) <= now
    BY <2>1, <2>2 DEF CheckedInv
  <2>4. created'[r] = created[r] /\ created[r] <= Stamp0(r)
    BY <2>2, SavedStays DEF SavedInv
  <2>5. /\ Stamp0(r) \in Nat /\ created[r] \in Nat
        /\ Cooldown(kind[r]) \in Nat /\ now \in Nat
    BY ConstantsAssumption, KeyType, CooldownType DEF TypeOK, Times, Stamp0
  <2> QED BY <2>1, <2>3, <2>4, <2>5
<1> QED BY <1>1, <1>2

\* What a saved request has recorded stays recorded.
LEMMA RecordedStays ==
  ASSUME TypeOK, SavedInv, [Next]_vars,
         NEW r \in Requests, NEW k, NEW time, RecordedBy(r, k, time)
  PROVE  r \in saved' /\ Key(kind'[r]) = k /\ Stamp0(r)' = time
BY Monotone, SavedStays DEF RecordedBy

\* A time moves from the row to a copy, from a copy to the row, or is written
\* by the request that owns it.
LEMMA NextOwners ==
  ASSUME TypeOK, SavedInv, StampsHaveOwners, [Next]_vars
  PROVE  StampsHaveOwners'
<1>1. ASSUME NEW k \in Keys, stored'[k] # 0
      PROVE  \E r \in Requests : r \in saved' /\ Key(kind'[r]) = k
                                /\ Stamp0(r)' = stored'[k]
  <2>1. CASE stored' = stored
    BY <1>1, <2>1, RecordedStays DEF StampsHaveOwners
  <2>2. CASE stored' # stored
    <3>1. PICK q \in Requests : Respond(q) \/ CutOff(q)
      BY <2>2 DEF Next, vars, Tick, Load, Check, Insert, Stamp, Send
    <3>2. /\ pc[q] = "sent" /\ stored' = record[q] /\ saved' = saved \cup {q}
          /\ record' = record /\ kind' = kind
      BY <2>2, <3>1 DEF Respond, CutOff, Save
    <3>3. CASE k = Key(kind[q])
      BY <3>2, <3>3 DEF Stamp0
    <3>4. CASE k # Key(kind[q])
      BY <1>1, <3>2, <3>4, RecordedStays DEF StampsHaveOwners
    <3> QED BY <3>3, <3>4
  <2> QED BY <2>1, <2>2
<1>2. ASSUME NEW s \in Requests, NEW k \in Keys, record'[s][k] # 0,
             ~(k = Key(kind'[s]) /\ pc'[s] \in {"stamped", "sent", "over"})
      PROVE  \E r \in Requests : r \in saved' /\ Key(kind'[r]) = k
                                /\ Stamp0(r)' = record'[s][k]
  <2>1. CASE Load(s)
    <3>1. record'[s] = stored' /\ stored' = stored
      BY <2>1 DEF Load, TypeOK
    <3> QED BY <1>1, <1>2, <3>1
  <2>2. CASE ~Load(s)
    <3>1. /\ record'[s][k] = record[s][k]
          /\ ~(k = Key(kind[s]) /\ pc[s] \in {"stamped", "sent", "over"})
      <4>1. kind' = kind
        BY Monotone
      <4>2. CASE Stamp(s)
        BY <1>2, <4>2, KeyType DEF Stamp, Stamped, TypeOK
      <4>3. CASE ~Stamp(s)
        <5>1. record'[s] = record[s]
          BY <2>2, <4>3 DEF Next, vars, Tick, Load, Check, Insert, Stamp, Stamped,
                    Send, Respond, CutOff, TypeOK
        <5>2. pc[s] \in {"stamped", "sent", "over"}
                => pc'[s] \in {"stamped", "sent", "over"}
          BY <2>2 DEF Next, vars, Tick, Load, Check, Insert, Stamp, Send, Respond,
                    CutOff, Answered, TypeOK
        <5> QED BY <1>2, <4>1, <5>1, <5>2
      <4> QED BY <4>2, <4>3
    <3> QED BY <1>2, <3>1, RecordedStays DEF StampsHaveOwners
  <2> QED BY <2>1, <2>2
<1> QED BY <1>1, <1>2 DEF StampsHaveOwners, RecordedBy

\* The time that refuses a request is another request's.
LEMMA NextRefusal ==
  ASSUME TypeOK, SavedInv, ProgressInv, StampsHaveOwners, RefusalIsJustified,
         [Next]_vars
  PROVE  RefusalIsJustified'
<1> SUFFICES ASSUME NEW s \in Requests, answer'[s] = "too_soon"
             PROVE  \E r \in saved' \ {s} :
                      /\ kind'[r] = kind'[s]
                      /\ created'[r] # 0 /\ created'[r] <= Stamp0(r)'
                      /\ decided'[s] < Stamp0(r)' + Cooldown(kind'[s])
  BY DEF RefusalIsJustified
<1>1. CASE ~Check(s)
  <2>0. answer[s] = "too_soon" /\ decided'[s] = decided[s]
    <3>1. CASE \E q \in Requests : Check(q)
      BY <1>1, <3>1 DEF Check, Answered, TypeOK
    <3>2. CASE ~\E q \in Requests : Check(q)
      BY <3>2 DEF Next, vars, Tick, Load, Insert, Stamp, Send, Respond, CutOff,
                Answered, TypeOK
    <3> QED BY <3>1, <3>2
  <2>1. PICK r \in saved \ {s} :
          /\ kind[r] = kind[s]
          /\ created[r] # 0 /\ created[r] <= Stamp0(r)
          /\ decided[s] < Stamp0(r) + Cooldown(kind[s])
    BY <2>0 DEF RefusalIsJustified
  <2> QED BY <2>0, <2>1, Monotone, SavedStays
<1>2. CASE Check(s)
  <2>3. /\ TooSoon(s) /\ pc[s] = "loaded" /\ decided'[s] = now
    BY <1>2 DEF Check, Answered, TypeOK, ProgressInv
  <2> DEFINE k == Key(kind[s])
  <2>4. kind[s] \in Gated /\ now - record[s][k] < Cooldown(kind[s])
    BY <2>3 DEF TooSoon
  <2>5. /\ record[s][k] \in Nat /\ now \in Nat /\ HeuristicCooldown \in Nat
        /\ now >= HeuristicCooldown /\ k \in Keys
    BY ConstantsAssumption, KeyType DEF TypeOK, Times
  <2>6. record[s][k] # 0
    BY <2>4, <2>5, CooldownType
  <2>7. PICK r \in Requests : RecordedBy(r, k, record[s][k])
    BY <2>3, <2>5, <2>6 DEF StampsHaveOwners
  <2>8. /\ r \in saved /\ r # s /\ kind[r] = kind[s]
        /\ created[r] # 0 /\ created[r] <= Stamp0(r) /\ Stamp0(r) = record[s][k]
    BY <2>3, <2>4, <2>7, KeyOfGated DEF RecordedBy, SavedInv
  <2>9. now < Stamp0(r) + Cooldown(kind[s])
    BY <2>4, <2>5, <2>8, CooldownType
  <2> QED BY <2>3, <2>8, <2>9, Monotone, SavedStays
<1> QED BY <1>1, <1>2

-----------------------------------------------------------------------------
\* The invariant that carries the two properties holds in every state.
THEOREM InductiveInvariant == Spec => []IInv
<1>1. ASSUME IInv, [Next]_vars PROVE IInv'
  <2>1. TypeOK' /\ TypeOK
    BY <1>1, NextTypeOK DEF IInv
  <2>2. ProgressInv' /\ SavedInv'
    BY <1>1, <2>1, NextProgress, NextSaved DEF IInv
  <2>3. NoLostStamp' /\ CheckedInv' /\ StampsHaveOwners'
    BY <1>1, <2>1, <2>2, NextNoLostStamp, NextChecked, NextOwners DEF IInv
  <2>4. IntervalUnlessOverlap' /\ RefusalIsJustified'
    BY <1>1, <2>1, NextInterval, NextRefusal DEF IInv
  <2> QED BY <2>1, <2>2, <2>3, <2>4 DEF IInv
<1> QED BY <1>1, InitIInv, PTL DEF Spec

\* Whatever the number of requests and their interleaving, two submissions of
\* one kind come a cooldown apart unless a third request overlapped the first.
THEOREM CooldownHolds == Spec => []IntervalUnlessOverlap
<1>1. IInv => IntervalUnlessOverlap
  BY DEF IInv
<1> QED BY <1>1, InductiveInvariant, PTL

\* Every refusal for the cooldown has a recorded submission behind it.
THEOREM RefusalsJustified == Spec => []RefusalIsJustified
<1>1. IInv => RefusalIsJustified
  BY DEF IInv
<1> QED BY <1>1, InductiveInvariant, PTL
===============================================================================
