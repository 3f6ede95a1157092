------------------------------ MODULE Runs_proofs ------------------------------
(***************************************************************************)
(* Proofs about what runs carry and how they are scheduled: run tokens     *)
(* (RunToken), for any number of token identities and callers and any      *)
(* token and session lifetimes; and the orchestrator's queue               *)
(* (Orchestrator), for any requests, keys and workers.  The two components *)
(* share no state.                                                         *)
(***************************************************************************)
EXTENDS RunToken, Orchestrator, SequenceTheorems, TLAPS


-----------------------------------------------------------------------------
(* Run tokens: the inductive invariant, in named parts. *)

(* The deadline d is that of a live version the index has shown. *)
Shown(d) == \E i \in 1..seen : Live(versions[i]) /\ d = DeadlineOf(versions[i])

(* A caller that is about to encode holds such a deadline. *)
DeadlineHeld == \A c \in Callers : pc[c] = "encode" => Shown(deadline[c])

(* A token ends no later than such a deadline. *)
TokensCapped == \A t \in issued : \E d \in Nat : Shown(d) /\ t.exp <= d

(* No token of an ended jti outlives the key, and none is being renewed    *)
(* while a token of the jti could still be valid.                          *)
EndedForGood ==
  \A j \in ended :
    /\ \A t \in issued : t.jti = j => t.exp <= revokedUntil[j]
    /\ ~Renewing(j)
    /\ \E t \in issued : t.jti = j

IInv ==
  /\ TypeOK
  /\ DeadlineHeld
  /\ TokensCapped
  /\ EndedForGood

-----------------------------------------------------------------------------
(* Lemmas about the operators. *)

LEMMA DeadlineType ==
  ASSUME NEW s \in Session
  PROVE  DeadlineOf(s) \in Nat
BY RunTokenAssumption DEF Session, DeadlineOf, Earlier

(* encodeToken never exceeds the deadline, nor the TTL. *)
LEMMA ExpiryBounds ==
  ASSUME NEW d \in Nat, now \in 0..MaxTime
  PROVE  Expiry(d) \in Nat /\ Expiry(d) <= d /\ Expiry(d) <= now + TTL
BY RunTokenAssumption DEF Expiry, Earlier

(* A session found alive is a live version, the one the index shows. *)
LEMMA IndexIsShown ==
  ASSUME TypeOK, Alive(index)
  PROVE  /\ index = versions[seen] /\ Live(versions[seen])
         /\ DeadlineOf(index) \in Nat /\ Shown(DeadlineOf(index))
<1>1. index = versions[seen] /\ Live(versions[seen])
  BY DEF Alive, index, Live
<1>2. versions[seen] \in Session \cup {NoSession}
  BY DEF TypeOK
<1>3. DeadlineOf(index) \in Nat
  BY <1>1, <1>2, DeadlineType DEF Live
<1>4. seen \in 1..seen
  BY DEF TypeOK
<1> QED
  BY <1>1, <1>3, <1>4 DEF Shown

(* The versions only grow at their end. *)
Grows ==
  /\ Len(versions') >= Len(versions)
  /\ \A i \in 1..Len(versions) : versions'[i] = versions[i]

LEMMA WriteAppends ==
  ASSUME TypeOK, NEW v \in Session \cup {NoSession}, Write(v)
  PROVE  /\ versions' \in Seq(Session \cup {NoSession})
         /\ Len(versions') = Len(versions) + 1
         /\ versions'[Len(versions')] = v
         /\ Grows
<1>1. versions \in Seq(Session \cup {NoSession}) /\ versions' = Append(versions, v)
  BY DEF TypeOK, Write
<1>2. Len(versions) \in Nat
  BY <1>1
<1> QED
  BY <1>1, <1>2, AppendProperties DEF Grows

(* What has been shown stays shown. *)
LEMMA ShownStays ==
  ASSUME TypeOK, Grows, seen' >= seen, seen' \in Nat
  PROVE  \A d : Shown(d) => Shown(d)'
<1> SUFFICES ASSUME NEW d, NEW i \in 1..seen, Live(versions[i]), d = DeadlineOf(versions[i])
             PROVE  Shown(d)'
  BY DEF Shown
<1>1. seen \in Nat /\ seen <= Len(versions) /\ Len(versions) \in Nat
  BY DEF TypeOK
<1>2. versions'[i] = versions[i] /\ i \in 1..seen'
  BY <1>1 DEF Grows
<1> QED
  BY <1>2 DEF Shown

-----------------------------------------------------------------------------
(* The invariant is inductive. *)

LEMMA InvInit == Init => IInv
<1> SUFFICES ASSUME Init PROVE IInv
  OBVIOUS
<1>a. issued \in SUBSET Token /\ revoked \in SUBSET Jtis /\ ended \in SUBSET Jtis
  BY DEF Init
<1>b. /\ now \in 0..MaxTime /\ revokedUntil \in [Jtis -> Nat]
      /\ pc \in [Callers -> {"idle", "check", "encode"}]
      /\ jti \in [Callers -> Jtis] /\ deadline \in [Callers -> Nat]
  BY RunTokenAssumption DEF Init
<1>c. /\ versions \in Seq(Session \cup {NoSession}) /\ seen \in 1..Len(versions)
      /\ lookup \in {"absent", "due", "there"}
  BY DEF Init
<1>1. TypeOK
  BY <1>a, <1>b, <1>c DEF TypeOK
<1>2. DeadlineHeld /\ TokensCapped /\ EndedForGood
  BY DEF Init, DeadlineHeld, TokensCapped, EndedForGood
<1> QED
  BY <1>1, <1>2 DEF IInv

(* A write to the store, or to the lookup table, and the index's progress  *)
(* leave the tokens and the callers alone.                                 *)
LEMMA StoreKeeps ==
  ASSUME IInv, TypeOK', Grows, seen' >= seen,
         UNCHANGED <<issued, revokedUntil, ended, pc, jti, deadline>>
  PROVE  IInv'
<1>1. seen' \in Nat /\ TypeOK
  BY DEF TypeOK, IInv
<1>2. \A d : Shown(d) => Shown(d)'
  BY <1>1, ShownStays
<1>3. DeadlineHeld'
  BY <1>2 DEF IInv, DeadlineHeld
<1>4. TokensCapped'
  BY <1>2 DEF IInv, TokensCapped
<1>5. EndedForGood'
  BY DEF IInv, EndedForGood, Renewing
<1> QED
  BY <1>3, <1>4, <1>5 DEF IInv

(* The steps that only write the session's item. *)
LEMMA WritesKeep ==
  ASSUME IInv, NEW v \in Session \cup {NoSession}, Write(v),
         lookup' \in {"absent", "due", "there"}
  PROVE  IInv'
<1>1. TypeOK
  BY DEF IInv
<1>2. /\ versions' \in Seq(Session \cup {NoSession})
      /\ Len(versions') = Len(versions) + 1 /\ Grows
  BY <1>1, WriteAppends
<1>3. UNCHANGED <<now, seen, issued, revokedUntil, revoked, ended, pc, jti, deadline>>
  BY DEF Write, revocationVars, callerVars
<1>4. seen' \in 1..Len(versions')
  BY <1>1, <1>2, <1>3 DEF TypeOK
<1>5. TypeOK'
  BY <1>1, <1>2, <1>3, <1>4 DEF TypeOK
<1>6. seen' >= seen
  BY <1>1, <1>3 DEF TypeOK
<1> QED
  BY <1>3, <1>5, <1>6, <1>2, StoreKeeps

LEMMA StatusType ==
  ASSUME TypeOK, NEW status \in Statuses
  PROVE  WithStatus(table, status) \in Session
<1>1. table \in Session \cup {NoSession}
  BY DEF TypeOK, table
<1> QED
  BY <1>1 DEF WithStatus, Session

LEMMA InvStep == IInv /\ [Next]_vars => IInv'
<1> SUFFICES ASSUME IInv, [Next]_vars PROVE IInv'
  OBVIOUS
<1>0. TypeOK /\ DeadlineHeld /\ TokensCapped /\ EndedForGood
  BY DEF IInv
<1> USE <1>0, RunTokenAssumption
<1>g. ASSUME UNCHANGED versions PROVE Grows
  <2>1. Len(versions) \in Nat
    BY DEF TypeOK
  <2> QED BY <1>g, <2>1 DEF Grows
<1>1. CASE Tick
  <2>1. TypeOK'
    BY <1>1 DEF Tick, TypeOK, sessionVars, revocationVars, callerVars
  <2>2. UNCHANGED <<versions, seen, issued, revokedUntil, ended, pc, jti, deadline>>
    BY <1>1 DEF Tick, sessionVars, revocationVars, callerVars
  <2>3. seen' >= seen
    BY <2>2 DEF TypeOK
  <2> QED
    BY <2>1, <2>2, <2>3, <1>g, StoreKeeps
<1>2. ASSUME NEW s \in Puts, PutSession(s) PROVE IInv'
  <2>1. s \in Session \cup {NoSession} /\ Write(s) /\ lookup' \in {"absent", "due", "there"}
    BY <1>2 DEF PutSession, TypeOK
  <2> QED
    BY <2>1, WritesKeep
<1>3. CASE PutLookup
  <2>1. TypeOK' /\ seen' >= seen
    BY <1>3 DEF PutLookup, TypeOK, revocationVars, callerVars
  <2> QED
    BY <1>3, <2>1, <1>g, StoreKeeps DEF PutLookup, revocationVars, callerVars
<1>4. ASSUME NEW status \in Statuses, NEW k \in BOOLEAN, UpdateStatus(status, k) PROVE IInv'
  <2>1. /\ WithStatus(table, status) \in Session \cup {NoSession}
        /\ Write(WithStatus(table, status)) /\ lookup' \in {"absent", "due", "there"}
    BY <1>4, StatusType DEF UpdateStatus, TypeOK
  <2> QED
    BY <2>1, WritesKeep
<1>5. CASE ItemExpires
  <2>1. Write(NoSession) /\ lookup' \in {"absent", "due", "there"}
    BY <1>5 DEF ItemExpires, TypeOK
  <2> QED
    BY <2>1, WritesKeep
<1>6. CASE IndexCatchUp
  <2>1. TypeOK' /\ seen' >= seen
    BY <1>6 DEF IndexCatchUp, TypeOK, revocationVars, callerVars
  <2> QED
    BY <1>6, <2>1, <1>g, StoreKeeps DEF IndexCatchUp, revocationVars, callerVars
<1>7. ASSUME NEW c \in Callers, NEW j \in Jtis, Mint(c, j) PROVE IInv'
  <2>1. UNCHANGED <<versions, seen, issued, revokedUntil, revoked, ended>> /\ Alive(index)
    BY <1>7 DEF Mint, sessionVars, revocationVars
  <2>2. /\ deadline' = [deadline EXCEPT ![c] = DeadlineOf(index)]
        /\ DeadlineOf(index) \in Nat /\ Shown(DeadlineOf(index))
    BY <1>7, <2>1, IndexIsShown DEF Mint
  <2>3. TypeOK'
    BY <1>7, <2>1, <2>2 DEF Mint, TypeOK, sessionVars
  <2>4. \A d : Shown(d)' <=> Shown(d)
    BY <2>1 DEF Shown
  <2>5. DeadlineHeld'
    BY <1>7, <2>2, <2>4 DEF Mint, DeadlineHeld, TypeOK
  <2>6. TokensCapped'
    BY <2>1, <2>4 DEF TokensCapped
  <2>7. j \notin ended
    BY <1>7 DEF Mint, UsedJtis, EndedForGood
  <2>8. EndedForGood'
    BY <1>7, <2>1, <2>7 DEF Mint, EndedForGood, Renewing, TypeOK
  <2> QED
    BY <2>3, <2>5, <2>6, <2>8 DEF IInv
<1>8. ASSUME NEW c \in Callers, NEW t \in issued, RenewValidate(c, t) PROVE IInv'
  <2>1. UNCHANGED <<versions, seen, issued, revokedUntil, revoked, ended, deadline>>
    BY <1>8 DEF RenewValidate, sessionVars, revocationVars
  <2>2. t.jti \in Jtis /\ t.exp \in Nat
    BY DEF TypeOK, Token
  <2>3. TypeOK'
    BY <1>8, <2>1, <2>2 DEF RenewValidate, TypeOK, sessionVars
  <2>4. \A d : Shown(d)' <=> Shown(d)
    BY <2>1 DEF Shown
  <2>5. DeadlineHeld' /\ TokensCapped'
    BY <1>8, <2>1, <2>4 DEF RenewValidate, DeadlineHeld, TokensCapped, TypeOK
  <2>6. now \in Nat /\ revokedUntil[t.jti] \in Nat
    BY <2>2 DEF TypeOK
  <2>7. t.jti \notin ended
    BY <1>8, <2>2, <2>6 DEF RenewValidate, Valid, Expired, IsRevoked, EndedForGood
  <2>8. EndedForGood'
    BY <1>8, <2>1, <2>7 DEF RenewValidate, EndedForGood, Renewing, TypeOK
  <2> QED
    BY <2>3, <2>5, <2>8 DEF IInv
<1>9. ASSUME NEW c \in Callers, RenewCheck(c) PROVE IInv'
  <2>1. UNCHANGED <<versions, seen, issued, revokedUntil, revoked, ended, jti>> /\ Alive(index)
    BY <1>9 DEF RenewCheck, sessionVars, revocationVars
  <2>2. /\ deadline' = [deadline EXCEPT ![c] = DeadlineOf(index)]
        /\ DeadlineOf(index) \in Nat /\ Shown(DeadlineOf(index))
    BY <1>9, <2>1, IndexIsShown DEF RenewCheck
  <2>3. TypeOK'
    BY <1>9, <2>1, <2>2 DEF RenewCheck, TypeOK, sessionVars
  <2>4. \A d : Shown(d)' <=> Shown(d)
    BY <2>1 DEF Shown
  <2>5. DeadlineHeld'
    BY <1>9, <2>2, <2>4 DEF RenewCheck, DeadlineHeld, TypeOK
  <2>6. TokensCapped'
    BY <2>1, <2>4 DEF TokensCapped
  <2>7. EndedForGood'
    BY <1>9, <2>1 DEF RenewCheck, EndedForGood, Renewing, TypeOK
  <2> QED
    BY <2>3, <2>5, <2>6, <2>7 DEF IInv
<1>10. ASSUME NEW c \in Callers, RenewRefused(c) \/ EncodeTooLate(c) PROVE IInv'
  <2>1. UNCHANGED <<versions, seen, issued, revokedUntil, revoked, ended, jti, deadline>>
    BY <1>10 DEF RenewRefused, EncodeTooLate, sessionVars, revocationVars
  <2>2. TypeOK'
    BY <1>10, <2>1 DEF RenewRefused, EncodeTooLate, TypeOK, sessionVars
  <2>3. \A d : Shown(d)' <=> Shown(d)
    BY <2>1 DEF Shown
  <2>4. \A e \in Callers : pc'[e] # "idle" => pc'[e] = pc[e]
    BY <1>10 DEF RenewRefused, EncodeTooLate, TypeOK
  <2>5. DeadlineHeld' /\ TokensCapped' /\ EndedForGood'
    BY <2>1, <2>3, <2>4 DEF DeadlineHeld, TokensCapped, EndedForGood, Renewing
  <2> QED
    BY <2>2, <2>5 DEF IInv
<1>11. ASSUME NEW c \in Callers, Encode(c) PROVE IInv'
  <2> DEFINE t == [jti |-> jti[c], exp |-> Expiry(deadline[c])]
  <2>1. UNCHANGED <<versions, seen, revokedUntil, revoked, ended, jti, deadline>>
    BY <1>11 DEF Encode, sessionVars, revocationVars
  <2>2. Shown(deadline[c]) /\ deadline[c] \in Nat
    BY <1>11 DEF Encode, DeadlineHeld, TypeOK
  <2>3. Expiry(deadline[c]) \in 1..(MaxTime + TTL) /\ Expiry(deadline[c]) <= deadline[c]
    <3>1. now \in 0..MaxTime /\ Expiry(deadline[c]) > now
      BY <1>11 DEF Encode, TypeOK
    <3>2. /\ Expiry(deadline[c]) \in Nat /\ Expiry(deadline[c]) <= deadline[c]
          /\ Expiry(deadline[c]) <= now + TTL
      BY <2>2, <3>1, ExpiryBounds
    <3> QED BY <3>1, <3>2
  <2>4. t \in Token /\ t.exp <= deadline[c] /\ t.jti = jti[c] /\ issued' = issued \cup {t}
    BY <1>11, <2>3 DEF Encode, Token, TypeOK
  <2> HIDE DEF t
  <2>5. TypeOK'
    BY <1>11, <2>1, <2>4 DEF Encode, TypeOK, sessionVars
  <2>6. \A d : Shown(d)' <=> Shown(d)
    BY <2>1 DEF Shown
  <2>7. DeadlineHeld'
    BY <1>11, <2>1, <2>6 DEF Encode, DeadlineHeld, TypeOK
  <2>8. TokensCapped'
    BY <2>2, <2>4, <2>6 DEF TokensCapped
  <2>9. jti[c] \notin ended
    BY <1>11 DEF Encode, EndedForGood, Renewing
  <2>10. EndedForGood'
    BY <1>11, <2>1, <2>4, <2>9 DEF Encode, EndedForGood, Renewing, TypeOK
  <2> QED
    BY <2>5, <2>7, <2>8, <2>10 DEF IInv
<1>12. ASSUME NEW t \in issued, Revoke(t) PROVE IInv'
  <2>1. UNCHANGED <<versions, seen, issued, pc, jti, deadline>>
    BY <1>12 DEF Revoke, sessionVars, callerVars
  <2>2. t \in Token /\ t.jti \in Jtis /\ t.exp \in Nat
    BY DEF TypeOK, Token
  <2>3. revoked' \in SUBSET Jtis /\ ended' \in SUBSET Jtis
    BY <1>12, <2>2 DEF Revoke, TypeOK
  <2>4. TypeOK'
    BY <1>12, <2>1, <2>2, <2>3 DEF Revoke, TypeOK, sessionVars
  <2>5. \A d : Shown(d)' <=> Shown(d)
    BY <2>1 DEF Shown
  <2>6. DeadlineHeld' /\ TokensCapped'
    BY <2>1, <2>5 DEF DeadlineHeld, TokensCapped
  <2>7. ASSUME NEW j \in ended'
        PROVE  /\ \A u \in issued : u.jti = j => u.exp <= revokedUntil'[j]
               /\ ~Renewing(j)
               /\ \E u \in issued : u.jti = j
    <3>1. CASE j = t.jti
      <4>1. Longest(t) /\ ~Renewing(j) /\ revokedUntil'[j] = t.exp
        BY <1>12, <2>2, <2>7, <3>1 DEF Revoke, TypeOK
      <4> QED BY <4>1, <3>1 DEF Longest
    <3>2. CASE j # t.jti
      <4>1. j \in ended /\ revokedUntil'[j] = revokedUntil[j]
        BY <1>12, <2>2, <2>7, <3>2 DEF Revoke, TypeOK
      <4> QED BY <4>1 DEF EndedForGood
    <3> QED BY <3>1, <3>2
  <2>8. EndedForGood'
    BY <2>1, <2>7 DEF EndedForGood, Renewing
  <2> QED
    BY <2>4, <2>6, <2>8 DEF IInv
<1>13. CASE UNCHANGED vars
  <2>1. TypeOK' /\ seen' >= seen
    BY <1>13 DEF vars, TypeOK
  <2> QED
    BY <1>13, <2>1, <1>g, StoreKeeps DEF vars
<1>14. ASSUME NEW t \in issued, RevokeExpired(t) PROVE UNCHANGED vars
  BY <1>14 DEF RevokeExpired
<1> QED
  BY <1>1, <1>2, <1>3, <1>4, <1>5, <1>6, <1>7, <1>8, <1>9, <1>10, <1>11, <1>12, <1>13, <1>14
  DEF Next

LEMMA Invariance == Spec => []IInv
<1>1. Init => IInv
  BY InvInit
<1>2. IInv /\ [Next]_vars => IInv'
  BY InvStep
<1> QED
  BY <1>1, <1>2, PTL DEF Spec

-----------------------------------------------------------------------------
(* The theorems about run tokens. *)

(* No token expires later than the clock's bound and the TTL allow, and    *)
(* every variable keeps its type (service.go 113-121).                     *)
THEOREM TypeCorrectness == Spec => []TypeOK
<1>1. IInv => TypeOK
  BY DEF IInv
<1> QED
  BY <1>1, Invariance, PTL

(* Every token ends within a live version of its session that the index    *)
(* has shown, through any chain of renewals, any writes to the store and   *)
(* any lag of the index (service.go 113-121, checker.go 56-62).            *)
THEOREM SessionCapsTokens == Spec => []TokensWithinSession
<1>1. IInv => TokensWithinSession
  BY DEF IInv, TokensCapped, Shown, TokensWithinSession
<1> QED
  BY <1>1, Invariance, PTL

(* A Revoke of a jti's longest-lived token, with no renewal under way, is  *)
(* the end of all its tokens (service.go 132-138, 161-172, 182-186).       *)
THEOREM RevocationHolds == Spec => []RevocationEndsTokens
<1>1. IInv => RevocationEndsTokens
  <2> SUFFICES ASSUME IInv, NEW t \in issued, t.jti \in ended
               PROVE  ~Valid(t)
    BY DEF RevocationEndsTokens
  <2>1. t.exp <= revokedUntil[t.jti]
    BY DEF IInv, EndedForGood
  <2>2. revokedUntil[t.jti] \in Nat /\ now \in Nat /\ t.exp \in Nat
    BY RunTokenAssumption DEF IInv, TypeOK, Token
  <2> QED
    BY <2>1, <2>2 DEF Valid, Expired, IsRevoked
<1> QED
  BY <1>1, Invariance, PTL

(* The steps that leave the versions, and what the index shows, alone.     *)
LEMMA CallersFollow ==
  ASSUME IInv, NEW d \in Nat, ClosedBeyond(d), UNCHANGED <<versions, seen>>,
         \A c \in Callers : pc'[c] = "encode" =>
            \/ pc[c] = "encode" /\ deadline'[c] = deadline[c]
            \/ Alive(index) /\ deadline'[c] = DeadlineOf(index)
  PROVE  ClosedBeyond(d)'
<1>1. ASSUME Alive(index) PROVE DeadlineOf(index) <= d
  <2>1. index = versions[seen] /\ Live(versions[seen])
    BY <1>1, IndexIsShown DEF IInv
  <2>2. seen \in seen..Len(versions)
    BY DEF IInv, TypeOK
  <2> QED
    BY <2>1, <2>2 DEF ClosedBeyond
<1> QED
  BY <1>1 DEF ClosedBeyond

(* A write leaves nothing open beyond d, or it is of a longer session.     *)
LEMMA WritesReopen ==
  ASSUME IInv, NEW d \in Nat, ClosedBeyond(d), NEW v \in Session \cup {NoSession}, Write(v)
  PROVE  ClosedBeyond(d)' \/ Reopens(d)
<1>1. TypeOK
  BY DEF IInv
<1>2. Len(versions') = Len(versions) + 1 /\ versions'[Len(versions')] = v /\ Grows
  BY <1>1, WriteAppends
<1>3. UNCHANGED <<seen, pc, deadline>> /\ Len(versions) \in Nat /\ seen \in 1..Len(versions)
  BY <1>1 DEF Write, callerVars, TypeOK
<1>4. CASE Live(v) /\ DeadlineOf(v) > d
  BY <1>2, <1>4 DEF Reopens, table
<1>5. CASE ~Live(v) \/ DeadlineOf(v) <= d
  <2>1. ASSUME NEW i \in seen..Len(versions'), Live(versions'[i])
        PROVE  DeadlineOf(versions'[i]) <= d
    <3>1. CASE i = Len(versions')
      BY <1>2, <1>5, <2>1, <3>1
    <3>2. CASE i # Len(versions')
      <4>1. i \in seen..Len(versions) /\ versions'[i] = versions[i]
        BY <1>2, <1>3, <3>2 DEF Grows
      <4> QED BY <2>1, <4>1 DEF ClosedBeyond
    <3> QED BY <3>1, <3>2
  <2> QED
    BY <1>3, <2>1 DEF ClosedBeyond
<1>6. Live(v) => DeadlineOf(v) \in Nat
  BY DeadlineType DEF Live
<1> QED
  BY <1>4, <1>5, <1>6

(* Once the index shows that the session has ended, or ends earlier, and   *)
(* the calls that read it before are through, no token is issued beyond    *)
(* that until a longer session is written                                  *)
(* (service.go 103-105, 143-145; checker.go 38-62).                        *)
THEOREM IssuingFollowsStore == Spec => TokensFollowStore
<1> DEFINE Follows(d) == /\ \A t \in issued' \ issued : t.exp <= d
                         /\ ClosedBeyond(d)' \/ Reopens(d)
<1>1. ASSUME IInv, Next, NEW d \in 0..(MaxTime + TTL), ClosedBeyond(d) PROVE Follows(d)
  <2>0. TypeOK /\ d \in Nat
    BY <1>1 DEF IInv
  <2> USE <1>1, <2>0
  <2>1. CASE Tick \/ PutLookup \/ \E t \in issued : Revoke(t) \/ RevokeExpired(t)
    <3>1. UNCHANGED <<versions, seen, issued, pc, deadline>>
      BY <2>1 DEF Tick, PutLookup, Revoke, RevokeExpired, sessionVars, callerVars, vars
    <3> QED BY <3>1, CallersFollow
  <2>2. ASSUME NEW v \in Session \cup {NoSession}, Write(v) PROVE Follows(d)
    <3>1. issued' = issued
      BY <2>2 DEF Write
    <3> QED BY <2>2, <3>1, WritesReopen
  <2>3. CASE \/ \E s \in Puts : PutSession(s)
             \/ \E status \in Statuses, k \in BOOLEAN : UpdateStatus(status, k)
             \/ ItemExpires
    <3>1. \E v \in Session \cup {NoSession} : Write(v)
      BY <2>3, StatusType, RunTokenAssumption DEF PutSession, UpdateStatus, ItemExpires
    <3> QED BY <2>2, <3>1
  <2>4. CASE IndexCatchUp
    <3>1. UNCHANGED <<versions, issued, pc, deadline>> /\ seen' = seen + 1
      BY <2>4 DEF IndexCatchUp, callerVars
    <3>2. \A i \in seen'..Len(versions') : i \in seen..Len(versions)
      BY <3>1 DEF TypeOK
    <3> QED BY <3>1, <3>2 DEF ClosedBeyond
  <2>5. ASSUME NEW c \in Callers,
               \/ \E j \in Jtis : Mint(c, j)
               \/ \E t \in issued : RenewValidate(c, t)
               \/ RenewCheck(c) \/ RenewRefused(c) \/ EncodeTooLate(c)
        PROVE  Follows(d)
    <3>1. UNCHANGED <<versions, seen, issued>>
      BY <2>5 DEF Mint, RenewValidate, RenewCheck, RenewRefused, EncodeTooLate, sessionVars
    <3>2. \A e \in Callers : pc'[e] = "encode" =>
            \/ pc[e] = "encode" /\ deadline'[e] = deadline[e]
            \/ Alive(index) /\ deadline'[e] = DeadlineOf(index)
      BY <2>5 DEF Mint, RenewValidate, RenewCheck, RenewRefused, EncodeTooLate, TypeOK
    <3> QED BY <3>1, <3>2, CallersFollow
  <2>6. ASSUME NEW c \in Callers, Encode(c) PROVE Follows(d)
    <3>1. UNCHANGED <<versions, seen, deadline>> /\ pc' = [pc EXCEPT ![c] = "idle"]
      BY <2>6 DEF Encode, sessionVars
    <3>2. ClosedBeyond(d)'
      BY <3>1, CallersFollow DEF TypeOK
    <3>3. deadline[c] <= d /\ deadline[c] \in Nat /\ Expiry(deadline[c]) <= deadline[c]
      BY <2>6, ExpiryBounds DEF Encode, ClosedBeyond, TypeOK
    <3>4. Expiry(deadline[c]) \in Nat
      BY <3>3, ExpiryBounds DEF TypeOK
    <3>5. \A t \in issued' \ issued : t.exp = Expiry(deadline[c])
      BY <2>6 DEF Encode
    <3> QED BY <3>2, <3>3, <3>4, <3>5
  <2> QED
    BY <2>1, <2>3, <2>4, <2>5, <2>6 DEF Next
<1>2. IInv /\ [Next]_vars =>
        [\A d \in 0..(MaxTime + TTL) : ClosedBeyond(d) =>
           /\ \A t \in issued' \ issued : t.exp <= d
           /\ ClosedBeyond(d)' \/ Reopens(d)]_vars
  BY <1>1
<1> QED
  BY <1>2, Invariance, PTL DEF Spec, TokensFollowStore

-----------------------------------------------------------------------------
(* The orchestrator: the inductive invariant, in named parts. *)

(* Only requests with a key ask for it. *)
Keyed == \A r \in Requests : epc[r] \in {"setnx", "get"} => KeyOf[r] \in Keys

(* Until its key expires, a request that is about to queue its run, or has *)
(* queued it, holds the key.                                               *)
ClaimHeld ==
  \A r \in Requests :
    /\ KeyOf[r] \notin expired \cup {NoKey}
    /\ epc[r] = "xadd" \/ r \in Enqueued
    => idem[KeyOf[r]] = r

(* A key names a request with that key, past its claim. *)
ClaimIsRun ==
  \A key \in Keys : idem[key] # NoRun =>
    /\ KeyOf[idem[key]] = key
    /\ idem[key] \in Enqueued \/ epc[idem[key]] \in {"xadd", "error"}

(* A request is queued by its last step. *)
QueuedIsDone == \A r \in Enqueued : epc[r] \in {"done", "error"}

(* Only what a handler has succeeded with is about to be acknowledged. *)
AckIsHandled == \A w \in Workers : wpc[w] = "ack" => Head(batch[w]) \in handled

ClaimInv == Keyed /\ ClaimHeld /\ ClaimIsRun /\ ReplyNamesRun /\ QueuedIsDone

DeliveryInv == AckIsHandled /\ UnhandledStaysPending

QueueInv == QueueTypeOK /\ ClaimInv /\ DeliveryInv

-----------------------------------------------------------------------------
(* Lemmas about the streams. *)

LEMMA EnqueuedAt ==
  ASSUME QueueTypeOK, NEW r
  PROVE  r \in Enqueued <=> \E p \in Priorities : \E i \in DOMAIN stream[p] : stream[p][i] = r
BY DEF Enqueued, Range

(* XADD puts its run at the end of one stream and moves nothing. *)
GrownBy(r) ==
  /\ \A p \in Priorities :
       /\ Len(stream[p]) \in Nat /\ DOMAIN stream[p] = 1..Len(stream[p])
       /\ DOMAIN stream'[p] = 1..Len(stream'[p])
       /\ Len(stream'[p]) \in {Len(stream[p]), Len(stream[p]) + 1}
       /\ \A i \in 1..Len(stream[p]) : stream'[p][i] = stream[p][i]
       /\ \A i \in DOMAIN stream'[p] : i \in DOMAIN stream[p] \/ stream'[p][i] = r
  /\ \E p \in Priorities : \E i \in DOMAIN stream'[p] : stream'[p][i] = r

LEMMA AppendGrows ==
  ASSUME QueueTypeOK, NEW r \in Requests, Append1(r)
  PROVE  stream' \in [Priorities -> Seq(Requests)] /\ GrownBy(r)
<1> DEFINE q == PriorityOf[r]
<1>1. q \in Priorities
  BY OrchestratorAssumption
<1>2. stream \in [Priorities -> Seq(Requests)] /\ \A p \in Priorities : stream[p] \in Seq(Requests)
  BY DEF QueueTypeOK
<1>3. stream' = [stream EXCEPT ![q] = Append(stream[q], r)]
  BY DEF Append1
<1>4. /\ Append(stream[q], r) \in Seq(Requests)
      /\ Len(Append(stream[q], r)) = Len(stream[q]) + 1
      /\ \A i \in 1..Len(stream[q]) : Append(stream[q], r)[i] = stream[q][i]
      /\ Append(stream[q], r)[Len(stream[q]) + 1] = r
  BY <1>1, <1>2, AppendProperties
<1>5. stream'[q] = Append(stream[q], r) /\ \A p \in Priorities : p # q => stream'[p] = stream[p]
  BY <1>1, <1>2, <1>3
<1>6. stream' \in [Priorities -> Seq(Requests)]
  BY <1>1, <1>2, <1>3, <1>4
<1>7. ASSUME NEW p \in Priorities
      PROVE  /\ Len(stream[p]) \in Nat /\ DOMAIN stream[p] = 1..Len(stream[p])
             /\ DOMAIN stream'[p] = 1..Len(stream'[p])
             /\ Len(stream'[p]) = IF p = q THEN Len(stream[p]) + 1 ELSE Len(stream[p])
             /\ \A i \in 1..Len(stream[p]) : stream'[p][i] = stream[p][i]
  <2>1. stream[p] \in Seq(Requests) /\ stream'[p] \in Seq(Requests)
    BY <1>2, <1>6
  <2>2. /\ Len(stream[p]) \in Nat /\ DOMAIN stream[p] = 1..Len(stream[p])
        /\ DOMAIN stream'[p] = 1..Len(stream'[p])
    BY <2>1
  <2>3. CASE p = q
    BY <2>2, <2>3, <1>4, <1>5
  <2>4. CASE p # q
    BY <2>2, <2>4, <1>5
  <2> QED BY <2>2, <2>3, <2>4
<1>8. stream'[q][Len(stream[q]) + 1] = r /\ Len(stream[q]) + 1 \in DOMAIN stream'[q]
  BY <1>1, <1>4, <1>5, <1>7
<1>9. ASSUME NEW p \in Priorities, NEW i \in DOMAIN stream'[p], i \notin DOMAIN stream[p]
      PROVE  p = q /\ i = Len(stream[q]) + 1 /\ stream'[p][i] = r
  BY <1>7, <1>8, <1>9
<1>10. \E p \in Priorities : \E i \in DOMAIN stream'[p] : stream'[p][i] = r
  BY <1>1, <1>8
<1>12. \A p \in Priorities :
         /\ Len(stream'[p]) \in {Len(stream[p]), Len(stream[p]) + 1}
         /\ \A i \in DOMAIN stream'[p] : i \in DOMAIN stream[p] \/ stream'[p][i] = r
  BY <1>7, <1>9
<1> QED BY <1>6, <1>7, <1>10, <1>12 DEF GrownBy

LEMMA AppendEnqueues ==
  ASSUME QueueTypeOK, NEW r \in Requests, Append1(r)
  PROVE  Enqueued' = Enqueued \cup {r}
<1>0. GrownBy(r)
  BY AppendGrows
<1>1. ASSUME NEW s \in Enqueued PROVE s \in Enqueued'
  <2>1. PICK p \in Priorities : \E i \in DOMAIN stream[p] : stream[p][i] = s
    BY EnqueuedAt
  <2>2. PICK i \in DOMAIN stream[p] : stream[p][i] = s
    BY <2>1
  <2>3. i \in DOMAIN stream'[p] /\ stream'[p][i] = s
    BY <2>2, <1>0 DEF GrownBy
  <2> QED BY <2>3 DEF Enqueued, Range
<1>2. r \in Enqueued'
  BY <1>0 DEF GrownBy, Enqueued, Range
<1>3. ASSUME NEW s \in Enqueued', s # r PROVE s \in Enqueued
  <2>1. PICK p \in Priorities : s \in Range(stream'[p])
    BY DEF Enqueued
  <2>2. PICK i \in DOMAIN stream'[p] : stream'[p][i] = s
    BY <2>1 DEF Range
  <2>3. i \in DOMAIN stream[p] /\ stream[p][i] = s
    BY <2>2, <1>0, <1>3 DEF GrownBy
  <2> QED BY <2>3, EnqueuedAt
<1> QED BY <1>1, <1>2, <1>3

LEMMA EnqueuedType ==
  ASSUME QueueTypeOK
  PROVE  Enqueued \subseteq Requests
<1> SUFFICES ASSUME NEW r \in Enqueued PROVE r \in Requests
  OBVIOUS
<1>1. PICK p \in Priorities : \E i \in DOMAIN stream[p] : stream[p][i] = r
  BY EnqueuedAt
<1>2. stream[p] \in Seq(Requests)
  BY DEF QueueTypeOK
<1> QED BY <1>1, <1>2

-----------------------------------------------------------------------------
(* Types. *)

LEMMA UndeliveredIs ==
  ASSUME QueueTypeOK, NEW p \in Priorities
  PROVE  \/ /\ Undelivered(p) = <<>> /\ Len(Undelivered(p)) = 0
         \/ /\ cursor[p] + 1 \in DOMAIN stream[p]
            /\ Undelivered(p) = <<stream[p][cursor[p] + 1]>> /\ Len(Undelivered(p)) = 1
            /\ stream[p][cursor[p] + 1] \in Requests
<1>1. stream[p] \in Seq(Requests) /\ cursor[p] \in Nat
  BY DEF QueueTypeOK
<1>2. CASE cursor[p] < Len(stream[p])
  <2>1. cursor[p] + 1 \in DOMAIN stream[p]
    BY <1>1, <1>2
  <2> QED BY <1>1, <1>2, <2>1 DEF Undelivered
<1>3. CASE ~(cursor[p] < Len(stream[p]))
  BY <1>3 DEF Undelivered
<1> QED BY <1>2, <1>3

LEMMA UndeliveredType ==
  ASSUME QueueTypeOK, NEW p \in Priorities
  PROVE  /\ Undelivered(p) \in Seq(Requests)
         /\ Range(Undelivered(p)) \subseteq Requests
         /\ cursor[p] + Len(Undelivered(p)) \in Nat
         /\ cursor[p] + Len(Undelivered(p)) <= Len(stream[p])
<1>1. stream[p] \in Seq(Requests) /\ cursor[p] \in Nat /\ cursor[p] <= Len(stream[p])
  BY DEF QueueTypeOK
<1>2. CASE Undelivered(p) = <<>> /\ Len(Undelivered(p)) = 0
  BY <1>1, <1>2 DEF Range
<1>3. CASE /\ cursor[p] + 1 \in DOMAIN stream[p]
           /\ Undelivered(p) = <<stream[p][cursor[p] + 1]>> /\ Len(Undelivered(p)) = 1
           /\ stream[p][cursor[p] + 1] \in Requests
  BY <1>1, <1>3 DEF Range
<1> QED BY <1>2, <1>3, UndeliveredIs

LEMMA HeadOfBatch ==
  ASSUME QueueTypeOK, NEW w \in Workers, wpc[w] \in {"handle", "ack"}
  PROVE  /\ batch[w] \in Seq(Requests) /\ Len(batch[w]) \in Nat /\ Len(batch[w]) >= 1
         /\ DOMAIN batch[w] = 1..Len(batch[w])
         /\ Head(batch[w]) = batch[w][1] /\ Head(batch[w]) \in Requests
         /\ Tail(batch[w]) \in Seq(Requests) /\ Len(Tail(batch[w])) = Len(batch[w]) - 1
         /\ DOMAIN Tail(batch[w]) = 1..(Len(batch[w]) - 1)
         /\ \A i \in 1..(Len(batch[w]) - 1) : Tail(batch[w])[i] = batch[w][i + 1]
         /\ Tail(batch[w]) = <<>> <=> Len(batch[w]) = 1
<1>1. batch[w] \in Seq(Requests) /\ batch[w] # <<>>
  BY DEF QueueTypeOK
<1>2. /\ Len(batch[w]) \in Nat /\ Len(batch[w]) >= 1 /\ DOMAIN batch[w] = 1..Len(batch[w])
      /\ Head(batch[w]) = batch[w][1] /\ Head(batch[w]) \in Requests
  BY <1>1
<1>3. /\ Tail(batch[w]) \in Seq(Requests) /\ Len(Tail(batch[w])) = Len(batch[w]) - 1
      /\ \A i \in 1..(Len(batch[w]) - 1) : Tail(batch[w])[i] = batch[w][i + 1]
  BY <1>1, HeadTailProperties
<1>4. DOMAIN Tail(batch[w]) = 1..(Len(batch[w]) - 1)
  BY <1>2, <1>3
<1>5. Tail(batch[w]) = <<>> <=> Len(batch[w]) = 1
  <2>1. \A t \in Seq(Requests) : t = <<>> <=> Len(t) = 0
    BY EmptySeq
  <2>2. Tail(batch[w]) = <<>> <=> Len(Tail(batch[w])) = 0
    BY <1>3, <2>1
  <2>3. Len(Tail(batch[w])) = 0 <=> Len(batch[w]) = 1
    BY <1>2, <1>3
  <2> QED BY <2>2, <2>3
<1> QED BY <1>1, <1>2, <1>3, <1>4, <1>5

LEMMA EnqueueTypes ==
  ASSUME QueueTypeOK, Keyed, NEW r \in Requests, EnqueueStep(r)
  PROVE  QueueTypeOK'
<1> USE OrchestratorAssumption
<1>1. CASE Enqueue(r) \/ BudgetExceeded(r)
  <2>1. CASE Enqueue(r)
    BY <2>1, SMTT(20) DEF Enqueue, QueueTypeOK, workerVars
  <2>2. CASE BudgetExceeded(r)
    BY <2>2, SMTT(20) DEF BudgetExceeded, QueueTypeOK, workerVars
  <2> QED BY <1>1, <2>1, <2>2
<1>2. CASE SetNX(r) \/ SetNXError(r)
  <2>1. UNCHANGED <<reply, expired, stream, cursor, pel, wpc, batch, handled, failed>>
    BY <1>2 DEF SetNX, SetNXError, workerVars
  <2>2. epc' \in [Requests -> {"idle", "setnx", "get", "xadd", "done", "error"}]
    <3>1. CASE SetNX(r)
      <4>1. epc' = [epc EXCEPT ![r] = "xadd"] \/ epc' = [epc EXCEPT ![r] = "get"]
        BY <3>1 DEF SetNX
      <4>2. epc \in [Requests -> {"idle", "setnx", "get", "xadd", "done", "error"}]
        BY DEF QueueTypeOK
      <4> QED BY <4>1, <4>2
    <3>2. CASE SetNXError(r)
      BY <3>2 DEF SetNXError, QueueTypeOK
    <3> QED BY <1>2, <3>1, <3>2
  <2>3. idem' \in [Keys -> Requests \cup {NoRun}]
    <3>1. idem' = idem \/ idem' = [idem EXCEPT ![KeyOf[r]] = r]
      BY <1>2 DEF SetNX, SetNXError
    <3>2. idem \in [Keys -> Requests \cup {NoRun}]
      BY DEF QueueTypeOK
    <3> QED BY <3>1, <3>2
  <2> QED BY <2>1, <2>2, <2>3 DEF QueueTypeOK
<1>3. CASE GetExisting(r) \/ GetError(r)
  <2>1. KeyOf[r] \in Keys => idem[KeyOf[r]] \in Requests \cup {NoRun}
    BY DEF QueueTypeOK
  <2>2. CASE GetError(r)
    BY <2>2 DEF GetError, QueueTypeOK, workerVars
  <2>3. CASE GetExisting(r)
    <3>1. idem[KeyOf[r]] \in Requests \cup {NoRun}
      BY <2>1, <2>3 DEF GetExisting, Keyed
    <3> QED BY <2>3, <3>1 DEF GetExisting, QueueTypeOK, workerVars
  <2> QED BY <1>3, <2>2, <2>3
<1>4. CASE XAdd(r) \/ XAddError(r)
  <2>1. /\ stream' \in [Priorities -> Seq(Requests)]
        /\ \A p \in Priorities : cursor[p] <= Len(stream'[p])
    <3>1. CASE Append1(r)
      <4>1. stream' \in [Priorities -> Seq(Requests)] /\ GrownBy(r)
        BY <3>1, AppendGrows
      <4>2. ASSUME NEW p \in Priorities PROVE cursor[p] <= Len(stream'[p])
        <5>1. /\ Len(stream[p]) \in Nat
              /\ Len(stream'[p]) \in {Len(stream[p]), Len(stream[p]) + 1}
          BY <4>1 DEF GrownBy
        <5>2. cursor[p] \in Nat /\ cursor[p] <= Len(stream[p])
          BY DEF QueueTypeOK
        <5> QED BY <5>1, <5>2
      <4> QED BY <4>1, <4>2
    <3>2. CASE UNCHANGED stream
      BY <3>2 DEF QueueTypeOK
    <3> QED BY <1>4, <3>1, <3>2 DEF XAdd, XAddError
  <2>2. UNCHANGED <<idem, expired, cursor, pel, wpc, batch, handled, failed>>
    BY <1>4 DEF XAdd, XAddError, workerVars
  <2>3. /\ epc' \in [Requests -> {"idle", "setnx", "get", "xadd", "done", "error"}]
        /\ reply' \in [Requests -> Requests \cup {NoRun}]
    <3>1. CASE XAdd(r)
      BY <3>1 DEF XAdd, QueueTypeOK
    <3>2. CASE XAddError(r)
      BY <3>2 DEF XAddError, QueueTypeOK
    <3> QED BY <1>4, <3>1, <3>2
  <2> QED BY <2>1, <2>2, <2>3 DEF QueueTypeOK
<1> QED BY <1>1, <1>2, <1>3, <1>4 DEF EnqueueStep

LEMMA ReadGroupTypes ==
  ASSUME QueueTypeOK, NEW w \in Workers, ReadGroup(w)
  PROVE  QueueTypeOK'
<1> DEFINE new == Undelivered("interactive") \o Undelivered("background")
<1>1. "interactive" \in Priorities /\ "background" \in Priorities
  BY DEF Priorities
<1>2. new \in Seq(Requests)
  BY <1>1, UndeliveredType, ConcatProperties
<1>3. batch' = [batch EXCEPT ![w] = new] /\ batch'[w] = new /\ new # <<>>
  BY DEF ReadGroup, QueueTypeOK
<1>4. /\ cursor' \in [Priorities -> Nat]
      /\ \A p \in Priorities : cursor'[p] <= Len(stream[p])
  BY UndeliveredType DEF ReadGroup
<1>5. pel' \in [Priorities -> SUBSET Requests]
  BY UndeliveredType DEF ReadGroup, QueueTypeOK
<1>6. /\ wpc' = [wpc EXCEPT ![w] = "handle"]
      /\ UNCHANGED <<epc, reply, idem, expired, stream, handled, failed>>
  BY DEF ReadGroup, enqueueVars
<1>7. /\ batch' \in [Workers -> Seq(Requests)]
      /\ wpc' \in [Workers -> {"down", "read", "handle", "ack"}]
      /\ \A v \in Workers : (batch'[v] = <<>>) <=> (wpc'[v] \in {"down", "read"})
  BY <1>2, <1>3, <1>6 DEF QueueTypeOK
<1> QED BY <1>4, <1>5, <1>6, <1>7 DEF QueueTypeOK

LEMMA WorkerTypes ==
  ASSUME QueueTypeOK, NEW w \in Workers,
         Handle(w) \/ HandleError(w) \/ Ack(w) \/ WorkerStart(w) \/ WorkerDown(w)
  PROVE  QueueTypeOK'
<1>1. UNCHANGED <<epc, reply, idem, expired, stream, cursor>>
  BY DEF Handle, HandleError, Ack, WorkerStart, WorkerDown, enqueueVars
<1>2. CASE Handle(w)
  <2>1. Head(batch[w]) \in Requests
    BY <1>2, HeadOfBatch DEF Handle
  <2> QED BY <1>1, <1>2, <2>1 DEF Handle, QueueTypeOK
<1>3. CASE HandleError(w) \/ Ack(w)
  <2>1. wpc[w] \in {"handle", "ack"} /\ NextOf(w) /\ handled' = handled
    BY <1>3 DEF HandleError, Ack
  <2>2. /\ Head(batch[w]) \in Requests /\ Tail(batch[w]) \in Seq(Requests)
        /\ Tail(batch[w]) = <<>> <=> Len(batch[w]) = 1
    BY <2>1, HeadOfBatch
  <2>3. /\ batch' = [batch EXCEPT ![w] = Tail(batch[w])]
        /\ wpc' = [wpc EXCEPT ![w] = IF Len(batch[w]) = 1 THEN "read" ELSE "handle"]
    BY <2>1 DEF NextOf
  <2>4. /\ batch' \in [Workers -> Seq(Requests)]
        /\ wpc' \in [Workers -> {"down", "read", "handle", "ack"}]
        /\ \A v \in Workers : (batch'[v] = <<>>) <=> (wpc'[v] \in {"down", "read"})
    BY <2>2, <2>3 DEF QueueTypeOK
  <2>5. failed' \in SUBSET Requests
    BY <1>3, <2>2 DEF HandleError, Ack, QueueTypeOK
  <2>6. pel' \in [Priorities -> SUBSET Requests]
    <3>1. CASE UNCHANGED pel
      BY <3>1 DEF QueueTypeOK
    <3>2. CASE pel' = [pel EXCEPT ![PriorityOf[Head(batch[w])]] = @ \ {Head(batch[w])}]
      BY <3>2 DEF QueueTypeOK
    <3> QED BY <1>3, <3>1, <3>2 DEF HandleError, Ack
  <2> QED BY <1>1, <2>1, <2>4, <2>5, <2>6 DEF QueueTypeOK
<1>4. CASE WorkerStart(w) \/ WorkerDown(w)
  <2>1. <<>> \in Seq(Requests)
    OBVIOUS
  <2>2. UNCHANGED <<pel, handled, failed>>
    BY <1>4 DEF WorkerStart, WorkerDown
  <2>3. /\ batch' \in [Workers -> Seq(Requests)]
        /\ wpc' \in [Workers -> {"down", "read", "handle", "ack"}]
        /\ \A v \in Workers : (batch'[v] = <<>>) <=> (wpc'[v] \in {"down", "read"})
    <3>1. CASE WorkerStart(w)
      BY <2>1, <3>1, SMTT(20) DEF WorkerStart, QueueTypeOK
    <3>2. CASE WorkerDown(w)
      BY <2>1, <3>2, SMTT(20) DEF WorkerDown, QueueTypeOK
    <3> QED BY <1>4, <3>1, <3>2
  <2> QED BY <1>1, <2>2, <2>3 DEF QueueTypeOK
<1> QED BY <1>2, <1>3, <1>4

-----------------------------------------------------------------------------
(* Claims and replies. *)

(* A reply names its run as long as claims are given up only for errors. *)
LEMMA ReplyStands ==
  ASSUME QueueTypeOK, ReplyNamesRun, NEW r \in Requests, UNCHANGED reply,
         Enqueued \subseteq Enqueued',
         \A s \in Requests : s # r => epc'[s] = epc[s],
         epc[r] \in {"xadd", "error"} => epc'[r] = "error" \/ r \in Enqueued'
  PROVE  ReplyNamesRun'
<1> SUFFICES ASSUME NEW s \in Requests, reply[s] # NoRun
             PROVE  \/ reply[s] \in Enqueued'
                    \/ KeyOf[reply[s]] = KeyOf[s] /\ epc'[reply[s]] \in {"xadd", "error"}
  BY DEF ReplyNamesRun
<1>1. reply[s] \in Requests
  BY DEF QueueTypeOK
<1>2. \/ reply[s] \in Enqueued
      \/ KeyOf[reply[s]] = KeyOf[s] /\ epc[reply[s]] \in {"xadd", "error"}
  BY DEF ReplyNamesRun
<1>3. CASE reply[s] = r
  BY <1>2, <1>3
<1>4. CASE reply[s] # r
  BY <1>1, <1>2, <1>4
<1> QED BY <1>3, <1>4

(* A step that queues nothing and touches neither keys nor replies. *)
LEMMA EnqueueWaits ==
  ASSUME QueueTypeOK, ClaimInv, NEW r \in Requests, Enqueue(r) \/ BudgetExceeded(r) \/ GetError(r)
  PROVE  ClaimInv'
<1>1. UNCHANGED <<reply, idem, expired, stream>> /\ Enqueued' = Enqueued
  BY DEF Enqueue, BudgetExceeded, GetError, Enqueued
<1>2. /\ epc[r] \in {"idle", "get"}
      /\ \A s \in Requests : s # r => epc'[s] = epc[s]
      /\ epc'[r] \in {"setnx", "xadd", "error"}
      /\ epc'[r] = "setnx" => KeyOf[r] \in Keys
      /\ epc'[r] = "xadd" => KeyOf[r] = NoKey
  BY OrchestratorAssumption DEF Enqueue, BudgetExceeded, GetError, QueueTypeOK
<1>3. r \notin Enqueued
  BY <1>2 DEF ClaimInv, QueuedIsDone
<1>4. Keyed' /\ ClaimHeld' /\ QueuedIsDone'
  BY <1>1, <1>2, <1>3, EnqueuedType DEF ClaimInv, Keyed, ClaimHeld, QueuedIsDone
<1>5. ClaimIsRun'
  BY <1>1, <1>2, <1>3, SMTT(20) DEF ClaimInv, ClaimIsRun, QueueTypeOK
<1>6. ReplyNamesRun'
  BY <1>1, <1>2, ReplyStands DEF ClaimInv
<1> QED BY <1>4, <1>5, <1>6 DEF ClaimInv

LEMMA SetNXKeeps ==
  ASSUME QueueTypeOK, ClaimInv, NEW r \in Requests, SetNX(r) \/ SetNXError(r)
  PROVE  ClaimInv'
<1>1. UNCHANGED <<reply, expired, stream>> /\ Enqueued' = Enqueued
  BY DEF SetNX, SetNXError, Enqueued
<1>2. /\ epc[r] = "setnx" /\ KeyOf[r] \in Keys
      /\ \A s \in Requests : s # r => epc'[s] = epc[s]
      /\ epc'[r] \in {"xadd", "get", "error"}
  BY DEF SetNX, SetNXError, QueueTypeOK, ClaimInv, Keyed
<1>3. r \notin Enqueued
  BY <1>2 DEF ClaimInv, QueuedIsDone
<1>4. \/ idem' = idem /\ epc'[r] \in {"get", "error"}
      \/ /\ idem[KeyOf[r]] = NoRun /\ idem' = [idem EXCEPT ![KeyOf[r]] = r]
         /\ epc'[r] \in {"xadd", "error"}
  BY DEF SetNX, SetNXError, QueueTypeOK
<1>5. NoRun \notin Requests
  BY OrchestratorAssumption
<1>6. Keyed' /\ QueuedIsDone'
  BY <1>1, <1>2, <1>3, EnqueuedType DEF ClaimInv, Keyed, QueuedIsDone
<1>7. ASSUME NEW s \in Requests, KeyOf[s] \notin expired \cup {NoKey},
             epc'[s] = "xadd" \/ s \in Enqueued
      PROVE  idem'[KeyOf[s]] = s
  <2>1. CASE s = r
    BY <1>2, <1>3, <1>4, <1>7, <2>1 DEF QueueTypeOK
  <2>2. CASE s # r
    <3>1. idem[KeyOf[s]] = s
      BY <1>2, <1>7, <2>2 DEF ClaimInv, ClaimHeld
    <3>2. idem' = idem \/ KeyOf[s] # KeyOf[r]
      BY <1>4, <1>5, <3>1
    <3>3. KeyOf[s] \in Keys
      BY <1>7, OrchestratorAssumption
    <3> QED BY <1>4, <3>1, <3>2, <3>3 DEF QueueTypeOK
  <2> QED BY <2>1, <2>2
<1>8. ClaimHeld'
  BY <1>1, <1>7 DEF ClaimHeld
<1>9. ClaimIsRun'
  BY <1>1, <1>2, <1>3, <1>4 DEF ClaimInv, ClaimIsRun, QueueTypeOK
<1>10. ReplyNamesRun'
  BY <1>1, <1>2, ReplyStands DEF ClaimInv
<1> QED BY <1>6, <1>8, <1>9, <1>10 DEF ClaimInv

LEMMA GetKeeps ==
  ASSUME QueueTypeOK, ClaimInv, NEW r \in Requests, GetExisting(r)
  PROVE  ClaimInv'
<1>1. UNCHANGED <<idem, expired, stream>> /\ Enqueued' = Enqueued
  BY DEF GetExisting, Enqueued
<1>2. /\ epc[r] = "get" /\ KeyOf[r] \in Keys /\ idem[KeyOf[r]] # NoRun
      /\ epc' = [epc EXCEPT ![r] = "done"]
      /\ reply' = [reply EXCEPT ![r] = idem[KeyOf[r]]]
  BY DEF GetExisting, ClaimInv, Keyed
<1>3. r \notin Enqueued
  BY <1>2 DEF ClaimInv, QueuedIsDone
<1>4. Keyed' /\ ClaimHeld' /\ QueuedIsDone'
  BY <1>1, <1>2, <1>3 DEF ClaimInv, Keyed, ClaimHeld, QueuedIsDone, QueueTypeOK
<1>5. ClaimIsRun'
  BY <1>1, <1>2, <1>3 DEF ClaimInv, ClaimIsRun, QueueTypeOK
<1>6. \/ idem[KeyOf[r]] \in Enqueued
      \/ KeyOf[idem[KeyOf[r]]] = KeyOf[r] /\ epc[idem[KeyOf[r]]] \in {"xadd", "error"}
  BY <1>2 DEF ClaimInv, ClaimIsRun
<1>7. ReplyNamesRun'
  BY <1>1, <1>2, <1>3, <1>6 DEF ClaimInv, ReplyNamesRun, QueueTypeOK
<1> QED BY <1>4, <1>5, <1>7 DEF ClaimInv

LEMMA XAddKeeps ==
  ASSUME QueueTypeOK, ClaimInv, NEW r \in Requests, XAdd(r) \/ XAddError(r)
  PROVE  ClaimInv'
<1>1. UNCHANGED <<idem, expired>> /\ epc[r] = "xadd"
  BY DEF XAdd, XAddError
<1>2. \A s \in Requests : s # r => epc'[s] = epc[s] /\ reply'[s] = reply[s]
  BY DEF XAdd, XAddError, QueueTypeOK
<1>3. \/ Append1(r) /\ Enqueued' = Enqueued \cup {r}
      \/ stream' = stream /\ Enqueued' = Enqueued
  <2>1. CASE Append1(r)
    BY <2>1, AppendEnqueues
  <2>2. CASE stream' = stream
    BY <2>2 DEF Enqueued
  <2> QED BY <2>1, <2>2 DEF XAdd, XAddError
<1>4. r \notin Enqueued
  BY <1>1 DEF ClaimInv, QueuedIsDone
<1>5. \/ epc'[r] = "done" /\ reply'[r] = r /\ r \in Enqueued'
      \/ epc'[r] = "error" /\ reply'[r] = reply[r]
  <2>1. CASE XAdd(r)
    BY <2>1, AppendEnqueues DEF XAdd, QueueTypeOK
  <2>2. CASE XAddError(r)
    BY <2>2 DEF XAddError, QueueTypeOK
  <2> QED BY <2>1, <2>2
<1>6. Keyed' /\ ClaimHeld'
  BY <1>1, <1>2, <1>3, <1>5 DEF ClaimInv, Keyed, ClaimHeld
<1>7. ClaimIsRun'
  <2> SUFFICES ASSUME NEW key \in Keys, idem[key] # NoRun
               PROVE  /\ KeyOf[idem[key]] = key
                      /\ idem[key] \in Enqueued' \/ epc'[idem[key]] \in {"xadd", "error"}
    BY <1>1 DEF ClaimIsRun
  <2>1. /\ KeyOf[idem[key]] = key /\ idem[key] \in Requests
        /\ idem[key] \in Enqueued \/ epc[idem[key]] \in {"xadd", "error"}
    BY DEF ClaimInv, ClaimIsRun, QueueTypeOK
  <2>2. CASE idem[key] = r
    BY <1>5, <2>1, <2>2
  <2>3. CASE idem[key] # r
    BY <1>2, <1>3, <2>1, <2>3
  <2> QED BY <2>2, <2>3
<1>8. ReplyNamesRun'
  <2> SUFFICES ASSUME NEW s \in Requests, reply'[s] # NoRun
               PROVE  \/ reply'[s] \in Enqueued'
                      \/ KeyOf[reply'[s]] = KeyOf[s] /\ epc'[reply'[s]] \in {"xadd", "error"}
    BY DEF ReplyNamesRun
  <2>1. CASE s = r /\ reply'[r] = r /\ r \in Enqueued'
    BY <2>1
  <2>2. CASE reply'[s] = reply[s]
    <3>1. /\ reply[s] \in Requests
          /\ \/ reply[s] \in Enqueued
             \/ KeyOf[reply[s]] = KeyOf[s] /\ epc[reply[s]] \in {"xadd", "error"}
      BY <2>2 DEF ClaimInv, ReplyNamesRun, QueueTypeOK
    <3>2. CASE reply[s] = r
      BY <1>1, <1>4, <1>5, <2>2, <3>1, <3>2
    <3>3. CASE reply[s] # r
      BY <1>2, <1>3, <2>2, <3>1, <3>3
    <3> QED BY <3>2, <3>3
  <2> QED BY <1>2, <1>5, <2>1, <2>2
<1>9. QueuedIsDone'
  BY <1>2, <1>3, <1>4, <1>5, EnqueuedType DEF ClaimInv, QueuedIsDone
<1> QED BY <1>6, <1>7, <1>8, <1>9 DEF ClaimInv

LEMMA ExpiryKeeps ==
  ASSUME QueueTypeOK, ClaimInv, NEW key \in Keys, IdemExpires(key)
  PROVE  ClaimInv'
<1>1. UNCHANGED <<epc, reply, stream>> /\ Enqueued' = Enqueued
  BY DEF IdemExpires, Enqueued
<1>2. idem' = [idem EXCEPT ![key] = NoRun] /\ expired' = expired \cup {key}
  BY DEF IdemExpires
<1>3. Keyed' /\ ReplyNamesRun' /\ QueuedIsDone'
  BY <1>1 DEF ClaimInv, Keyed, ReplyNamesRun, QueuedIsDone
<1>4. ClaimHeld'
  BY <1>1, <1>2 DEF ClaimInv, ClaimHeld, QueueTypeOK
<1>5. ClaimIsRun'
  BY <1>1, <1>2 DEF ClaimInv, ClaimIsRun, QueueTypeOK
<1> QED BY <1>3, <1>4, <1>5 DEF ClaimInv

LEMMA ClaimsUndisturbed ==
  ASSUME ClaimInv, UNCHANGED <<epc, reply, idem, expired, stream>>
  PROVE  ClaimInv'
BY DEF ClaimInv, Keyed, ClaimHeld, ClaimIsRun, ReplyNamesRun, QueuedIsDone, Enqueued

-----------------------------------------------------------------------------
(* Deliveries. *)

LEMMA QueueingKeepsPending ==
  ASSUME QueueTypeOK, DeliveryInv, UNCHANGED <<cursor, pel, batch, wpc, handled>>,
         UNCHANGED stream \/ \E r \in Requests : Append1(r)
  PROVE  DeliveryInv'
<1>1. ASSUME NEW p \in Priorities, NEW i \in 1..cursor[p]
      PROVE  stream'[p][i] = stream[p][i]
  <2>1. CASE UNCHANGED stream
    BY <2>1
  <2>2. ASSUME NEW r \in Requests, Append1(r) PROVE stream'[p][i] = stream[p][i]
    <3>1. GrownBy(r)
      BY <2>2, AppendGrows
    <3>2. i \in 1..Len(stream[p])
      BY <3>1 DEF QueueTypeOK, GrownBy
    <3> QED BY <3>1, <3>2 DEF GrownBy
  <2> QED BY <2>1, <2>2
<1> QED BY <1>1 DEF DeliveryInv, AckIsHandled, UnhandledStaysPending

(* XREADGROUP moves the group past what it makes pending, and no further. *)
LEMMA ReadGroupKeeps ==
  ASSUME QueueTypeOK, DeliveryInv, NEW w \in Workers, ReadGroup(w)
  PROVE  DeliveryInv'
<1>1. UNCHANGED <<stream, handled>>
  BY DEF ReadGroup
<1>2. \A v \in Workers : wpc'[v] = "ack" => v # w /\ wpc[v] = "ack" /\ batch'[v] = batch[v]
  BY DEF ReadGroup, QueueTypeOK
<1>3. AckIsHandled'
  BY <1>1, <1>2 DEF DeliveryInv, AckIsHandled
<1>4. ASSUME NEW p \in Priorities, NEW i \in 1..cursor'[p]
      PROVE  stream[p][i] \in handled \cup pel'[p]
  <2>1. /\ cursor[p] \in Nat /\ cursor'[p] = cursor[p] + Len(Undelivered(p))
        /\ pel'[p] = pel[p] \cup Range(Undelivered(p))
    BY DEF ReadGroup, QueueTypeOK
  <2>2. CASE i \in 1..cursor[p]
    BY <2>1, <2>2 DEF DeliveryInv, UnhandledStaysPending
  <2>3. CASE i \notin 1..cursor[p]
    <3>1. i = cursor[p] + 1 /\ Undelivered(p) = <<stream[p][cursor[p] + 1]>>
      <4>1. i \in 1..(cursor[p] + Len(Undelivered(p))) /\ Len(Undelivered(p)) \in {0, 1}
        BY <2>1, UndeliveredIs
      <4>2. Len(Undelivered(p)) = 1 /\ i = cursor[p] + 1
        <5>1. cursor[p] \in Nat /\ i \in Nat /\ i > cursor[p]
          BY <2>1, <2>3, <4>1
        <5>2. CASE Len(Undelivered(p)) = 0
          BY <4>1, <5>1, <5>2
        <5>3. CASE Len(Undelivered(p)) = 1
          BY <4>1, <5>1, <5>3
        <5> QED BY <4>1, <5>2, <5>3
      <4> QED BY <4>2, UndeliveredIs
    <3>2. stream[p][i] \in Range(Undelivered(p))
      BY <3>1 DEF Range
    <3> QED BY <2>1, <3>2
  <2> QED BY <2>2, <2>3
<1> QED BY <1>1, <1>3, <1>4 DEF DeliveryInv, UnhandledStaysPending

LEMMA HandleKeeps ==
  ASSUME QueueTypeOK, DeliveryInv, NEW w \in Workers, Handle(w)
  PROVE  DeliveryInv'
<1>1. /\ UNCHANGED <<stream, cursor, pel, batch>>
      /\ handled' = handled \cup {Head(batch[w])} /\ wpc' = [wpc EXCEPT ![w] = "ack"]
  BY DEF Handle
<1> QED BY <1>1 DEF DeliveryInv, AckIsHandled, UnhandledStaysPending, QueueTypeOK

(* A worker is through with the first entry of its batch.  Only Ack        *)
(* removes it from the pending list.                                       *)
LEMMA DoneKeeps ==
  ASSUME QueueTypeOK, DeliveryInv, NEW w \in Workers, HandleError(w) \/ Ack(w)
  PROVE  DeliveryInv'
<1>1. UNCHANGED <<stream, cursor, handled>> /\ NextOf(w)
  BY DEF HandleError, Ack
<1>2. \A v \in Workers : wpc'[v] = "ack" => v # w /\ wpc[v] = "ack" /\ batch'[v] = batch[v]
  BY <1>1 DEF NextOf, QueueTypeOK
<1>3. AckIsHandled'
  BY <1>1, <1>2 DEF DeliveryInv, AckIsHandled
<1>4. ASSUME NEW p \in Priorities, NEW x \in pel[p], x \notin pel'[p]
      PROVE  x \in handled
  <2>1. Ack(w) /\ x = Head(batch[w])
    BY <1>4 DEF HandleError, Ack, QueueTypeOK
  <2> QED BY <2>1 DEF Ack, DeliveryInv, AckIsHandled
<1> QED BY <1>1, <1>3, <1>4 DEF DeliveryInv, UnhandledStaysPending

LEMMA RestartKeeps ==
  ASSUME QueueTypeOK, DeliveryInv, NEW w \in Workers, WorkerStart(w) \/ WorkerDown(w)
  PROVE  DeliveryInv'
<1>1. UNCHANGED <<stream, cursor, pel, handled>>
  BY DEF WorkerStart, WorkerDown
<1>2. \A v \in Workers : wpc'[v] = "ack" => wpc[v] = "ack" /\ batch'[v] = batch[v]
  BY DEF WorkerStart, WorkerDown, QueueTypeOK
<1> QED BY <1>1, <1>2 DEF DeliveryInv, AckIsHandled, UnhandledStaysPending

-----------------------------------------------------------------------------
(* The invariant is inductive. *)

LEMMA QueueInvInit == QueueInit => QueueInv
<1> SUFFICES ASSUME QueueInit PROVE QueueInv
  OBVIOUS
<1> USE OrchestratorAssumption DEF QueueInit
<1>1. <<>> \in Seq(Requests) /\ Len(<<>>) = 0 /\ {} \in SUBSET Requests /\ {} \in SUBSET Keys
  OBVIOUS
<1>2. QueueTypeOK
  BY <1>1 DEF QueueTypeOK
<1>3. Enqueued = {}
  BY DEF Enqueued, Range
<1>4. ClaimInv
  BY <1>3 DEF ClaimInv, Keyed, ClaimHeld, ClaimIsRun, ReplyNamesRun, QueuedIsDone
<1>5. DeliveryInv
  BY DEF DeliveryInv, AckIsHandled, UnhandledStaysPending
<1> QED BY <1>2, <1>4, <1>5 DEF QueueInv

LEMMA QueueInvStep == QueueInv /\ [QueueNext]_queueVars => QueueInv'
<1> SUFFICES ASSUME QueueInv, [QueueNext]_queueVars PROVE QueueInv'
  OBVIOUS
<1>0. QueueTypeOK /\ ClaimInv /\ DeliveryInv /\ Keyed
  BY DEF QueueInv, ClaimInv
<1> SUFFICES QueueTypeOK' /\ ClaimInv' /\ DeliveryInv'
  BY DEF QueueInv
<1>1. ASSUME NEW r \in Requests, EnqueueStep(r)
      PROVE  QueueTypeOK' /\ ClaimInv' /\ DeliveryInv'
  <2>1. QueueTypeOK'
    BY <1>0, <1>1, EnqueueTypes
  <2>2. ClaimInv'
    BY <1>0, <1>1, EnqueueWaits, SetNXKeeps, GetKeeps, XAddKeeps DEF EnqueueStep
  <2>3. /\ UNCHANGED <<cursor, pel, batch, wpc, handled>>
        /\ UNCHANGED stream \/ Append1(r)
    BY <1>1 DEF EnqueueStep, Enqueue, BudgetExceeded, SetNX, SetNXError, GetExisting, GetError,
       XAdd, XAddError, workerVars
  <2>4. DeliveryInv'
    BY <1>0, <2>3, QueueingKeepsPending
  <2> QED BY <2>1, <2>2, <2>4
<1>2. ASSUME NEW key \in Keys, IdemExpires(key)
      PROVE  QueueTypeOK' /\ ClaimInv' /\ DeliveryInv'
  <2>1. QueueTypeOK'
    BY <1>0, <1>2, OrchestratorAssumption DEF IdemExpires, QueueTypeOK, workerVars
  <2>2. UNCHANGED <<stream, cursor, pel, batch, wpc, handled>>
    BY <1>2 DEF IdemExpires, workerVars
  <2>3. ClaimInv' /\ DeliveryInv'
    BY <1>0, <1>2, <2>2, ExpiryKeeps, QueueingKeepsPending
  <2> QED BY <2>1, <2>3
<1>3. ASSUME NEW w \in Workers, WorkerStep(w) \/ WorkerStart(w) \/ WorkerDown(w)
      PROVE  QueueTypeOK' /\ ClaimInv' /\ DeliveryInv'
  <2>1. QueueTypeOK'
    BY <1>0, <1>3, ReadGroupTypes, WorkerTypes DEF WorkerStep
  <2>2. UNCHANGED <<epc, reply, idem, expired, stream>>
    BY <1>3 DEF WorkerStep, ReadGroup, Handle, HandleError, Ack, WorkerStart, WorkerDown,
       enqueueVars
  <2>3. ClaimInv'
    BY <1>0, <2>2, ClaimsUndisturbed
  <2>4. DeliveryInv'
    BY <1>0, <1>3, ReadGroupKeeps, HandleKeeps, DoneKeeps, RestartKeeps DEF WorkerStep
  <2> QED BY <2>1, <2>3, <2>4
<1>4. CASE UNCHANGED queueVars
  <2>1. UNCHANGED <<epc, reply, idem, expired, stream, cursor, pel, wpc, batch, handled, failed>>
    BY <1>4 DEF queueVars
  <2>2. QueueTypeOK'
    BY <1>0, <2>1 DEF QueueTypeOK
  <2> QED BY <1>0, <2>1, <2>2, ClaimsUndisturbed, QueueingKeepsPending
<1> QED BY <1>1, <1>2, <1>3, <1>4 DEF QueueNext

LEMMA QueueInvariance == QueueSpec => []QueueInv
<1>1. QueueInit => QueueInv
  BY QueueInvInit
<1>2. QueueInv /\ [QueueNext]_queueVars => QueueInv'
  BY QueueInvStep
<1> QED BY <1>1, <1>2, PTL DEF QueueSpec

-----------------------------------------------------------------------------
(* The theorems about the orchestrator. *)

(* A webhook delivered any number of times, to any number of concurrent    *)
(* calls whose answers may get lost, queues one run while its key lives    *)
(* (orchestrator.go 88-101).                                               *)
THEOREM OneRunPerKey == QueueSpec => []NoDuplicateRun
<1>1. QueueInv => NoDuplicateRun
  <2> SUFFICES ASSUME QueueInv, NEW r \in Enqueued, NEW s \in Enqueued, KeyOf[r] = KeyOf[s],
                      KeyOf[r] \notin expired \cup {NoKey}
               PROVE  r = s
    BY DEF NoDuplicateRun
  <2>1. r \in Requests /\ s \in Requests
    BY EnqueuedType DEF QueueInv
  <2>2. idem[KeyOf[r]] = r /\ idem[KeyOf[s]] = s
    BY <2>1 DEF QueueInv, ClaimInv, ClaimHeld
  <2> QED BY <2>2
<1> QED BY <1>1, QueueInvariance, PTL

(* Whoever is given a run id can rely on it: the run is queued, or the     *)
(* request it is the id of has yet to queue it or was told of its failure  *)
(* (orchestrator.go 94-114).                                               *)
THEOREM RepliesNameRuns == QueueSpec => []ReplyNamesRun
<1>1. QueueInv => ReplyNamesRun
  BY DEF QueueInv, ClaimInv
<1> QED BY <1>1, QueueInvariance, PTL

(* A delivered run that no handler has succeeded with is never lost from   *)
(* the pending list, however many workers share the shard and however they *)
(* die (orchestrator.go 132-136, 162-177).                                 *)
THEOREM UnhandledIsPending == QueueSpec => []UnhandledStaysPending
<1>1. QueueInv => UnhandledStaysPending
  BY DEF QueueInv, DeliveryInv
<1> QED BY <1>1, QueueInvariance, PTL

=============================================================================
