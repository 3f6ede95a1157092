------------------------------- MODULE RunToken -------------------------------
(***************************************************************************)
(* Run tokens, internal/runtoken, over the session records of              *)
(* internal/sessionstore: minting and renewing within a live session,      *)
(* validation by the gateways, revocation through expiring Redis keys.     *)
(*                                                                         *)
(* One session.  A token is its jti and expiry (signature and payload are  *)
(* left out: decode accepts exactly what encode produced).  Time is in     *)
(* whole seconds, as the claims store it.  Mint and Renew are calls of     *)
(* several steps: the revocation check, the session lookup (through a      *)
(* secondary index that lags behind the table) and the encoding.           *)
(*                                                                         *)
(* The store writes without conditions: PutSession replaces whatever item  *)
(* is there, UpdateStatus sets any status and creates a missing item.  The *)
(* item is therefore the sequence of its versions, of which the index      *)
(* shows one, the latest or an earlier one, and moves on in their order.   *)
(***************************************************************************)
EXTENDS Naturals, Sequences

CONSTANTS
  Jtis,         \* token identities newJTI can draw
  Callers,      \* concurrent callers of Mint and Renew
  TTL,          \* Service.ttl
  MaxLifetime,  \* SessionChecker.maxLifetime
  Puts,         \* the records PutSession is called with
  MaxVersions,  \* bound on the writes to the session's item
  MaxTime,      \* bound on the clock
  NoSession     \* no item in the table, or in its index

Statuses == {"Running", "Terminated"}

(* An item.  expires = 0 stands for one without the TTL attribute, and     *)
(* only an item with the attribute sessionIdOnly is indexed.               *)
Session == [status : Statuses, createdAt : Nat, expires : Nat, indexed : BOOLEAN]

ASSUME RunTokenAssumption ==
  /\ TTL \in Nat /\ MaxLifetime \in Nat /\ MaxTime \in Nat /\ MaxVersions \in Nat
  /\ Puts \subseteq {s \in Session : s.indexed}
  /\ NoSession \notin Session

VARIABLES
  now,           \* the clock
  versions,      \* what the session's item in the Sessions table has been, up to now
  seen,          \* the version that session-id-index shows
  lookup,        \* the SessionsLookup item: absent, being put, or there
  issued,        \* history: tokens handed out
  revokedUntil,  \* expiry of the Redis key runtoken:revoked:<jti>
  revoked,       \* history: jtis with an effective Revoke
  ended,         \* history: jtis whose latest effective Revoke came with their
                 \*   longest-lived token and with no renewal under way
  pc, jti, deadline  \* per caller: where it is and what it has read

vars == <<now, versions, seen, lookup, issued, revokedUntil, revoked, ended,
          pc, jti, deadline>>

sessionVars == <<versions, seen, lookup>>

revocationVars == <<revokedUntil, revoked, ended>>

callerVars == <<pc, jti, deadline>>

Token == [jti : Jtis, exp : 1..(MaxTime + TTL)]

TypeOK ==
  /\ now \in 0..MaxTime
  /\ versions \in Seq(Session \cup {NoSession})
  /\ seen \in 1..Len(versions)
  /\ lookup \in {"absent", "due", "there"}
  /\ issued \in SUBSET Token
  /\ revokedUntil \in [Jtis -> Nat]
  /\ revoked \in SUBSET Jtis
  /\ ended \in SUBSET Jtis
  /\ pc \in [Callers -> {"idle", "check", "encode"}]
  /\ jti \in [Callers -> Jtis]
  /\ deadline \in [Callers -> Nat]

-----------------------------------------------------------------------------

Init ==
  /\ now = 0
  /\ versions = <<NoSession>> /\ seen = 1 /\ lookup = "absent"
  /\ issued = {}
  /\ revokedUntil = [j \in Jtis |-> 0]
  /\ revoked = {} /\ ended = {}
  /\ pc = [c \in Callers |-> "idle"]
  /\ jti \in [Callers -> Jtis]
  /\ deadline = [c \in Callers |-> 0]

Tick ==
  /\ now < MaxTime
  /\ now' = now + 1
  /\ UNCHANGED <<sessionVars, issued, revocationVars, callerVars>>

table == versions[Len(versions)]

Write(v) ==
  /\ Len(versions) < MaxVersions
  /\ versions' = Append(versions, v)
  /\ UNCHANGED <<now, seen, issued, revocationVars, callerVars>>

(* PutSession creates or replaces the Sessions item... *)
PutSession(s) ==
  /\ Write(s)
  /\ lookup' = IF lookup = "there" THEN lookup ELSE "due"

(* ...and puts the SessionsLookup item in a second write. *)
PutLookup ==
  /\ lookup = "due"
  /\ lookup' = "there"
  /\ UNCHANGED <<now, versions, seen, issued, revocationVars, callerVars>>

(* UpdateItem on a missing item creates one with nothing but its status. *)
WithStatus(v, status) ==
  IF v = NoSession
    THEN [status |-> status, createdAt |-> 0, expires |-> 0, indexed |-> FALSE]
    ELSE [v EXCEPT !.status = status]

(* UpdateStatus: a caller that does not know the org needs the lookup. *)
UpdateStatus(status, knowsOrg) ==
  /\ knowsOrg \/ lookup = "there"
  /\ Write(WithStatus(table, status))
  /\ UNCHANGED lookup

(* DynamoDB deletes an item some time after its TTL attribute. *)
ItemExpires ==
  /\ table # NoSession
  /\ table.expires # 0 /\ table.expires <= now
  /\ Write(NoSession)
  /\ UNCHANGED lookup

(* The secondary index follows its table some time later. *)
IndexCatchUp ==
  /\ seen < Len(versions)
  /\ seen' = seen + 1
  /\ UNCHANGED <<now, versions, lookup, issued, revocationVars, callerVars>>

(* What a query of session-id-index finds. *)
index ==
  IF versions[seen] # NoSession /\ versions[seen].indexed THEN versions[seen] ELSE NoSession

Earlier(a, b) == IF a < b THEN a ELSE b

(* SessionChecker.GetSession: when the session ends at the latest. *)
DeadlineOf(s) ==
  IF s.expires # 0 THEN Earlier(s.createdAt + MaxLifetime, s.expires)
                   ELSE s.createdAt + MaxLifetime

Alive_Any(s) == s # NoSession

(* GetSession found the session and it is not terminated. *)
Alive(s) == s # NoSession /\ s.status # "Terminated"

Expired_Late(t) == now > t.exp

Expired(t) == now >= t.exp

(* The Redis key of the jti still exists. *)
IsRevoked(j) == revokedUntil[j] > now

Valid(t) == ~Expired(t) /\ ~IsRevoked(t.jti)

UsedJtis == {t.jti : t \in issued} \cup {jti[c] : c \in {d \in Callers : pc[d] # "idle"}}

(* Mint: the session is looked up before the token is encoded. *)
Mint(c, j) ==
  /\ pc[c] = "idle"
  /\ j \notin UsedJtis
  /\ Alive(index)
  /\ pc' = [pc EXCEPT ![c] = "encode"]
  /\ jti' = [jti EXCEPT ![c] = j]
  /\ deadline' = [deadline EXCEPT ![c] = DeadlineOf(index)]
  /\ UNCHANGED <<now, sessionVars, issued, revocationVars>>

(* Renew begins like any gateway: it validates the token. *)
RenewValidate(c, t) ==
  /\ pc[c] = "idle"
  /\ Valid(t)
  /\ pc' = [pc EXCEPT ![c] = "check"]
  /\ jti' = [jti EXCEPT ![c] = t.jti]
  /\ UNCHANGED <<now, sessionVars, issued, revocationVars, deadline>>

RenewCheck(c) ==
  /\ pc[c] = "check"
  /\ Alive(index)
  /\ pc' = [pc EXCEPT ![c] = "encode"]
  /\ deadline' = [deadline EXCEPT ![c] = DeadlineOf(index)]
  /\ UNCHANGED <<now, sessionVars, issued, revocationVars, jti>>

(* The lookup fails or the session has ended. *)
RenewRefused(c) ==
  /\ pc[c] = "check"
  /\ pc' = [pc EXCEPT ![c] = "idle"]
  /\ UNCHANGED <<now, sessionVars, issued, revocationVars, jti, deadline>>

Expiry_Uncapped(d) == now + TTL

(* encodeToken: the TTL, but never beyond the session's deadline. *)
Expiry(d) == Earlier(now + TTL, d)

Encode(c) ==
  /\ pc[c] = "encode"
  /\ Expiry(deadline[c]) > now
  /\ issued' = issued \cup {[jti |-> jti[c], exp |-> Expiry(deadline[c])]}
  /\ pc' = [pc EXCEPT ![c] = "idle"]
  /\ UNCHANGED <<now, sessionVars, revocationVars, jti, deadline>>

(* ErrSessionExpired. *)
EncodeTooLate(c) ==
  /\ pc[c] = "encode"
  /\ Expiry(deadline[c]) <= now
  /\ pc' = [pc EXCEPT ![c] = "idle"]
  /\ UNCHANGED <<now, sessionVars, issued, revocationVars, jti, deadline>>

Renewing(j) == \E c \in Callers : pc[c] # "idle" /\ jti[c] = j

Longest(t) == \A u \in issued : u.jti = t.jti => u.exp <= t.exp

(* Revoke sets the key for the remaining life of the token it was given,   *)
(* whatever key an earlier Revoke of the same jti has left.                *)
Revoke(t) ==
  /\ t.exp > now
  /\ revokedUntil' = [revokedUntil EXCEPT ![t.jti] = t.exp]
  /\ revoked' = revoked \cup {t.jti}
  /\ ended' = IF Longest(t) /\ ~Renewing(t.jti) THEN ended \cup {t.jti}
                                                ELSE ended \ {t.jti}
  /\ UNCHANGED <<now, sessionVars, issued, callerVars>>

(* Revoking an expired token succeeds and does nothing. *)
RevokeExpired(t) ==
  /\ t.exp <= now
  /\ UNCHANGED vars

Next ==
  \/ Tick
  \/ \E s \in Puts : PutSession(s)
  \/ PutLookup
  \/ \E status \in Statuses, k \in BOOLEAN : UpdateStatus(status, k)
  \/ ItemExpires
  \/ IndexCatchUp
  \/ \E c \in Callers, j \in Jtis : Mint(c, j)
  \/ \E c \in Callers, t \in issued : RenewValidate(c, t)
  \/ \E c \in Callers : RenewCheck(c)
  \/ \E c \in Callers : RenewRefused(c)
  \/ \E c \in Callers : Encode(c)
  \/ \E c \in Callers : EncodeTooLate(c)
  \/ \E t \in issued : Revoke(t)
  \/ \E t \in issued : RevokeExpired(t)

Spec == Init /\ [][Next]_vars

-----------------------------------------------------------------------------
(* Properties. *)

Live(v) == v # NoSession /\ v.indexed /\ v.status # "Terminated"

(* Every token, through whatever sequence of renewals, ends no later than  *)
(* the lifetime cap and the TTL attribute of a live version of the session *)
(* that the index has shown, although the store replaces the session with  *)
(* other dates and the index lags (service.go 113-121, checker.go 56-62).  *)
TokensWithinSession ==
  \A t \in issued : \E i \in 1..seen :
    Live(versions[i]) /\ t.exp <= DeadlineOf(versions[i])

(* Revoking the longest-lived token of a jti, with no renewal of it under  *)
(* way, ends all its tokens for good, the earlier ones and any renewal     *)
(* tried later: the key outlives them and nothing is renewed meanwhile     *)
(* (service.go 132-138, 161-172, 182-186).                                 *)
RevocationEndsTokens ==
  \A t \in issued : t.jti \in ended => ~Valid(t)

(* Any revocation of a jti denies the renewals of its tokens too, as       *)
(* service.go 132-133 and service_test.go 139-140 say.  The code does not  *)
(* do that: the key expires with the token that was revoked.               *)
RevocationSurvivesRenewal ==
  \A t \in issued : t.jti \in revoked => ~Valid(t)

(* Nothing the index shows or will show, and nothing a caller has read,    *)
(* admits a token that is good beyond d.                                   *)
ClosedBeyond(d) ==
  /\ \A i \in seen..Len(versions) : Live(versions[i]) => DeadlineOf(versions[i]) <= d
  /\ \A c \in Callers : pc[c] = "encode" => deadline[c] <= d

(* A write that admits one. *)
Reopens(d) ==
  /\ Len(versions') = Len(versions) + 1
  /\ Live(table') /\ DeadlineOf(table') > d

(* Once a termination, a deletion or a shortened deadline has reached the  *)
(* index and the calls that read the session before are through, no Mint   *)
(* or Renew issues a token beyond it, until somebody writes a session that *)
(* is live for longer to the store: the lag of the index never brings an   *)
(* old version back (service.go 103-105, 143-145; checker.go 38-62).       *)
TokensFollowStore ==
  [][\A d \in 0..(MaxTime + TTL) : ClosedBeyond(d) =>
       /\ \A t \in issued' \ issued : t.exp <= d
       /\ ClosedBeyond(d)' \/ Reopens(d)]_vars

=============================================================================
