------------------------------- MODULE Secrets --------------------------------
(***************************************************************************)
(* Envelope-encrypted secrets of one organisation (internal/secrets).      *)
(* Clients are concurrent calls, each in a process with a configured       *)
(* KEKVersion.  A call is a sequence of SQL statements under READ          *)
(* COMMITTED: what a transaction writes stays in its own record until it   *)
(* commits, and any statement, key or KMS call may fail and roll it back.  *)
(* Every call that changes or reads a secret writes to the audit chain.    *)
(***************************************************************************)
EXTENDS AuditChain

CONSTANTS
  Clients,      \* concurrent calls
  Users,        \* callers
  SecretIds,    \* ids of secrets
  MaxDEK,       \* bound on org_deks.version
  MaxKEK        \* root key versions that may be configured

ASSUME SecretsAssumption == MaxDEK \in Nat /\ MaxKEK \in Nat \ {0}

VARIABLES
  deks,       \* org_deks: version -> [kek, key]: key, wrapped under root key kek
  secrets,    \* secrets: id -> [user, key, dek]: sealed with key, dek_version dek
  kekVersion, \* client -> Manager.KEKVersion of its process
  pc,         \* client -> next statement
  tx,         \* client -> the call's locals and its uncommitted writes
  issued,     \* history: ids given to secrets (random uuids)
  released    \* history: <<user, id>> of plaintexts returned

secretVars == <<deks, secrets, kekVersion, pc, tx, issued, released>>
vars == <<chainVars, secretVars>>

-----------------------------------------------------------------------------
NoKey == <<>>
Empty == [s \in {} |-> s]

NoTx == [op |-> "none", user |-> "none", id |-> "none", ver |-> 0, newKey |-> NoKey,
         known |-> {}, batch |-> Empty, writes |-> Empty, entries |-> {}]

Init ==
  /\ ChainInit
  /\ deks = Empty /\ secrets = Empty
  /\ kekVersion = [c \in Clients |-> 1]
  /\ pc = [c \in Clients |-> "idle"]
  /\ tx = [c \in Clients |-> NoTx]
  /\ issued = {} /\ released = {}

(* SELECT COALESCE(MAX(version), 0) FROM org_deks: committed rows only.    *)
MaxVersion == Max(DOMAIN deks \cup {0})

(* f, overwritten and extended by the rows that a transaction commits.     *)
Merge(rows, f) ==
  [x \in DOMAIN rows \cup DOMAIN f |-> IF x \in DOMAIN rows THEN rows[x] ELSE f[x]]

Goto(c, label) == pc' = [pc EXCEPT ![c] = label]

Start(c, op, user, id, ver, known) ==
  /\ pc[c] = "idle"
  /\ tx' = [tx EXCEPT ![c] = [NoTx EXCEPT !.op = op, !.user = user, !.id = id,
                                          !.ver = ver, !.known = known]]

(* audit.Write, as the last statement of a call or a transaction; Pending  *)
(* are the entries that other calls have inserted and not committed.       *)
Pending(c) == UNION {tx[d].entries : d \in Clients \ {c}}

WriteAudit(c, decision, writes) ==
  LET event == [actor |-> tx[c].user, action |-> tx[c].op,
                resource |-> tx[c].id, decision |-> decision]
  IN /\ Insert(Pending(c))
     /\ tx' = [tx EXCEPT ![c].entries = {Entry(event)}, ![c].writes = writes]
     /\ Goto(c, "commit")
     /\ UNCHANGED log

(* kekFor: the DEK of a version, unwrapped with the root key of the        *)
(* manager's own KEKVersion; GCM refuses a key it was not sealed with.     *)
kekFor(c, v) == v \in DOMAIN deks /\ deks[v].kek = kekVersion[c]

(* open: the ciphertext opens with the DEK it was sealed with.             *)
Opens(c, row) == kekFor(c, row.dek) /\ deks[row.dek].key = row.key

-----------------------------------------------------------------------------
(* Put: ensureDEK reads outside the transaction, and creates version 1     *)
(* inside it when there is none.                                           *)
ensureDEK(c) ==
  /\ \E u \in Users, s \in SecretIds \ issued :
       /\ Start(c, "secret.put", u, s, IF MaxVersion > 0 THEN MaxVersion ELSE 1, {})
       /\ issued' = issued \cup {s}
  /\ Goto(c, IF MaxVersion > 0 THEN "put" ELSE "insertDEK")
  /\ UNCHANGED <<chainVars, deks, secrets, kekVersion, released>>

(* The primary key (org_id, version) makes an insert wait for an           *)
(* uncommitted row of the same version, and fail once it is committed.     *)
Inserting(d, v) == tx[d].newKey # NoKey /\ tx[d].ver = v

InsertDEK(c) ==
  /\ pc[c] = "insertDEK"
  /\ tx[c].ver \notin DOMAIN deks
  /\ \A d \in Clients : ~Inserting(d, tx[c].ver)
  /\ tx' = [tx EXCEPT ![c].newKey = <<c, tx[c].ver>>]
  /\ Goto(c, IF tx[c].op = "secret.put" THEN "put" ELSE "select")
  /\ UNCHANGED <<chainVars, deks, secrets, kekVersion, issued, released>>

(* The DEK is the one just created or comes from kekFor.  INSERT and audit *)
(* are not seen by others before the commit.                               *)
Put(c) ==
  /\ pc[c] = "put"
  /\ tx[c].newKey # NoKey \/ kekFor(c, tx[c].ver)
  /\ LET key == IF tx[c].newKey # NoKey THEN tx[c].newKey ELSE deks[tx[c].ver].key
     IN WriteAudit(c, "allow",
          [s \in {tx[c].id} |-> [user |-> tx[c].user, key |-> key, dek |-> tx[c].ver]])
  /\ UNCHANGED <<deks, secrets, kekVersion, issued, released>>

(* Get: the row and its key, then the audit event, then the answer.  A     *)
(* missing or foreign secret is refused, and that is audited too.          *)
Owns(u, s) == s \in DOMAIN secrets /\ secrets[s].user = u

Get(c) ==
  /\ \E u \in Users, s \in issued :
       /\ Owns(u, s) /\ Opens(c, secrets[s])
       /\ Start(c, "secret.get", u, s, secrets[s].dek, {})
  /\ Goto(c, "allow")
  /\ UNCHANGED <<chainVars, deks, secrets, kekVersion, issued, released>>

GetRefused(c) ==
  /\ \E u \in Users, s \in issued :
       ~Owns(u, s) /\ Start(c, "secret.get", u, s, 0, {})
  /\ Goto(c, "deny")
  /\ UNCHANGED <<chainVars, deks, secrets, kekVersion, issued, released>>

GetDeny(c) ==
  /\ pc[c] = "deny"
  /\ WriteAudit(c, "deny", Empty)
  /\ UNCHANGED <<deks, secrets, kekVersion, issued, released>>

(* The plaintext is returned although its audit event could not be written *)
GetAllow_Unlogged(c) ==
  /\ pc[c] = "allow"
  /\ Goto(c, "commit")
  /\ UNCHANGED <<chainVars, deks, secrets, kekVersion, tx, issued, released>>

GetAllow(c) ==
  /\ pc[c] = "allow"
  /\ WriteAudit(c, "allow", Empty)
  /\ UNCHANGED <<deks, secrets, kekVersion, issued, released>>

(* Delete: the row is gone before the audit event is written.  A row that  *)
(* a rotation has updated is locked until the rotation ends.               *)
Locked(s) == \E d \in Clients : s \in DOMAIN tx[d].writes

Delete(c) ==
  /\ \E s \in DOMAIN secrets :
       /\ ~Locked(s)
       /\ Start(c, "secret.delete", secrets[s].user, s, 0, {})
       /\ secrets' = [t \in DOMAIN secrets \ {s} |-> secrets[t]]
  /\ Goto(c, "deleted")
  /\ UNCHANGED <<chainVars, deks, kekVersion, issued, released>>

DeleteAudit(c) ==
  /\ pc[c] = "deleted"
  /\ WriteAudit(c, "allow", Empty)
  /\ UNCHANGED <<deks, secrets, kekVersion, issued, released>>

(* RotateOrgDEK: the next version, its DEK, the secrets committed by then, *)
(* and an update by id for each, which a secret deleted meanwhile misses.  *)
RotateOrgDEK(c) ==
  /\ MaxVersion < MaxDEK
  /\ Start(c, "secret.rotate_dek", "admin", "org", MaxVersion + 1, DOMAIN secrets)
  /\ Goto(c, "insertDEK")
  /\ UNCHANGED <<chainVars, deks, secrets, kekVersion, issued, released>>

(* A page of the secrets instead of all of them. *)
RotateSelect_Page(c) ==
  /\ pc[c] = "select"
  /\ \E s \in DOMAIN secrets : tx' = [tx EXCEPT ![c].batch = [t \in {s} |-> secrets[t]]]
  /\ Goto(c, "update")
  /\ UNCHANGED <<chainVars, deks, secrets, kekVersion, issued, released>>

RotateSelect(c) ==
  /\ pc[c] = "select"
  /\ tx' = [tx EXCEPT ![c].batch = secrets]
  /\ Goto(c, "update")
  /\ UNCHANGED <<chainVars, deks, secrets, kekVersion, issued, released>>

(* UPDATE of all secrets of the org instead of the ones read, the          *)
(* ciphertext only where one was read.                                     *)
Reseal_ByOrg(c) ==
  [s \in DOMAIN secrets |->
     [secrets[s] EXCEPT !.dek = tx[c].ver,
                        !.key = IF s \in DOMAIN tx[c].batch THEN tx[c].newKey ELSE @]]

Reseal(c) ==
  [s \in DOMAIN tx[c].batch \cap DOMAIN secrets |->
     [tx[c].batch[s] EXCEPT !.key = tx[c].newKey, !.dek = tx[c].ver]]

RotateUpdate(c) ==
  /\ pc[c] = "update"
  /\ \A s \in DOMAIN tx[c].batch : Opens(c, tx[c].batch[s])
  /\ WriteAudit(c, "allow", Reseal(c))
  /\ UNCHANGED <<deks, secrets, kekVersion, issued, released>>

-----------------------------------------------------------------------------
(* The commit of a transaction or of a lone statement: all of it becomes   *)
(* visible.  An allowed Get returns the plaintext, unless the answer of    *)
(* the database is lost; any other call just returns.                      *)
NewDEK(c) ==
  [v \in (IF tx[c].newKey = NoKey THEN {} ELSE {tx[c].ver}) |->
     [kek |-> kekVersion[c], key |-> tx[c].newKey]]

Commit(c) ==
  /\ pc[c] = "commit"
  /\ CommitEntries(tx[c].entries)
  /\ deks' = Merge(NewDEK(c), deks)
  /\ secrets' = Merge(tx[c].writes, secrets)
  /\ released' \in {released,
                    released \cup {<<tx[c].user, tx[c].id>> :
                       v \in IF tx[c].op = "secret.get" THEN {tx[c].ver} \ {0} ELSE {}}}
  /\ Goto(c, "idle") /\ tx' = [tx EXCEPT ![c] = NoTx]
  /\ UNCHANGED <<lastId, raced, kekVersion, issued>>

(* Any statement, key or KMS call may fail: the call returns an error and  *)
(* its transaction is rolled back.  A refused duplicate version ends here. *)
Fail(c) ==
  /\ pc[c] # "idle"
  /\ Goto(c, "idle") /\ tx' = [tx EXCEPT ![c] = NoTx]
  /\ UNCHANGED <<chainVars, deks, secrets, kekVersion, issued, released>>

(* A process is restarted with the next KEKVersion in its configuration.   *)
Reconfigure(c) ==
  /\ pc[c] = "idle" /\ kekVersion[c] < MaxKEK
  /\ kekVersion' = [kekVersion EXCEPT ![c] = @ + 1]
  /\ UNCHANGED <<chainVars, deks, secrets, pc, tx, issued, released>>

Call(c) ==
  \/ ensureDEK(c) \/ InsertDEK(c) \/ Put(c)
  \/ Get(c) \/ GetAllow(c) \/ GetRefused(c) \/ GetDeny(c)
  \/ Delete(c) \/ DeleteAudit(c)
  \/ RotateOrgDEK(c) \/ RotateSelect(c) \/ RotateUpdate(c)
  \/ Commit(c) \/ Fail(c) \/ Reconfigure(c)

Next == \E c \in Clients : Call(c)

Spec == Init /\ [][Next]_vars

-----------------------------------------------------------------------------
(* Properties. *)

(* Every stored secret is sealed with the key that its dek_version names,  *)
(* and that key is stored: through concurrent first puts, puts beside a    *)
(* rotation, deletions and rolled back calls, whoever holds the root key   *)
(* can decrypt it (manager.go 121-190, 244-326).                           *)
SecretsReadable ==
  \A s \in DOMAIN secrets :
    secrets[s].dek \in DOMAIN deks /\ deks[secrets[s].dek].key = secrets[s].key

(* The commit of a rotation leaves no secret it knew of on an older key. *)
CoveredByRotation ==
  \A c \in Clients :
    (tx[c].op = "secret.rotate_dek" /\ Commit(c)) =>
      \A s \in tx[c].known \cap DOMAIN secrets' : secrets'[s].dek >= tx[c].ver

(* A rotation that commits leaves no secret on an older key that was       *)
(* stored when it began; one put meanwhile may keep the old key            *)
(* (manager.go 242-243).                                                   *)
RotationCovers == [][CoveredByRotation]_vars

(* No secret is stored and no plaintext handed out without its event in    *)
(* the log, whatever fails (manager.go 3-4, 183-190, 222-225).             *)
Logged(action, user, id) ==
  \E e \in log : /\ e.event.action = action /\ e.event.resource = id
                 /\ e.event.actor = user

AccessesLogged ==
  /\ \A s \in DOMAIN secrets : Logged("secret.put", secrets[s].user, s)
  /\ \A r \in released : Logged("secret.get", r[1], r[2])

=============================================================================
