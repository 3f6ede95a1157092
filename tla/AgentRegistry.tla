---------------------------- MODULE AgentRegistry -----------------------------
(***************************************************************************)
(* The agent registry of one organisation (internal/registry/store.go, the *)
(* routes of http.go and the lifecycle trigger of migration 003): agents,  *)
(* their numbered versions and the pointer to the current one.  Clients    *)
(* are concurrent requests.  A call is a sequence of SQL statements under  *)
(* READ COMMITTED: a row that an open transaction inserted or changed      *)
(* makes a conflicting statement wait, and any statement may fail.         *)
(***************************************************************************)
EXTENDS Integers, FiniteSets, FiniteSetsExt

CONSTANTS
  Clients,      \* concurrent requests
  Agents,       \* names, unique in the organisation
  Specs,        \* canonical specs (and their hashes)
  NoAgent,      \* no call in progress
  NoSpec,       \* no row
  MaxVersion    \* bound on agent_versions.version

ASSUME RegistryAssumption ==
  MaxVersion \in Nat \ {0} /\ NoAgent \notin Agents /\ NoSpec \notin Specs

Versions == 1..MaxVersion
Keys == Agents \X Versions

VARIABLES
  registered, \* agents: names with a committed row
  current,    \* agents.current_version_id: name -> version number, 0 for NULL
  status,     \* agent_versions.status: <<name, version>> -> status, "none" if no row
  spec,       \* agent_versions.spec and spec_hash
  pc,         \* client -> next statement
  tx          \* client -> [agent, ver, spec] of the call in progress

vars == <<registered, current, status, spec, pc, tx>>

Status == {"none", "draft", "published", "deprecated"}
Labels == {"idle", "create", "insert", "add", "locked", "publish"}
NoTx == [agent |-> NoAgent, ver |-> 0, spec |-> NoSpec]
Txs == [agent : Agents, ver : Versions, spec : Specs \cup {NoSpec}]

TypeOK ==
  /\ registered \subseteq Agents
  /\ current \in [Agents -> 0..MaxVersion]
  /\ status \in [Keys -> Status]
  /\ spec \in [Keys -> Specs \cup {NoSpec}]
  /\ pc \in [Clients -> Labels]
  /\ tx \in [Clients -> Txs \cup {NoTx}]

Init ==
  /\ registered = {}
  /\ current = [a \in Agents |-> 0]
  /\ status = [k \in Keys |-> "none"]
  /\ spec = [k \in Keys |-> NoSpec]
  /\ pc = [c \in Clients |-> "idle"]
  /\ tx = [c \in Clients |-> NoTx]

-----------------------------------------------------------------------------
(* The version row that a call works on.                                   *)
Key(c) == <<tx[c].agent, tx[c].ver>>

(* SELECT COALESCE(MAX(version), 0) + 1, over the committed versions.      *)
NextVersion(a) == Max({v \in Versions : status[<<a, v>>] # "none"} \cup {0}) + 1

(* Row locks of open transactions: a version selected FOR UPDATE, and an   *)
(* agent whose current_version_id was updated.                             *)
VersionLocked(k) == \E d \in Clients : pc[d] \in {"locked", "publish"} /\ Key(d) = k
AgentLocked(a) == \E d \in Clients : pc[d] = "publish" /\ tx[d].agent = a

Begin(c, a, v, s, label) ==
  /\ pc[c] = "idle"
  /\ pc' = [pc EXCEPT ![c] = label]
  /\ tx' = [tx EXCEPT ![c] = [agent |-> a, ver |-> v, spec |-> s]]

Goto(c, label) == pc' = [pc EXCEPT ![c] = label]

Return(c) ==
  /\ pc' = [pc EXCEPT ![c] = "idle"]
  /\ tx' = [tx EXCEPT ![c] = NoTx]

(* insertVersion: a draft row.                                             *)
insertVersion(c) ==
  /\ status' = [status EXCEPT ![Key(c)] = "draft"]
  /\ spec' = [spec EXCEPT ![Key(c)] = tx[c].spec]

(* CreateAgent: the agent and its version 1 in one transaction.  The name  *)
(* is unique: the insert waits for an open insert of the same name and     *)
(* fails (ErrDuplicateName) once the name is taken.                        *)
CreateAgent(c) ==
  /\ \E a \in Agents \ registered, s \in Specs :
       /\ \A d \in Clients : ~(pc[d] = "create" /\ tx[d].agent = a)
       /\ Begin(c, a, 1, s, "create")
  /\ UNCHANGED <<registered, current, status, spec>>

CommitCreate_AgentOnly(c) ==
  /\ pc[c] = "create"
  /\ registered' = registered \cup {tx[c].agent}
  /\ Return(c)
  /\ UNCHANGED <<current, status, spec>>

CommitCreate(c) ==
  /\ pc[c] = "create"
  /\ registered' = registered \cup {tx[c].agent}
  /\ insertVersion(c)
  /\ Return(c)
  /\ UNCHANGED current

(* AddVersion: the number is read without a lock, so two calls may read    *)
(* the same one; UNIQUE (agent_id, version) makes the second insert wait   *)
(* for the first and fail if it commits.                                   *)
AddVersion(c) ==
  /\ \E a \in registered, s \in Specs :
       /\ NextVersion(a) \in Versions
       /\ Begin(c, a, NextVersion(a), s, "insert")
  /\ UNCHANGED <<registered, current, status, spec>>

InsertVersion(c) ==
  /\ pc[c] = "insert"
  /\ status[Key(c)] = "none"
  /\ \A d \in Clients : ~(pc[d] = "add" /\ Key(d) = Key(c))
  /\ Goto(c, "add")
  /\ UNCHANGED <<registered, current, status, spec, tx>>

CommitVersion(c) ==
  /\ pc[c] = "add"
  /\ insertVersion(c)
  /\ Return(c)
  /\ UNCHANGED <<registered, current>>

(* UpdateDraft: one statement, which waits for the lock of a publish and   *)
(* then looks at the status again; a row that is no draft is left alone.   *)
UpdateDraft_NotPublished(c) ==
  /\ pc[c] = "idle"
  /\ \E k \in Keys, s \in Specs :
       /\ status[k] \in {"draft", "published"} /\ ~VersionLocked(k)
       /\ spec' = [spec EXCEPT ![k] = s]
  /\ UNCHANGED <<registered, current, status, pc, tx>>

UpdateDraft(c) ==
  /\ pc[c] = "idle"
  /\ \E k \in Keys, s \in Specs :
       /\ status[k] = "draft" /\ ~VersionLocked(k)
       /\ spec' = [spec EXCEPT ![k] = s]
  /\ UNCHANGED <<registered, current, status, pc, tx>>

(* PublishVersion: lock and check, update the version, then the agent,     *)
(* commit.  The updates are seen by others when the transaction commits.   *)
PublishVersion_NoLock(c) ==
  /\ \E k \in Keys :
       /\ status[k] = "draft"
       /\ Begin(c, k[1], k[2], NoSpec, "locked")
  /\ UNCHANGED <<registered, current, status, spec>>

PublishVersion(c) ==
  /\ \E k \in Keys :
       /\ status[k] = "draft" /\ ~VersionLocked(k)
       /\ Begin(c, k[1], k[2], NoSpec, "locked")
  /\ UNCHANGED <<registered, current, status, spec>>

PublishUpdate(c) ==
  /\ pc[c] = "locked"
  /\ ~AgentLocked(tx[c].agent)
  /\ Goto(c, "publish")
  /\ UNCHANGED <<registered, current, status, spec, tx>>

CommitPublish(c) ==
  /\ pc[c] = "publish"
  /\ status' = [status EXCEPT ![Key(c)] = "published"]
  /\ current' = [current EXCEPT ![tx[c].agent] = tx[c].ver]
  /\ Return(c)
  /\ UNCHANGED <<registered, spec>>

(* DeprecateVersion: one statement on a published row; the agent's current *)
(* version stays what it is.                                               *)
DeprecateVersion(c) ==
  /\ pc[c] = "idle"
  /\ \E k \in Keys :
       /\ status[k] = "published" /\ ~VersionLocked(k)
       /\ status' = [status EXCEPT ![k] = "deprecated"]
  /\ UNCHANGED <<registered, current, spec, pc, tx>>

(* A statement or the commit fails, the name or the number is taken, or    *)
(* the client goes away: the transaction is rolled back.                   *)
Rollback(c) ==
  /\ pc[c] # "idle"
  /\ Return(c)
  /\ UNCHANGED <<registered, current, status, spec>>

(* The routes of http.go and the statements that follow.                   *)
Request(c) ==
  \/ CreateAgent(c) \/ AddVersion(c) \/ UpdateDraft(c)
  \/ PublishVersion(c) \/ DeprecateVersion(c)

Continue(c) ==
  \/ CommitCreate(c) \/ InsertVersion(c) \/ CommitVersion(c)
  \/ PublishUpdate(c) \/ CommitPublish(c) \/ Rollback(c)

Next == \E c \in Clients : Request(c) \/ Continue(c)

Spec == Init /\ [][Next]_vars

-----------------------------------------------------------------------------
(* Properties. *)

(* The versions of an agent are numbered 1, 2, ... without gap or          *)
(* duplicate, and a registered agent has one, although the next number is  *)
(* read without a lock (store.go 76-101, 124-143).                         *)
VersionsDense ==
  \A a \in Agents :
    /\ a \in registered <=> status[<<a, 1>>] # "none"
    /\ \A v \in Versions \ {1} : status[<<a, v>>] # "none" => status[<<a, v - 1>>] # "none"

(* What may become of a status. *)
After(s) ==
  CASE s = "none" -> Status
    [] s = "draft" -> {"draft", "published"}
    [] s = "published" -> {"published", "deprecated"}
    [] s = "deprecated" -> {"deprecated"}

(* A version that was published keeps its spec for ever, and no version    *)
(* goes back in its life or disappears, whatever updates, publishes and    *)
(* deprecations race on it (store.go 145-227, 003_agent_version_lifecycle  *)
(* 3-21).                                                                  *)
KeepsPublished ==
  \A k \in Keys :
    /\ status'[k] \in After(status[k])
    /\ status[k] \in {"published", "deprecated"} => spec'[k] = spec[k]

PublishedIsImmutable == [][KeepsPublished]_vars

(* The current version moves exactly when a draft of the agent becomes     *)
(* published, and to that draft: two publishes, or a publish and a         *)
(* deprecation, never leave it elsewhere (store.go 174-208).               *)
CurrentMovesWithPublish ==
  \A k \in Keys :
    (status[k] = "draft" /\ status'[k] = "published")
      <=> (current'[k[1]] = k[2] /\ current'[k[1]] # current[k[1]])

CurrentFollowsPublish == [][CurrentMovesWithPublish]_vars

=============================================================================
