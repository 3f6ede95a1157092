------------------------------ MODULE AuditChain ------------------------------
(***************************************************************************)
(* The append-only audit log (internal/audit, internal/auditlog and the    *)
(* triggers of migrations 002 and 006).  Every entry takes its id from a   *)
(* sequence when it is inserted and chains to the entry with the highest   *)
(* id that its transaction can see; it becomes visible to others when its  *)
(* transaction commits.  VerifyChain walks the committed entries by id.    *)
(***************************************************************************)
EXTENDS Integers, Sequences, FiniteSets, FiniteSetsExt

CONSTANT MaxEvents      \* bound on the entries ever inserted
ASSUME MaxEventsAssumption == MaxEvents \in Nat

VARIABLES
  log,        \* committed audit_events: set of entries
  lastId,     \* the identity sequence of audit_events.id
  raced       \* history: an entry was inserted beside an uncommitted one

chainVars == <<log, lastId, raced>>

ChainInit == log = {} /\ lastId = 0 /\ raced = FALSE

(* sha256 over the predecessor's hash, the id and the event: two entries   *)
(* have the same hash only if all of that is the same, so the hash is the  *)
(* history it commits to.                                                  *)
expectedHash(prev, id, event) == Append(prev, <<id, event>>)

(* SELECT entry_hash ... ORDER BY id DESC LIMIT 1, the empty text if none. *)
LastHash(entries) ==
  IF entries = {} THEN <<>>
  ELSE (CHOOSE e \in entries : \A f \in entries : f.id <= e.id).hash

(* The BEFORE INSERT trigger: it sees what is committed, and takes no lock *)
(* against other inserts.                                                  *)
Entry(event) ==
  LET prev == LastHash(log)
  IN [id |-> lastId + 1, event |-> event, prev |-> prev,
      hash |-> expectedHash(prev, lastId + 1, event)]

(* Write, up to the commit of its transaction; pending are the entries     *)
(* that other transactions have inserted and not committed.                *)
Insert(pending) ==
  /\ lastId < MaxEvents
  /\ lastId' = lastId + 1
  /\ raced' = (raced \/ pending # {})

CommitEntries(entries) == log' = log \cup entries

VerifyChain_SkipsHash(entries) ==
  \A e \in entries : e.prev = LastHash({f \in entries : f.id < e.id})

VerifyChain(entries) ==
  \A e \in entries :
    LET prev == LastHash({f \in entries : f.id < e.id})
    IN e.prev = prev /\ e.hash = expectedHash(prev, e.id, e.event)

(* Tamper: a superuser disables the append-only trigger and rewrites the   *)
(* decision of one entry.  Nothing else updates or deletes entries.        *)
Tamper(entries, e, newDecision) ==
  (entries \ {e}) \cup {[e EXCEPT !.event.decision = newDecision]}

-----------------------------------------------------------------------------
(* What the chain is worth: whichever entry is rewritten, verification     *)
(* fails, and as long as no entry was inserted beside an uncommitted one,  *)
(* a log that nobody rewrote passes (store.go 106-154,                     *)
(* 006_audit_chain.up.sql 7-23).                                           *)
ChainTells ==
  /\ ~raced => VerifyChain(log)
  /\ \A e \in log : \A d \in {"allow", "deny"} \ {e.event.decision} :
       ~VerifyChain(Tamper(log, e, d))

=============================================================================
