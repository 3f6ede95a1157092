---------------------------- MODULE Secrets_proofs ----------------------------
(***************************************************************************)
(* Proofs about the secrets manager and its audit chain, for any clients,  *)
(* users, secrets, key versions and number of events: every stored secret  *)
(* can be decrypted, a rotation covers what was stored when it began, no   *)
(* access goes unlogged, and the chain tells a rewritten log from a true   *)
(* one.                                                                    *)
(*                                                                         *)
(* All four need what transactions in flight hold: a DEK that is inserted  *)
(* and not committed keeps its version to itself, the rows a transaction   *)
(* will write are sealed with the key their version is about to name, and  *)
(* an id that a put has taken is known to nobody else.                     *)
(***************************************************************************)
EXTENDS Secrets, TLAPS

-----------------------------------------------------------------------------
(* Types. *)

Labels == {"idle", "insertDEK", "put", "allow", "deny", "deleted", "select", "update", "commit"}
Ops == {"none", "secret.put", "secret.get", "secret.delete", "secret.rotate_dek"}
Actors == Users \cup {"none", "admin"}
Resources == SecretIds \cup {"none", "org"}

Keys == (Clients \X Nat) \cup {NoKey}
SecretRow == [user : Actors, key : Keys, dek : Nat]
RowMaps == UNION {[S -> SecretRow] : S \in SUBSET SecretIds}

Events == [actor : Actors, action : Ops, resource : Resources, decision : {"allow", "deny"}]
Hashes == Seq(Nat \X Events)
AuditEntry == [id : Nat, event : Events, prev : Hashes, hash : Hashes]

Transactions ==
  [op : Ops, user : Actors, id : Resources, ver : Nat, newKey : Keys,
   known : SUBSET SecretIds, batch : RowMaps, writes : RowMaps, entries : SUBSET AuditEntry]

(* The versions stored have a maximum, so that MaxVersion is one of them.  *)
VersionsHaveMax ==
  \E m \in DOMAIN deks \cup {0} : \A v \in DOMAIN deks \cup {0} : m >= v

TypeOK ==
  /\ DOMAIN deks \subseteq Nat /\ \A v \in DOMAIN deks : deks[v].key \in Keys
  /\ VersionsHaveMax
  /\ secrets \in RowMaps
  /\ pc \in [Clients -> Labels]
  /\ tx \in [Clients -> Transactions]
  /\ issued \in SUBSET SecretIds
  /\ log \in SUBSET AuditEntry
  /\ lastId \in Nat
  /\ raced \in BOOLEAN

-----------------------------------------------------------------------------
(* The inductive invariant. *)

(* What a call is doing at each statement, and that it writes nothing      *)
(* before its last one.                                                    *)
Stages ==
  \A c \in Clients :
    /\ pc[c] = "insertDEK" => tx[c].op \in {"secret.put", "secret.rotate_dek"}
    /\ pc[c] = "put" => tx[c].op = "secret.put"
    /\ pc[c] \in {"select", "update"} => tx[c].op = "secret.rotate_dek" /\ tx[c].newKey # NoKey
    /\ pc[c] \in {"allow", "deny"} => tx[c].op = "secret.get"
    /\ pc[c] = "deleted" => tx[c].op = "secret.delete"
    /\ pc[c] # "commit" => DOMAIN tx[c].writes = {} /\ tx[c].entries = {}

(* An inserted DEK has a version that is neither stored nor inserted by    *)
(* another.                                                                *)
InsertsExclusive ==
  /\ \A c \in Clients : tx[c].newKey # NoKey => tx[c].ver \notin DOMAIN deks
  /\ \A c, d \in Clients :
       (tx[c].newKey # NoKey /\ tx[d].newKey # NoKey /\ tx[c].ver = tx[d].ver) => c = d

(* The rows of a transaction are sealed with the key of its version: the   *)
(* one it inserts, or else the stored one.                                 *)
WritesReadable ==
  \A c \in Clients : \A s \in DOMAIN tx[c].writes :
    /\ tx[c].writes[s].dek = tx[c].ver
    /\ tx[c].newKey # NoKey => tx[c].writes[s].key = tx[c].newKey
    /\ tx[c].newKey = NoKey =>
         tx[c].ver \in DOMAIN deks /\ deks[tx[c].ver].key = tx[c].writes[s].key

(* An id is given to one secret, and only a put adds one: what a rotation  *)
(* writes is stored, and stays so because it is locked.                    *)
IdsFresh ==
  /\ DOMAIN secrets \subseteq issued
  /\ \A c \in Clients : tx[c].known \subseteq issued
  /\ \A c \in Clients : tx[c].op = "secret.put" =>
       /\ tx[c].id \in issued \ DOMAIN secrets
       /\ \A d \in Clients : tx[c].id \notin tx[d].known
       /\ \A s \in DOMAIN tx[c].writes : s = tx[c].id
  /\ \A c, d \in Clients :
       (tx[c].op = "secret.put" /\ tx[d].op = "secret.put" /\ tx[c].id = tx[d].id) => c = d
  /\ \A c \in Clients : tx[c].op # "secret.put" => DOMAIN tx[c].writes \subseteq DOMAIN secrets

(* A rotation has read, and then rewritten, all it knew that is left.      *)
RotationProgress ==
  \A c \in Clients : tx[c].op = "secret.rotate_dek" =>
    /\ pc[c] = "update" => tx[c].known \cap DOMAIN secrets \subseteq DOMAIN tx[c].batch
    /\ pc[c] = "commit" => tx[c].known \cap DOMAIN secrets \subseteq DOMAIN tx[c].writes

(* A call about to commit has one entry, of its own event; the rows that   *)
(* are read or rewritten were put by the user they name.                   *)
EntryInserted ==
  \A c \in Clients : pc[c] = "commit" =>
    \E e \in tx[c].entries :
       /\ tx[c].entries = {e}
       /\ e.event.action = tx[c].op /\ e.event.resource = tx[c].id
       /\ e.event.actor = tx[c].user

RowsLogged ==
  \A c \in Clients :
    /\ \A s \in DOMAIN tx[c].batch : Logged("secret.put", tx[c].batch[s].user, s)
    /\ \A s \in DOMAIN tx[c].writes :
         IF tx[c].op = "secret.put" THEN tx[c].writes[s].user = tx[c].user
                                    ELSE Logged("secret.put", tx[c].writes[s].user, s)

(* Entries carry the hash of what they say; while no insert was beside an  *)
(* uncommitted one, there is one at a time and it is the next of the chain.*)
WellHashed(e) == e.id <= lastId /\ e.hash = expectedHash(e.prev, e.id, e.event)

LogHasLast == log # {} => \E e \in log : \A f \in log : f.id <= e.id

NextInChain(e) == e.prev = LastHash(log) /\ \A f \in log : f.id < e.id

ChainGrows ==
  /\ \A e \in log : WellHashed(e)
  /\ \A c \in Clients : \A e \in tx[c].entries : WellHashed(e)
  /\ LogHasLast
  /\ ~raced =>
       /\ VerifyChain(log)
       /\ \A c, d \in Clients : (tx[c].entries # {} /\ tx[d].entries # {}) => c = d
       /\ \A c \in Clients : \A e \in tx[c].entries : NextInChain(e)

KeysInv == InsertsExclusive /\ WritesReadable /\ SecretsReadable

IdsInv == IdsFresh /\ RotationProgress

LogInv == EntryInserted /\ RowsLogged /\ AccessesLogged

IInv == TypeOK /\ Stages /\ KeysInv /\ IdsInv /\ LogInv /\ ChainGrows

-----------------------------------------------------------------------------
(* Facts about the types and the operators. *)

LEMMA RowMapElim ==
  ASSUME NEW f \in RowMaps
  PROVE  DOMAIN f \subseteq SecretIds /\ \A s \in DOMAIN f : f[s] \in SecretRow
<1>1. PICK S \in SUBSET SecretIds : f \in [S -> SecretRow]
  BY DEF RowMaps
<1> QED BY <1>1

LEMMA RowMapIntro ==
  ASSUME NEW S \in SUBSET SecretIds, NEW f \in [S -> SecretRow]
  PROVE  f \in RowMaps
BY DEF RowMaps

LEMMA EmptyIsRowMap == Empty \in RowMaps /\ DOMAIN Empty = {}
<1>1. Empty \in [{} -> SecretRow] /\ DOMAIN Empty = {}
  BY DEF Empty
<1>2. {} \in SUBSET SecretIds
  OBVIOUS
<1> QED BY <1>1, <1>2, RowMapIntro

LEMMA NoTxType == NoTx \in Transactions
<1>1. Empty \in RowMaps
  BY EmptyIsRowMap
<1>2. NoKey \in Keys
  BY DEF Keys
<1> HIDE DEF RowMaps, Empty, Keys, NoKey, AuditEntry
<1> QED BY <1>1, <1>2 DEF NoTx, Transactions, Ops, Actors, Resources

LEMMA KeyNotEmpty ==
  ASSUME NEW c, NEW v
  PROVE  <<c, v>> # NoKey
BY DEF NoKey

LEMMA MaxVersionType ==
  ASSUME TypeOK
  PROVE  MaxVersion \in Nat /\ MaxVersion \in DOMAIN deks \cup {0}
<1> DEFINE S == DOMAIN deks \cup {0}
<1>1. \E m \in S : \A v \in S : m >= v
  BY DEF TypeOK, VersionsHaveMax
<1>2. S \subseteq Nat
  BY DEF TypeOK
<1>3. MaxVersion = CHOOSE m \in S : \A v \in S : m >= v
  BY DEF MaxVersion, Max
<1> HIDE DEF S
<1>4. MaxVersion \in S
  BY <1>1, <1>3
<1> QED BY <1>2, <1>4 DEF S

(* What Start leaves in the transaction.                                   *)
LEMMA StartEffect ==
  ASSUME TypeOK, NEW c \in Clients, NEW op \in Ops, NEW user \in Actors, NEW id \in Resources,
         NEW ver \in Nat, NEW known \in SUBSET SecretIds, Start(c, op, user, id, ver, known)
  PROVE  /\ pc[c] = "idle" /\ tx' \in [Clients -> Transactions]
         /\ tx'[c].op = op /\ tx'[c].user = user /\ tx'[c].id = id /\ tx'[c].ver = ver
         /\ tx'[c].known = known /\ tx'[c].newKey = NoKey
         /\ DOMAIN tx'[c].batch = {} /\ DOMAIN tx'[c].writes = {} /\ tx'[c].entries = {}
         /\ \A d \in Clients : d # c => tx'[d] = tx[d]
<1> DEFINE t == [NoTx EXCEPT !.op = op, !.user = user, !.id = id, !.ver = ver, !.known = known]
<1>1. t \in Transactions /\ t.op = op /\ t.user = user /\ t.id = id /\ t.ver = ver /\ t.known = known
  BY NoTxType DEF Transactions
<1>2. t.newKey = NoKey /\ t.batch = Empty /\ t.writes = Empty /\ t.entries = {}
  BY DEF NoTx
<1> HIDE DEF t
<1>3. tx' = [tx EXCEPT ![c] = t] /\ pc[c] = "idle"
  BY DEF Start, t
<1>4. tx' \in [Clients -> Transactions] /\ tx'[c] = t /\ \A d \in Clients : d # c => tx'[d] = tx[d]
  BY <1>1, <1>3 DEF TypeOK
<1> QED BY <1>1, <1>2, <1>3, <1>4, EmptyIsRowMap

(* The label moves for the client alone.                                   *)
LEMMA GotoEffect ==
  ASSUME TypeOK, NEW c \in Clients, NEW l \in Labels, Goto(c, l)
  PROVE  /\ pc' \in [Clients -> Labels] /\ pc'[c] = l
         /\ \A d \in Clients : d # c => pc'[d] = pc[d]
BY DEF Goto, TypeOK

(* The hash the trigger chains to is one of the log's.                     *)
LEMMA LastHashType ==
  ASSUME TypeOK, LogHasLast
  PROVE  LastHash(log) \in Hashes
<1>1. CASE log = {}
  BY <1>1 DEF LastHash, Hashes
<1>2. CASE log # {}
  <2> DEFINE e == CHOOSE x \in log : \A f \in log : f.id <= x.id
  <2>1. e \in log
    BY <1>2 DEF LogHasLast
  <2>2. LastHash(log) = e.hash
    BY <1>2 DEF LastHash
  <2> HIDE DEF e
  <2> QED BY <2>1, <2>2 DEF TypeOK, AuditEntry
<1> QED BY <1>1, <1>2

LEMMA EntryType ==
  ASSUME TypeOK, LogHasLast, NEW event \in Events
  PROVE  /\ Entry(event) \in AuditEntry /\ Entry(event).event = event
         /\ Entry(event).id = lastId + 1 /\ Entry(event).prev = LastHash(log)
         /\ Entry(event).hash = expectedHash(LastHash(log), lastId + 1, event)
<1> DEFINE p == LastHash(log)
<1>1. p \in Seq(Nat \X Events)
  BY LastHashType DEF Hashes
<1>2. lastId + 1 \in Nat /\ <<lastId + 1, event>> \in Nat \X Events
  BY DEF TypeOK
<1>3. Append(p, <<lastId + 1, event>>) \in Seq(Nat \X Events)
  BY <1>1, <1>2
<1> HIDE DEF p
<1>4. Entry(event) = [id |-> lastId + 1, event |-> event, prev |-> p,
                      hash |-> Append(p, <<lastId + 1, event>>)]
  BY DEF Entry, expectedHash, p
<1>5. expectedHash(p, lastId + 1, event) = Append(p, <<lastId + 1, event>>)
  BY DEF expectedHash
<1> QED BY <1>1, <1>2, <1>3, <1>4, <1>5 DEF AuditEntry, Hashes, p

(* What the last statement of a call leaves in its transaction.            *)
LEMMA WriteAuditEffect ==
  ASSUME TypeOK, LogHasLast, NEW c \in Clients, NEW decision \in {"allow", "deny"},
         NEW w \in RowMaps, WriteAudit(c, decision, w)
  PROVE  /\ tx' \in [Clients -> Transactions] /\ pc' \in [Clients -> Labels]
         /\ tx'[c].op = tx[c].op /\ tx'[c].user = tx[c].user /\ tx'[c].id = tx[c].id
         /\ tx'[c].ver = tx[c].ver /\ tx'[c].known = tx[c].known
         /\ tx'[c].newKey = tx[c].newKey /\ tx'[c].batch = tx[c].batch
         /\ tx'[c].writes = w /\ pc'[c] = "commit"
         /\ \E e \in AuditEntry :
              /\ tx'[c].entries = {e}
              /\ e.event.action = tx[c].op /\ e.event.resource = tx[c].id
              /\ e.event.actor = tx[c].user
              /\ e.id = lastId + 1 /\ e.prev = LastHash(log)
              /\ e.hash = expectedHash(e.prev, e.id, e.event)
         /\ \A d \in Clients : d # c => tx'[d] = tx[d] /\ pc'[d] = pc[d]
         /\ lastId' = lastId + 1 /\ log' = log
         /\ raced' = (raced \/ Pending(c) # {})
<1> DEFINE event == [actor |-> tx[c].user, action |-> tx[c].op,
                     resource |-> tx[c].id, decision |-> decision]
           e == Entry(event)
<1>1. event \in Events
  BY DEF TypeOK, Transactions, Events
<1>2. /\ e \in AuditEntry /\ e.event = event /\ e.id = lastId + 1 /\ e.prev = LastHash(log)
      /\ e.hash = expectedHash(e.prev, e.id, e.event)
  <2> HIDE DEF event
  <2> QED BY <1>1, EntryType
<1>3. /\ tx' = [tx EXCEPT ![c].entries = {e}, ![c].writes = w] /\ Goto(c, "commit") /\ log' = log
      /\ Insert(Pending(c))
  BY DEF WriteAudit
<1>4. e.event.action = tx[c].op /\ e.event.resource = tx[c].id /\ e.event.actor = tx[c].user
  <2>1. event.action = tx[c].op /\ event.resource = tx[c].id /\ event.actor = tx[c].user
    OBVIOUS
  <2> HIDE DEF event, e
  <2> QED BY <1>2, <2>1
<1> HIDE DEF e, event
<1>5. /\ pc' \in [Clients -> Labels] /\ pc'[c] = "commit"
      /\ \A d \in Clients : d # c => pc'[d] = pc[d]
  BY <1>3, GotoEffect DEF Labels
<1>6. /\ tx' \in [Clients -> Transactions]
      /\ tx'[c].entries = {e} /\ tx'[c].writes = w
      /\ tx'[c].op = tx[c].op /\ tx'[c].user = tx[c].user /\ tx'[c].id = tx[c].id
      /\ tx'[c].ver = tx[c].ver /\ tx'[c].known = tx[c].known
      /\ tx'[c].newKey = tx[c].newKey /\ tx'[c].batch = tx[c].batch
      /\ \A d \in Clients : d # c => tx'[d] = tx[d]
  <2>1. tx \in [Clients -> Transactions] /\ tx[c] \in Transactions /\ {e} \in SUBSET AuditEntry
    BY <1>2 DEF TypeOK
  <2> HIDE DEF TypeOK
  <2>2. [tx[c] EXCEPT !.entries = {e}, !.writes = w] \in Transactions
    BY <2>1 DEF Transactions
  <2> QED BY <1>3, <2>1, <2>2 DEF Transactions
<1>7. lastId' = lastId + 1 /\ raced' = (raced \/ Pending(c) # {})
  BY <1>3 DEF Insert
<1>8. \E x \in AuditEntry :
        /\ tx'[c].entries = {x}
        /\ x.event.action = tx[c].op /\ x.event.resource = tx[c].id
        /\ x.event.actor = tx[c].user
        /\ x.id = lastId + 1 /\ x.prev = LastHash(log)
        /\ x.hash = expectedHash(x.prev, x.id, x.event)
  BY <1>2, <1>4, <1>6
<1> QED BY <1>3, <1>5, <1>6, <1>7, <1>8

-----------------------------------------------------------------------------
(* Steps that change one transaction before its last statement: others see *)
(* nothing of them but the ids they take and the rows a deletion removes.  *)

LEMMA InitIInv == Init => IInv
<1> SUFFICES ASSUME Init PROVE IInv
  OBVIOUS
<1>1. /\ \A c \in Clients : tx[c] = NoTx /\ pc[c] = "idle"
      /\ deks = Empty /\ secrets = Empty /\ log = {} /\ lastId = 0 /\ raced = FALSE
      /\ issued = {} /\ released = {}
  BY DEF Init, ChainInit
<1>2. /\ NoTx.op = "none" /\ NoTx.newKey = NoKey /\ NoTx.known = {} /\ NoTx.entries = {}
      /\ DOMAIN NoTx.batch = {} /\ DOMAIN NoTx.writes = {}
  BY EmptyIsRowMap DEF NoTx
<1>3. TypeOK
  <2>1. VersionsHaveMax
    BY <1>1, EmptyIsRowMap DEF VersionsHaveMax
  <2>2. tx \in [Clients -> Transactions]
    BY NoTxType DEF Init
  <2>3. pc \in [Clients -> Labels]
    BY DEF Init, Labels
  <2> QED BY <1>1, <2>1, <2>2, <2>3, EmptyIsRowMap DEF TypeOK
<1> HIDE DEF NoTx
<1>4. Stages
  BY <1>1, <1>2 DEF Stages
<1>5. KeysInv
  BY <1>1, <1>2, EmptyIsRowMap DEF KeysInv, InsertsExclusive, WritesReadable, SecretsReadable
<1>6. IdsInv
  BY <1>1, <1>2, EmptyIsRowMap DEF IdsInv, IdsFresh, RotationProgress
<1>7. LogInv
  BY <1>1, <1>2, EmptyIsRowMap DEF LogInv, EntryInserted, RowsLogged, AccessesLogged
<1>8. ChainGrows
  BY <1>1, <1>2 DEF ChainGrows, LogHasLast, VerifyChain
<1> QED BY <1>3, <1>4, <1>5, <1>6, <1>7, <1>8 DEF IInv

(* The transaction of c is at stage l and has written nothing yet.         *)
AtStage(c, l) ==
  /\ l = "insertDEK" => tx[c].op \in {"secret.put", "secret.rotate_dek"}
  /\ l = "put" => tx[c].op = "secret.put"
  /\ l \in {"select", "update"} => tx[c].op = "secret.rotate_dek" /\ tx[c].newKey # NoKey
  /\ l \in {"allow", "deny"} => tx[c].op = "secret.get"
  /\ l = "deleted" => tx[c].op = "secret.delete"
  /\ l # "commit" /\ DOMAIN tx[c].writes = {} /\ tx[c].entries = {}

(* A step of the transaction of c alone, at most removing rows that nobody *)
(* has locked.                                                             *)
OthersSame(c) ==
  /\ tx' \in [Clients -> Transactions] /\ pc' \in [Clients -> Labels]
  /\ \A d \in Clients : d # c => tx'[d] = tx[d] /\ pc'[d] = pc[d]

LocalStep(c) ==
  /\ OthersSame(c)
  /\ UNCHANGED <<deks, log, lastId, raced, released>>
  /\ secrets' \in RowMaps
  /\ \A s \in DOMAIN secrets' : s \in DOMAIN secrets /\ secrets'[s] = secrets[s]
  /\ \A d \in Clients : \A s \in DOMAIN tx[d].writes \cap DOMAIN secrets : s \in DOMAIN secrets'
  /\ issued \subseteq issued' /\ issued' \subseteq SecretIds

LEMMA LocalKeysKeep ==
  ASSUME IInv, NEW c \in Clients, LocalStep(c), AtStage(c, pc[c])',
         tx'[c].newKey # NoKey =>
            /\ tx'[c].ver \notin DOMAIN deks
            /\ \A d \in Clients : d # c => ~Inserting(d, tx'[c].ver)
  PROVE  KeysInv'
<1>0. InsertsExclusive /\ WritesReadable /\ SecretsReadable
  BY DEF IInv, KeysInv
<1>1. /\ deks' = deks /\ \A d \in Clients : d # c => tx'[d] = tx[d]
      /\ \A s \in DOMAIN secrets' : s \in DOMAIN secrets /\ secrets'[s] = secrets[s]
      /\ DOMAIN tx'[c].writes = {}
  BY DEF LocalStep, OthersSame, AtStage
<1>2. InsertsExclusive'
  BY <1>0, <1>1 DEF InsertsExclusive, Inserting
<1>3. WritesReadable'
  BY <1>0, <1>1 DEF WritesReadable
<1>4. SecretsReadable'
  BY <1>0, <1>1 DEF SecretsReadable
<1> QED BY <1>2, <1>3, <1>4 DEF KeysInv

LEMMA LocalIdsKeep ==
  ASSUME IInv, NEW c \in Clients, LocalStep(c), AtStage(c, pc[c])',
         tx'[c].known \subseteq issued',
         \A d \in Clients : d # c /\ tx[d].op = "secret.put" => tx[d].id \notin tx'[c].known,
         tx'[c].op = "secret.put" =>
            /\ tx'[c].id \in issued' \ DOMAIN secrets'
            /\ \A d \in Clients : tx'[c].id \notin tx'[d].known
            /\ \A d \in Clients : d # c /\ tx[d].op = "secret.put" => tx[d].id # tx'[c].id,
         pc'[c] = "update" => tx'[c].known \cap DOMAIN secrets' \subseteq DOMAIN tx'[c].batch
  PROVE  IdsInv'
<1>0. IdsFresh /\ RotationProgress
  BY DEF IInv, IdsInv
<1>1. /\ \A d \in Clients : d # c => tx'[d] = tx[d] /\ pc'[d] = pc[d]
      /\ DOMAIN secrets' \subseteq DOMAIN secrets
      /\ \A d \in Clients : \A s \in DOMAIN tx[d].writes \cap DOMAIN secrets : s \in DOMAIN secrets'
      /\ issued \subseteq issued' /\ DOMAIN tx'[c].writes = {} /\ pc'[c] # "commit"
  BY DEF LocalStep, OthersSame, AtStage
<1>2. DOMAIN secrets' \subseteq issued'
  BY <1>0, <1>1 DEF IdsFresh
<1>3. \A d \in Clients : tx'[d].known \subseteq issued'
  <2> SUFFICES ASSUME NEW d \in Clients PROVE tx'[d].known \subseteq issued'
    OBVIOUS
  <2>1. CASE d = c
    BY <2>1
  <2>2. CASE d # c
    BY <1>0, <1>1, <2>2 DEF IdsFresh
  <2> QED BY <2>1, <2>2
<1>4. \A d \in Clients : tx'[d].op = "secret.put" =>
        /\ tx'[d].id \in issued' \ DOMAIN secrets'
        /\ \A b \in Clients : tx'[d].id \notin tx'[b].known
        /\ \A s \in DOMAIN tx'[d].writes : s = tx'[d].id
  <2> SUFFICES ASSUME NEW d \in Clients, tx'[d].op = "secret.put"
               PROVE  /\ tx'[d].id \in issued' \ DOMAIN secrets'
                      /\ \A b \in Clients : tx'[d].id \notin tx'[b].known
                      /\ \A s \in DOMAIN tx'[d].writes : s = tx'[d].id
    OBVIOUS
  <2>1. CASE d = c
    BY <1>1, <2>1
  <2>2. CASE d # c
    <3>1. /\ tx[d].id \in issued \ DOMAIN secrets
          /\ \A b \in Clients : tx[d].id \notin tx[b].known
          /\ \A s \in DOMAIN tx[d].writes : s = tx[d].id
      BY <1>0, <1>1, <2>2 DEF IdsFresh
    <3> QED BY <1>1, <2>2, <3>1
  <2> QED BY <2>1, <2>2
<1>5. \A a, d \in Clients :
        (tx'[a].op = "secret.put" /\ tx'[d].op = "secret.put" /\ tx'[a].id = tx'[d].id) => a = d
  BY <1>0, <1>1 DEF IdsFresh
<1>6. \A d \in Clients : tx'[d].op # "secret.put" => DOMAIN tx'[d].writes \subseteq DOMAIN secrets'
  <2> SUFFICES ASSUME NEW d \in Clients, tx'[d].op # "secret.put", NEW s \in DOMAIN tx'[d].writes
               PROVE  s \in DOMAIN secrets'
    OBVIOUS
  <2>1. d # c /\ tx'[d] = tx[d]
    BY <1>1
  <2> QED BY <1>0, <1>1, <2>1 DEF IdsFresh
<1>7. IdsFresh'
  BY <1>2, <1>3, <1>4, <1>5, <1>6 DEF IdsFresh
<1>8. RotationProgress'
  BY <1>0, <1>1 DEF RotationProgress
<1> QED BY <1>7, <1>8 DEF IdsInv

LEMMA LocalLogKeeps ==
  ASSUME IInv, NEW c \in Clients, LocalStep(c), AtStage(c, pc[c])',
         \A s \in DOMAIN tx'[c].batch : Logged("secret.put", tx'[c].batch[s].user, s)
  PROVE  LogInv'
<1>0. EntryInserted /\ RowsLogged /\ AccessesLogged
  BY DEF IInv, LogInv
<1>1. /\ log' = log /\ released' = released
      /\ \A d \in Clients : d # c => tx'[d] = tx[d] /\ pc'[d] = pc[d]
      /\ \A s \in DOMAIN secrets' : s \in DOMAIN secrets /\ secrets'[s] = secrets[s]
      /\ DOMAIN tx'[c].writes = {} /\ pc'[c] # "commit"
  BY DEF LocalStep, OthersSame, AtStage
<1>3. EntryInserted'
  BY <1>0, <1>1 DEF EntryInserted
<1>4. RowsLogged'
  <2> SUFFICES ASSUME NEW d \in Clients
               PROVE  /\ \A s \in DOMAIN tx'[d].batch : Logged("secret.put", tx'[d].batch[s].user, s)
                      /\ \A s \in DOMAIN tx'[d].writes :
                           IF tx'[d].op = "secret.put" THEN tx'[d].writes[s].user = tx'[d].user
                           ELSE Logged("secret.put", tx'[d].writes[s].user, s)
    BY <1>1 DEF RowsLogged, Logged
  <2>1. CASE d = c
    BY <1>1, <2>1
  <2>2. CASE d # c
    BY <1>0, <1>1, <2>2 DEF RowsLogged
  <2> QED BY <2>1, <2>2
<1>5. AccessesLogged'
  BY <1>0, <1>1 DEF AccessesLogged, Logged
<1> QED BY <1>3, <1>4, <1>5 DEF LogInv

LEMMA LocalChainKeeps ==
  ASSUME IInv, NEW c \in Clients, LocalStep(c), AtStage(c, pc[c])'
  PROVE  ChainGrows'
<1>0. ChainGrows
  BY DEF IInv
<1>1. /\ log' = log /\ lastId' = lastId /\ raced' = raced
      /\ \A d \in Clients : d # c => tx'[d] = tx[d]
      /\ tx'[c].entries = {}
  BY DEF LocalStep, OthersSame, AtStage
<1>2. \A d \in Clients : tx'[d].entries \subseteq tx[d].entries
  BY <1>1
<1>3. /\ \A e : WellHashed(e)' <=> WellHashed(e)
      /\ \A e : NextInChain(e)' <=> NextInChain(e)
      /\ LogHasLast' <=> LogHasLast
      /\ VerifyChain(log)' <=> VerifyChain(log)
  BY <1>1 DEF WellHashed, NextInChain, LogHasLast, VerifyChain
<1>4. /\ \A e \in log' : WellHashed(e)'
      /\ \A d \in Clients : \A e \in tx'[d].entries : WellHashed(e)'
      /\ LogHasLast'
  BY <1>0, <1>1, <1>2, <1>3 DEF ChainGrows
<1>5. ASSUME ~raced'
      PROVE  /\ VerifyChain(log)'
             /\ \A a, d \in Clients : (tx'[a].entries # {} /\ tx'[d].entries # {}) => a = d
             /\ \A d \in Clients : \A e \in tx'[d].entries : NextInChain(e)'
  <2>1. ~raced
    BY <1>1, <1>5
  <2>2. /\ VerifyChain(log)
        /\ \A a, d \in Clients : (tx[a].entries # {} /\ tx[d].entries # {}) => a = d
        /\ \A d \in Clients : \A e \in tx[d].entries : NextInChain(e)
    BY <1>0, <2>1 DEF ChainGrows
  <2> QED BY <1>2, <1>3, <2>2
<1> QED BY <1>4, <1>5 DEF ChainGrows

LEMMA LocalTypesKeep ==
  ASSUME IInv, NEW c \in Clients, LocalStep(c), AtStage(c, pc[c])'
  PROVE  TypeOK' /\ Stages'
<1>0. TypeOK /\ Stages
  BY DEF IInv
<1>1. TypeOK'
  BY <1>0 DEF TypeOK, VersionsHaveMax, LocalStep, OthersSame
<1>2. Stages'
  <2> SUFFICES ASSUME NEW d \in Clients
               PROVE  /\ pc'[d] = "insertDEK" => tx'[d].op \in {"secret.put", "secret.rotate_dek"}
                      /\ pc'[d] = "put" => tx'[d].op = "secret.put"
                      /\ pc'[d] \in {"select", "update"} =>
                            tx'[d].op = "secret.rotate_dek" /\ tx'[d].newKey # NoKey
                      /\ pc'[d] \in {"allow", "deny"} => tx'[d].op = "secret.get"
                      /\ pc'[d] = "deleted" => tx'[d].op = "secret.delete"
                      /\ pc'[d] # "commit" => DOMAIN tx'[d].writes = {} /\ tx'[d].entries = {}
    BY DEF Stages
  <2>1. CASE d = c
    BY <2>1 DEF AtStage
  <2>2. CASE d # c
    BY <1>0, <2>2 DEF Stages, LocalStep, OthersSame
  <2> QED BY <2>1, <2>2
<1> QED BY <1>1, <1>2

(* A call that begins, or ends without a commit: it holds no DEK and no    *)
(* rows.                                                                   *)
LEMMA FreshKeeps ==
  ASSUME IInv, NEW c \in Clients, LocalStep(c), AtStage(c, pc[c])', pc'[c] # "update",
         tx'[c].newKey = NoKey, DOMAIN tx'[c].batch = {},
         tx'[c].known \subseteq DOMAIN secrets,
         tx'[c].op = "secret.put" =>
            tx'[c].id \in issued' /\ tx'[c].id \notin issued /\ tx'[c].known = {}
  PROVE  IInv'
<1>0. IdsFresh
  BY DEF IInv, IdsInv
<1>1. TypeOK' /\ Stages' /\ ChainGrows'
  BY LocalTypesKeep, LocalChainKeeps
<1>2. KeysInv'
  BY LocalKeysKeep
<1>3. LogInv'
  BY LocalLogKeeps
<1>4. /\ issued \subseteq issued' /\ DOMAIN secrets' \subseteq DOMAIN secrets
      /\ DOMAIN secrets \subseteq issued
      /\ \A d \in Clients : d # c => tx'[d] = tx[d]
  BY <1>0 DEF LocalStep, OthersSame, IdsFresh
<1>5. \A d \in Clients : tx[d].op = "secret.put" => tx[d].id \in issued \ DOMAIN secrets
  BY <1>0 DEF IdsFresh
<1>6. tx'[c].op = "secret.put" =>
        /\ tx'[c].id \in issued' \ DOMAIN secrets'
        /\ \A d \in Clients : tx'[c].id \notin tx'[d].known
        /\ \A d \in Clients : d # c /\ tx[d].op = "secret.put" => tx[d].id # tx'[c].id
  <2>1. \A d \in Clients : d # c => tx'[d].known \subseteq issued
    BY <1>0, <1>4 DEF IdsFresh
  <2> QED BY <1>4, <1>5, <2>1
<1>7. /\ tx'[c].known \subseteq issued'
      /\ \A d \in Clients : d # c /\ tx[d].op = "secret.put" => tx[d].id \notin tx'[c].known
  BY <1>4, <1>5
<1>8. IdsInv'
  BY <1>6, <1>7, LocalIdsKeep
<1> QED BY <1>1, <1>2, <1>3, <1>8 DEF IInv

LEMMA ensureDEKKeeps ==
  ASSUME IInv, NEW c \in Clients, ensureDEK(c)
  PROVE  IInv'
<1>0. TypeOK
  BY DEF IInv
<1>1. PICK u \in Users, s \in SecretIds \ issued :
        /\ Start(c, "secret.put", u, s, IF MaxVersion > 0 THEN MaxVersion ELSE 1, {})
        /\ issued' = issued \cup {s}
  BY DEF ensureDEK
<1>2. (IF MaxVersion > 0 THEN MaxVersion ELSE 1) \in Nat
  BY <1>0, MaxVersionType
<1>3. u \in Actors /\ s \in Resources /\ "secret.put" \in Ops
  BY DEF Actors, Resources, Ops
<1>4. /\ tx' \in [Clients -> Transactions]
      /\ tx'[c].op = "secret.put" /\ tx'[c].id = s
      /\ tx'[c].known = {} /\ tx'[c].newKey = NoKey
      /\ DOMAIN tx'[c].batch = {} /\ DOMAIN tx'[c].writes = {} /\ tx'[c].entries = {}
      /\ \A d \in Clients : d # c => tx'[d] = tx[d]
  BY <1>0, <1>1, <1>2, <1>3, StartEffect
<1>5. PICK l \in {"put", "insertDEK"} : Goto(c, l)
  BY DEF ensureDEK
<1>6. /\ pc' \in [Clients -> Labels] /\ pc'[c] = l
      /\ \A d \in Clients : d # c => pc'[d] = pc[d]
  BY <1>0, <1>5, GotoEffect DEF Labels
<1>7. UNCHANGED <<deks, secrets, log, lastId, raced, released>>
  BY DEF ensureDEK, chainVars
<1>8. LocalStep(c)
  BY <1>0, <1>1, <1>4, <1>6, <1>7 DEF LocalStep, OthersSame, TypeOK
<1>9. AtStage(c, pc[c])'
  BY <1>4, <1>6 DEF AtStage
<1> QED BY <1>1, <1>4, <1>6, <1>8, <1>9, FreshKeeps

LEMMA GetBeginsKeeps ==
  ASSUME IInv, NEW c \in Clients, Get(c) \/ GetRefused(c)
  PROVE  IInv'
<1>0. TypeOK
  BY DEF IInv
<1>1. PICK u \in Users, s \in issued, v \in Nat, l \in {"allow", "deny"} :
        Start(c, "secret.get", u, s, v, {}) /\ Goto(c, l)
  <2>1. CASE Get(c)
    <3>1. PICK u \in Users, s \in issued :
            Owns(u, s) /\ Start(c, "secret.get", u, s, secrets[s].dek, {})
      BY <2>1 DEF Get
    <3>2. s \in DOMAIN secrets /\ secrets \in RowMaps
      BY <1>0, <3>1 DEF Owns, TypeOK
    <3>3. secrets[s].dek \in Nat
      BY <3>2, RowMapElim DEF SecretRow
    <3>4. Goto(c, "allow")
      BY <2>1 DEF Get
    <3> QED BY <3>1, <3>3, <3>4
  <2>2. CASE GetRefused(c)
    BY <2>2 DEF GetRefused
  <2> QED BY <2>1, <2>2
<1>2. u \in Actors /\ s \in Resources /\ "secret.get" \in Ops
  BY <1>0 DEF Actors, Resources, Ops, TypeOK
<1>3. /\ tx' \in [Clients -> Transactions]
      /\ tx'[c].op = "secret.get" /\ tx'[c].known = {} /\ tx'[c].newKey = NoKey
      /\ DOMAIN tx'[c].batch = {} /\ DOMAIN tx'[c].writes = {} /\ tx'[c].entries = {}
      /\ \A d \in Clients : d # c => tx'[d] = tx[d]
  BY <1>0, <1>1, <1>2, StartEffect
<1>4. /\ pc' \in [Clients -> Labels] /\ pc'[c] = l
      /\ \A d \in Clients : d # c => pc'[d] = pc[d]
  BY <1>0, <1>1, GotoEffect DEF Labels
<1>5. UNCHANGED <<deks, secrets, log, lastId, raced, released, issued>>
  BY DEF Get, GetRefused, chainVars
<1>6. LocalStep(c)
  BY <1>0, <1>3, <1>4, <1>5 DEF LocalStep, OthersSame, TypeOK
<1>7. AtStage(c, pc[c])'
  BY <1>3, <1>4 DEF AtStage
<1> QED BY <1>3, <1>4, <1>6, <1>7, FreshKeeps

(* Delete waits for the lock of a rotation, so no transaction loses a row  *)
(* it is about to write.                                                   *)
LEMMA DeleteKeeps ==
  ASSUME IInv, NEW c \in Clients, Delete(c)
  PROVE  IInv'
<1>0. TypeOK /\ secrets \in RowMaps
  BY DEF IInv, TypeOK
<1>1. PICK s \in DOMAIN secrets :
        /\ ~Locked(s)
        /\ Start(c, "secret.delete", secrets[s].user, s, 0, {})
        /\ secrets' = [t \in DOMAIN secrets \ {s} |-> secrets[t]]
  BY DEF Delete
<1>2. DOMAIN secrets \subseteq SecretIds /\ \A t \in DOMAIN secrets : secrets[t] \in SecretRow
  BY <1>0, RowMapElim
<1>3. secrets[s].user \in Actors /\ s \in Resources /\ "secret.delete" \in Ops
  BY <1>2 DEF SecretRow, Resources, Ops
<1>4. /\ tx' \in [Clients -> Transactions]
      /\ tx'[c].op = "secret.delete" /\ tx'[c].known = {} /\ tx'[c].newKey = NoKey
      /\ DOMAIN tx'[c].batch = {} /\ DOMAIN tx'[c].writes = {} /\ tx'[c].entries = {}
      /\ \A d \in Clients : d # c => tx'[d] = tx[d]
  BY <1>0, <1>1, <1>3, StartEffect
<1>5. /\ pc' \in [Clients -> Labels] /\ pc'[c] = "deleted"
      /\ \A d \in Clients : d # c => pc'[d] = pc[d]
  BY <1>0, GotoEffect DEF Labels, Delete
<1>6. UNCHANGED <<deks, log, lastId, raced, released, issued>>
  BY DEF Delete, chainVars
<1>7. secrets' \in RowMaps
  <2>1. secrets' \in [DOMAIN secrets \ {s} -> SecretRow]
    BY <1>1, <1>2
  <2> QED BY <1>2, <2>1, RowMapIntro
<1>8. /\ DOMAIN secrets' = DOMAIN secrets \ {s}
      /\ \A t \in DOMAIN secrets' : secrets'[t] = secrets[t]
  BY <1>1
<1>9. \A d \in Clients : s \notin DOMAIN tx[d].writes
  BY <1>1 DEF Locked
<1>10. LocalStep(c)
  BY <1>0, <1>4, <1>5, <1>6, <1>7, <1>8, <1>9 DEF LocalStep, OthersSame, TypeOK
<1>11. AtStage(c, pc[c])'
  BY <1>4, <1>5 DEF AtStage
<1> QED BY <1>4, <1>5, <1>10, <1>11, FreshKeeps

LEMMA RotateOrgDEKKeeps ==
  ASSUME IInv, NEW c \in Clients, RotateOrgDEK(c)
  PROVE  IInv'
<1>0. TypeOK /\ secrets \in RowMaps
  BY DEF IInv, TypeOK
<1>1. DOMAIN secrets \subseteq SecretIds
  BY <1>0, RowMapElim
<1>2. MaxVersion + 1 \in Nat
  BY <1>0, MaxVersionType
<1>3. "admin" \in Actors /\ "org" \in Resources /\ "secret.rotate_dek" \in Ops
  BY DEF Actors, Resources, Ops
<1>4. Start(c, "secret.rotate_dek", "admin", "org", MaxVersion + 1, DOMAIN secrets)
  BY DEF RotateOrgDEK
<1>5. /\ tx' \in [Clients -> Transactions]
      /\ tx'[c].op = "secret.rotate_dek" /\ tx'[c].known = DOMAIN secrets
      /\ tx'[c].newKey = NoKey
      /\ DOMAIN tx'[c].batch = {} /\ DOMAIN tx'[c].writes = {} /\ tx'[c].entries = {}
      /\ \A d \in Clients : d # c => tx'[d] = tx[d]
  BY <1>0, <1>1, <1>2, <1>3, <1>4, StartEffect
<1>6. /\ pc' \in [Clients -> Labels] /\ pc'[c] = "insertDEK"
      /\ \A d \in Clients : d # c => pc'[d] = pc[d]
  BY <1>0, GotoEffect DEF Labels, RotateOrgDEK
<1>7. UNCHANGED <<deks, secrets, log, lastId, raced, released, issued>>
  BY DEF RotateOrgDEK, chainVars
<1>8. LocalStep(c)
  BY <1>0, <1>5, <1>6, <1>7 DEF LocalStep, OthersSame, TypeOK
<1>9. AtStage(c, pc[c])'
  BY <1>5, <1>6 DEF AtStage
<1> QED BY <1>5, <1>6, <1>8, <1>9, FreshKeeps

LEMMA FailKeeps ==
  ASSUME IInv, NEW c \in Clients, Fail(c)
  PROVE  IInv'
<1>0. TypeOK
  BY DEF IInv
<1>1. /\ tx' \in [Clients -> Transactions] /\ tx'[c] = NoTx
      /\ \A d \in Clients : d # c => tx'[d] = tx[d]
  BY <1>0, NoTxType DEF Fail, TypeOK
<1>2. /\ NoTx.op = "none" /\ NoTx.newKey = NoKey /\ NoTx.known = {} /\ NoTx.entries = {}
      /\ DOMAIN NoTx.batch = {} /\ DOMAIN NoTx.writes = {}
  BY EmptyIsRowMap DEF NoTx
<1>3. /\ pc' \in [Clients -> Labels] /\ pc'[c] = "idle"
      /\ \A d \in Clients : d # c => pc'[d] = pc[d]
  BY <1>0, GotoEffect DEF Labels, Fail
<1>4. UNCHANGED <<deks, secrets, log, lastId, raced, released, issued>>
  BY DEF Fail, chainVars
<1> HIDE DEF NoTx
<1>5. LocalStep(c)
  BY <1>0, <1>1, <1>3, <1>4 DEF LocalStep, OthersSame, TypeOK
<1>6. AtStage(c, pc[c])'
  BY <1>1, <1>2, <1>3 DEF AtStage
<1> QED BY <1>1, <1>2, <1>3, <1>5, <1>6, FreshKeeps

(* The insert of a DEK takes its version: it is not stored, and no other   *)
(* transaction has inserted it.                                            *)
LEMMA InsertDEKKeeps ==
  ASSUME IInv, NEW c \in Clients, InsertDEK(c)
  PROVE  IInv'
<1> DEFINE k == <<c, tx[c].ver>>
<1>0. TypeOK /\ Stages /\ IdsFresh /\ RowsLogged
  BY DEF IInv, IdsInv, LogInv
<1>1. /\ pc[c] = "insertDEK" /\ tx[c].ver \notin DOMAIN deks
      /\ \A d \in Clients : ~Inserting(d, tx[c].ver)
      /\ tx' = [tx EXCEPT ![c].newKey = k]
      /\ UNCHANGED <<deks, secrets, log, lastId, raced, released, issued>>
  BY DEF InsertDEK, chainVars
<1>2. k \in Keys /\ k # NoKey
  <2>1. tx[c].ver \in Nat
    BY <1>0 DEF TypeOK, Transactions
  <2> QED BY <2>1, KeyNotEmpty DEF Keys
<1> HIDE DEF k
<1>3. /\ tx' \in [Clients -> Transactions]
      /\ tx'[c].newKey = k /\ tx'[c].op = tx[c].op /\ tx'[c].id = tx[c].id
      /\ tx'[c].ver = tx[c].ver /\ tx'[c].known = tx[c].known
      /\ tx'[c].batch = tx[c].batch /\ tx'[c].writes = tx[c].writes
      /\ tx'[c].entries = tx[c].entries
      /\ \A d \in Clients : d # c => tx'[d] = tx[d]
  <2>1. tx \in [Clients -> Transactions] /\ tx[c] \in Transactions
    BY <1>0 DEF TypeOK
  <2>2. [tx[c] EXCEPT !.newKey = k] \in Transactions
    BY <1>2, <2>1 DEF Transactions
  <2> QED BY <1>1, <2>1, <2>2 DEF Transactions
<1>4. PICK l \in {"put", "select"} :
        Goto(c, l) /\ (l = "put" <=> tx[c].op = "secret.put")
  BY DEF InsertDEK
<1>5. /\ pc' \in [Clients -> Labels] /\ pc'[c] = l
      /\ \A d \in Clients : d # c => pc'[d] = pc[d]
  BY <1>0, <1>4, GotoEffect DEF Labels
<1>6. LocalStep(c)
  BY <1>0, <1>1, <1>3, <1>5 DEF LocalStep, OthersSame, TypeOK
<1>7. AtStage(c, pc[c])'
  BY <1>0, <1>1, <1>2, <1>3, <1>4, <1>5 DEF AtStage, Stages
<1>8. TypeOK' /\ Stages' /\ ChainGrows'
  BY <1>6, <1>7, LocalTypesKeep, LocalChainKeeps
<1>9. KeysInv'
  BY <1>1, <1>3, <1>6, <1>7, LocalKeysKeep
<1>10. IdsInv'
  <2>1. \A d \in Clients : tx'[d].known = tx[d].known
    BY <1>3
  <2>2. /\ tx'[c].known \subseteq issued'
        /\ \A d \in Clients : d # c /\ tx[d].op = "secret.put" => tx[d].id \notin tx'[c].known
    BY <1>0, <1>1, <2>1 DEF IdsFresh
  <2>3. tx'[c].op = "secret.put" =>
          /\ tx'[c].id \in issued' \ DOMAIN secrets'
          /\ \A d \in Clients : tx'[c].id \notin tx'[d].known
          /\ \A d \in Clients : d # c /\ tx[d].op = "secret.put" => tx[d].id # tx'[c].id
    BY <1>0, <1>1, <1>3, <2>1 DEF IdsFresh
  <2> QED BY <1>5, <1>6, <1>7, <2>2, <2>3, LocalIdsKeep
<1>11. LogInv'
  <2>1. \A s \in DOMAIN tx'[c].batch : Logged("secret.put", tx'[c].batch[s].user, s)
    BY <1>0, <1>3 DEF RowsLogged
  <2> QED BY <1>6, <1>7, <2>1, LocalLogKeeps
<1> QED BY <1>8, <1>9, <1>10, <1>11 DEF IInv

LEMMA RotateSelectKeeps ==
  ASSUME IInv, NEW c \in Clients, RotateSelect(c)
  PROVE  IInv'
<1>0. TypeOK /\ Stages /\ IdsFresh /\ AccessesLogged /\ InsertsExclusive
  BY DEF IInv, IdsInv, LogInv, KeysInv
<1>1. /\ pc[c] = "select" /\ tx' = [tx EXCEPT ![c].batch = secrets]
      /\ UNCHANGED <<deks, secrets, log, lastId, raced, released, issued>>
  BY DEF RotateSelect, chainVars
<1>2. tx[c].op = "secret.rotate_dek" /\ tx[c].newKey # NoKey
  BY <1>0, <1>1 DEF Stages
<1>3. /\ tx' \in [Clients -> Transactions]
      /\ tx'[c].newKey = tx[c].newKey /\ tx'[c].op = tx[c].op
      /\ tx'[c].ver = tx[c].ver /\ tx'[c].known = tx[c].known
      /\ tx'[c].batch = secrets /\ tx'[c].writes = tx[c].writes
      /\ tx'[c].entries = tx[c].entries
      /\ \A d \in Clients : d # c => tx'[d] = tx[d]
  <2>1. tx \in [Clients -> Transactions] /\ tx[c] \in Transactions /\ secrets \in RowMaps
    BY <1>0 DEF TypeOK
  <2>2. [tx[c] EXCEPT !.batch = secrets] \in Transactions
    BY <2>1 DEF Transactions
  <2> QED BY <1>1, <2>1, <2>2 DEF Transactions
<1>4. /\ pc' \in [Clients -> Labels] /\ pc'[c] = "update"
      /\ \A d \in Clients : d # c => pc'[d] = pc[d]
  BY <1>0, GotoEffect DEF Labels, RotateSelect
<1>5. LocalStep(c)
  BY <1>0, <1>1, <1>3, <1>4 DEF LocalStep, OthersSame, TypeOK
<1>6. AtStage(c, pc[c])'
  BY <1>0, <1>1, <1>2, <1>3, <1>4 DEF AtStage, Stages
<1>7. TypeOK' /\ Stages' /\ ChainGrows'
  BY <1>5, <1>6, LocalTypesKeep, LocalChainKeeps
<1>8. KeysInv'
  <2>1. /\ tx'[c].ver \notin DOMAIN deks
        /\ \A d \in Clients : d # c => ~Inserting(d, tx'[c].ver)
    BY <1>0, <1>2, <1>3 DEF InsertsExclusive, Inserting
  <2> QED BY <1>5, <1>6, <2>1, LocalKeysKeep
<1>9. IdsInv'
  <2>1. /\ tx'[c].known \subseteq issued'
        /\ \A d \in Clients : d # c /\ tx[d].op = "secret.put" => tx[d].id \notin tx'[c].known
    BY <1>0, <1>1, <1>3 DEF IdsFresh
  <2>2. tx'[c].op # "secret.put" /\ tx'[c].known \cap DOMAIN secrets' \subseteq DOMAIN tx'[c].batch
    BY <1>1, <1>2, <1>3
  <2> QED BY <1>5, <1>6, <2>1, <2>2, LocalIdsKeep
<1>10. LogInv'
  <2>1. \A s \in DOMAIN tx'[c].batch : Logged("secret.put", tx'[c].batch[s].user, s)
    BY <1>0, <1>3 DEF AccessesLogged
  <2> QED BY <1>5, <1>6, <2>1, LocalLogKeeps
<1> QED BY <1>7, <1>8, <1>9, <1>10 DEF IInv

-----------------------------------------------------------------------------
(* The last statement of a call: its rows and its audit entry.             *)

LEMMA WritesKeep ==
  ASSUME IInv, NEW c \in Clients, NEW decision \in {"allow", "deny"}, NEW w \in RowMaps,
         WriteAudit(c, decision, w), pc[c] # "commit",
         UNCHANGED <<deks, secrets, issued, released>>,
         \A s \in DOMAIN w :
            /\ w[s].dek = tx[c].ver
            /\ tx[c].newKey # NoKey => w[s].key = tx[c].newKey
            /\ tx[c].newKey = NoKey => tx[c].ver \in DOMAIN deks /\ deks[tx[c].ver].key = w[s].key,
         tx[c].op = "secret.put" => \A s \in DOMAIN w : s = tx[c].id /\ w[s].user = tx[c].user,
         tx[c].op # "secret.put" =>
            \A s \in DOMAIN w : s \in DOMAIN secrets /\ Logged("secret.put", w[s].user, s),
         tx[c].op = "secret.rotate_dek" => tx[c].known \cap DOMAIN secrets \subseteq DOMAIN w
  PROVE  IInv'
<1>0. TypeOK /\ Stages /\ ChainGrows /\ LogHasLast
  BY DEF IInv, ChainGrows
<1>1. /\ tx' \in [Clients -> Transactions] /\ pc' \in [Clients -> Labels]
      /\ tx'[c].op = tx[c].op /\ tx'[c].user = tx[c].user /\ tx'[c].id = tx[c].id
      /\ tx'[c].ver = tx[c].ver /\ tx'[c].known = tx[c].known
      /\ tx'[c].newKey = tx[c].newKey /\ tx'[c].batch = tx[c].batch
      /\ tx'[c].writes = w /\ pc'[c] = "commit"
      /\ \A d \in Clients : d # c => tx'[d] = tx[d] /\ pc'[d] = pc[d]
      /\ lastId' = lastId + 1 /\ log' = log
      /\ raced' = (raced \/ Pending(c) # {})
  BY <1>0, WriteAuditEffect
<1>2. PICK e \in AuditEntry :
        /\ tx'[c].entries = {e}
        /\ e.event.action = tx[c].op /\ e.event.resource = tx[c].id
        /\ e.event.actor = tx[c].user
        /\ e.id = lastId + 1 /\ e.prev = LastHash(log)
        /\ e.hash = expectedHash(e.prev, e.id, e.event)
  BY <1>0, WriteAuditEffect
<1>3. tx[c].entries = {} /\ DOMAIN tx[c].writes = {}
  BY <1>0 DEF Stages
<1>4. TypeOK'
  <2>1. raced' \in BOOLEAN
    BY <1>1, Zenon
  <2>2. lastId' \in Nat
    BY <1>0, <1>1 DEF TypeOK
  <2> QED BY <1>0, <1>1, <2>1, <2>2 DEF TypeOK, VersionsHaveMax
<1>5. Stages'
  BY <1>0, <1>1 DEF Stages
<1>6. KeysInv'
  <2>1. InsertsExclusive /\ WritesReadable /\ SecretsReadable
    BY DEF IInv, KeysInv
  <2>2. InsertsExclusive'
    <3>1. \A d \in Clients : tx'[d].newKey = tx[d].newKey /\ tx'[d].ver = tx[d].ver
      BY <1>1
    <3> QED BY <2>1, <3>1 DEF InsertsExclusive
  <2>3. WritesReadable'
    BY <1>1, <2>1 DEF WritesReadable
  <2>4. SecretsReadable'
    BY <2>1 DEF SecretsReadable
  <2> QED BY <2>2, <2>3, <2>4 DEF KeysInv
<1>7. IdsInv'
  <2>1. IdsFresh /\ RotationProgress
    BY DEF IInv, IdsInv
  <2>2. \A d \in Clients : /\ tx'[d].op = tx[d].op /\ tx'[d].id = tx[d].id
                           /\ tx'[d].known = tx[d].known
    BY <1>1
  <2>3. /\ DOMAIN secrets' \subseteq issued'
        /\ \A d \in Clients : tx'[d].known \subseteq issued'
        /\ \A a, d \in Clients :
             (tx'[a].op = "secret.put" /\ tx'[d].op = "secret.put" /\ tx'[a].id = tx'[d].id) => a = d
    BY <2>1, <2>2 DEF IdsFresh
  <2>4. \A d \in Clients : tx'[d].op = "secret.put" =>
          /\ tx'[d].id \in issued' \ DOMAIN secrets'
          /\ \A a \in Clients : tx'[d].id \notin tx'[a].known
    BY <2>1, <2>2 DEF IdsFresh
  <2>5. \A d \in Clients :
          /\ tx'[d].op = "secret.put" => \A s \in DOMAIN tx'[d].writes : s = tx'[d].id
          /\ tx'[d].op # "secret.put" => DOMAIN tx'[d].writes \subseteq DOMAIN secrets'
    <3> SUFFICES ASSUME NEW d \in Clients
                 PROVE  /\ tx'[d].op = "secret.put" => \A s \in DOMAIN tx'[d].writes : s = tx'[d].id
                        /\ tx'[d].op # "secret.put" => DOMAIN tx'[d].writes \subseteq DOMAIN secrets'
      OBVIOUS
    <3>1. CASE d = c
      BY <1>1, <3>1
    <3>2. CASE d # c
      BY <1>1, <2>1, <3>2 DEF IdsFresh
    <3> QED BY <3>1, <3>2
  <2>6. IdsFresh'
    BY <2>3, <2>4, <2>5 DEF IdsFresh
  <2>7. RotationProgress'
    BY <1>1, <2>1 DEF RotationProgress
  <2> QED BY <2>6, <2>7 DEF IdsInv
<1>8. LogInv'
  <2>1. EntryInserted /\ RowsLogged /\ AccessesLogged
    BY DEF IInv, LogInv
  <2>2. EntryInserted'
    <3> SUFFICES ASSUME NEW d \in Clients, pc'[d] = "commit"
                 PROVE  \E x \in tx'[d].entries :
                           /\ tx'[d].entries = {x}
                           /\ x.event.action = tx'[d].op /\ x.event.resource = tx'[d].id
                           /\ x.event.actor = tx'[d].user
      BY DEF EntryInserted
    <3>1. CASE d = c
      BY <1>1, <1>2, <3>1
    <3>2. CASE d # c
      BY <1>1, <2>1, <3>2 DEF EntryInserted
    <3> QED BY <3>1, <3>2
  <2>3. RowsLogged'
    <3> SUFFICES ASSUME NEW d \in Clients
                 PROVE  /\ \A s \in DOMAIN tx'[d].batch : Logged("secret.put", tx'[d].batch[s].user, s)
                        /\ \A s \in DOMAIN tx'[d].writes :
                             IF tx'[d].op = "secret.put" THEN tx'[d].writes[s].user = tx'[d].user
                             ELSE Logged("secret.put", tx'[d].writes[s].user, s)
      BY <1>1 DEF RowsLogged, Logged
    <3>1. CASE d = c
      BY <1>1, <2>1, <3>1 DEF RowsLogged
    <3>2. CASE d # c
      BY <1>1, <2>1, <3>2 DEF RowsLogged
    <3> QED BY <3>1, <3>2
  <2>4. AccessesLogged'
    BY <1>1, <2>1 DEF AccessesLogged, Logged
  <2> QED BY <2>2, <2>3, <2>4 DEF LogInv
<1>9. ChainGrows'
  <2>0. /\ lastId \in Nat /\ lastId' = lastId + 1
        /\ \A x \in AuditEntry : x.id \in Nat
        /\ log \subseteq AuditEntry
        /\ \A d \in Clients : tx[d].entries \subseteq AuditEntry
    BY <1>0, <1>1 DEF TypeOK, AuditEntry, Transactions
  <2>1. \A x \in AuditEntry : WellHashed(x) => WellHashed(x)'
    BY <2>0 DEF WellHashed
  <2>2. WellHashed(e)'
    BY <1>2, <2>0 DEF WellHashed
  <2>3. \A x \in log' : WellHashed(x)'
    BY <1>0, <1>1, <2>0, <2>1 DEF ChainGrows
  <2>4. \A d \in Clients : \A x \in tx'[d].entries : WellHashed(x)'
    <3> SUFFICES ASSUME NEW d \in Clients, NEW x \in tx'[d].entries PROVE WellHashed(x)'
      OBVIOUS
    <3>1. CASE d = c
      BY <1>2, <2>2, <3>1
    <3>2. CASE d # c
      <4>1. x \in tx[d].entries
        BY <1>1, <3>2
      <4>2. WellHashed(x) /\ x \in AuditEntry
        BY <1>0, <2>0, <4>1 DEF ChainGrows
      <4> QED BY <2>1, <4>2
    <3> QED BY <3>1, <3>2
  <2>5. LogHasLast'
    BY <1>0, <1>1 DEF LogHasLast
  <2>6. ASSUME ~raced'
        PROVE  /\ VerifyChain(log)'
               /\ \A a, d \in Clients : (tx'[a].entries # {} /\ tx'[d].entries # {}) => a = d
               /\ \A d \in Clients : \A x \in tx'[d].entries : NextInChain(x)'
    <3>1. ~raced /\ Pending(c) = {}
      BY <1>1, <2>6, Zenon
    <3>2. \A d \in Clients : d # c => tx'[d].entries = {}
      BY <1>1, <3>1 DEF Pending
    <3>3. VerifyChain(log)'
      BY <1>0, <1>1, <3>1 DEF ChainGrows, VerifyChain
    <3>4. NextInChain(e)'
      <4>1. \A f \in log : f.id < e.id
        BY <1>0, <1>2, <2>0 DEF ChainGrows, WellHashed
      <4> QED BY <1>1, <1>2, <4>1 DEF NextInChain
    <3> QED BY <1>2, <3>2, <3>3, <3>4
  <2> QED BY <2>3, <2>4, <2>5, <2>6 DEF ChainGrows
<1> QED BY <1>4, <1>5, <1>6, <1>7, <1>8, <1>9 DEF IInv

LEMMA PutKeeps ==
  ASSUME IInv, NEW c \in Clients, Put(c)
  PROVE  IInv'
<1> DEFINE key == IF tx[c].newKey # NoKey THEN tx[c].newKey ELSE deks[tx[c].ver].key
           row == [user |-> tx[c].user, key |-> key, dek |-> tx[c].ver]
           w == [s \in {tx[c].id} |-> row]
<1>0. TypeOK /\ Stages /\ IdsFresh
  BY DEF IInv, IdsInv
<1>1. /\ pc[c] = "put" /\ (tx[c].newKey # NoKey \/ kekFor(c, tx[c].ver))
      /\ WriteAudit(c, "allow", w)
      /\ UNCHANGED <<deks, secrets, issued, released>>
  BY DEF Put
<1>2. tx[c].op = "secret.put"
  BY <1>0, <1>1 DEF Stages
<1>3. tx[c].id \in SecretIds
  BY <1>0, <1>2 DEF IdsFresh, TypeOK
<1>4. tx[c].newKey = NoKey => tx[c].ver \in DOMAIN deks
  BY <1>1 DEF kekFor
<1>5. row \in SecretRow
  <2>1. tx[c].newKey \in Keys /\ tx[c].ver \in Nat /\ tx[c].user \in Actors
    BY <1>0 DEF TypeOK, Transactions
  <2>2. key \in Keys
    BY <1>0, <1>4, <2>1 DEF TypeOK
  <2> HIDE DEF key
  <2> QED BY <2>1, <2>2 DEF SecretRow
<1>6. row.user = tx[c].user /\ row.key = key /\ row.dek = tx[c].ver
  OBVIOUS
<1> HIDE DEF row, key
<1>7. w \in [{tx[c].id} -> SecretRow] /\ DOMAIN w = {tx[c].id} /\ w[tx[c].id] = row
  BY <1>5
<1> HIDE DEF w
<1>8. w \in RowMaps
  BY <1>3, <1>7, RowMapIntro
<1>9. \A s \in DOMAIN w : w[s] = row /\ s = tx[c].id
  BY <1>7
<1>10. /\ tx[c].newKey # NoKey => key = tx[c].newKey
       /\ tx[c].newKey = NoKey => key = deks[tx[c].ver].key
  BY DEF key
<1> QED BY <1>1, <1>2, <1>4, <1>6, <1>8, <1>9, <1>10, WritesKeep

LEMMA AuditOnlyKeeps ==
  ASSUME IInv, NEW c \in Clients, GetAllow(c) \/ GetDeny(c) \/ DeleteAudit(c)
  PROVE  IInv'
<1>0. Stages
  BY DEF IInv
<1>1. PICK decision \in {"allow", "deny"} : WriteAudit(c, decision, Empty)
  BY DEF GetAllow, GetDeny, DeleteAudit
<1>2. pc[c] \in {"allow", "deny", "deleted"} /\ UNCHANGED <<deks, secrets, issued, released>>
  BY DEF GetAllow, GetDeny, DeleteAudit
<1>3. tx[c].op \in {"secret.get", "secret.delete"}
  BY <1>0, <1>2 DEF Stages
<1> QED BY <1>1, <1>2, <1>3, EmptyIsRowMap, WritesKeep

(* A rotation seals what it read, as far as it is still stored, with the   *)
(* key it inserted.                                                        *)
LEMMA RotateUpdateKeeps ==
  ASSUME IInv, NEW c \in Clients, RotateUpdate(c)
  PROVE  IInv'
<1> DEFINE w == Reseal(c)
           S == DOMAIN tx[c].batch \cap DOMAIN secrets
<1>0. TypeOK /\ Stages /\ IdsFresh /\ RotationProgress /\ RowsLogged
  BY DEF IInv, IdsInv, LogInv
<1>1. /\ pc[c] = "update" /\ WriteAudit(c, "allow", w)
      /\ UNCHANGED <<deks, secrets, issued, released>>
  BY DEF RotateUpdate
<1>2. tx[c].op = "secret.rotate_dek" /\ tx[c].newKey # NoKey
  BY <1>0, <1>1 DEF Stages
<1>3. /\ tx[c].batch \in RowMaps /\ tx[c].newKey \in Keys /\ tx[c].ver \in Nat
      /\ secrets \in RowMaps
  BY <1>0 DEF TypeOK, Transactions
<1>4. /\ DOMAIN tx[c].batch \subseteq SecretIds
      /\ \A s \in DOMAIN tx[c].batch : tx[c].batch[s] \in SecretRow
  BY <1>3, RowMapElim
<1>5. /\ w = [s \in S |-> [tx[c].batch[s] EXCEPT !.key = tx[c].newKey, !.dek = tx[c].ver]]
      /\ DOMAIN w = S
  BY DEF Reseal
<1>6. \A s \in S : /\ w[s] \in SecretRow /\ w[s].key = tx[c].newKey /\ w[s].dek = tx[c].ver
                   /\ w[s].user = tx[c].batch[s].user
  <2> SUFFICES ASSUME NEW s \in S
               PROVE  /\ w[s] \in SecretRow /\ w[s].key = tx[c].newKey /\ w[s].dek = tx[c].ver
                      /\ w[s].user = tx[c].batch[s].user
    OBVIOUS
  <2>1. tx[c].batch[s] \in SecretRow
    BY <1>4
  <2>2. w[s] = [tx[c].batch[s] EXCEPT !.key = tx[c].newKey, !.dek = tx[c].ver]
    BY <1>5
  <2> HIDE DEF w
  <2> QED BY <1>3, <2>1, <2>2 DEF SecretRow
<1>7. w \in RowMaps
  <2>1. S \in SUBSET SecretIds
    BY <1>4
  <2>2. w \in [S -> SecretRow]
    BY <1>5, <1>6
  <2> HIDE DEF w, S
  <2> QED BY <2>1, <2>2, RowMapIntro
<1>8. tx[c].known \cap DOMAIN secrets \subseteq S
  BY <1>0, <1>1, <1>2 DEF RotationProgress
<1>9. \A s \in S : s \in DOMAIN secrets /\ Logged("secret.put", w[s].user, s)
  BY <1>0, <1>6 DEF RowsLogged
<1>10. DOMAIN w = S
  BY <1>5
<1> HIDE DEF w, S
<1> QED BY <1>1, <1>2, <1>6, <1>7, <1>8, <1>9, <1>10, WritesKeep

-----------------------------------------------------------------------------
(* The commit. *)

LEMMA MergeRows ==
  ASSUME NEW rows, NEW f
  PROVE  /\ DOMAIN Merge(rows, f) = DOMAIN rows \cup DOMAIN f
         /\ \A x \in DOMAIN rows : Merge(rows, f)[x] = rows[x]
         /\ \A x \in DOMAIN f : x \notin DOMAIN rows => Merge(rows, f)[x] = f[x]
BY DEF Merge

(* The new version joins the stored ones and replaces none.                *)
LEMMA CommitDEKs ==
  ASSUME IInv, NEW c \in Clients, Commit(c)
  PROVE  /\ \A v \in DOMAIN deks : v \in DOMAIN deks' /\ deks'[v] = deks[v]
         /\ tx[c].newKey # NoKey =>
              tx[c].ver \in DOMAIN deks' /\ deks'[tx[c].ver].key = tx[c].newKey
         /\ \A v \in DOMAIN deks' :
              v \in DOMAIN deks \/ (tx[c].newKey # NoKey /\ v = tx[c].ver)
<1> DEFINE new == NewDEK(c)
<1>0. deks' = Merge(new, deks)
  BY DEF Commit
<1>1. DOMAIN deks' = DOMAIN new \cup DOMAIN deks
  BY <1>0, MergeRows
<1>2. /\ \A v \in DOMAIN new : deks'[v] = new[v]
      /\ \A v \in DOMAIN deks : v \notin DOMAIN new => deks'[v] = deks[v]
  <2>1. /\ \A v \in DOMAIN new : Merge(new, deks)[v] = new[v]
        /\ \A v \in DOMAIN deks : v \notin DOMAIN new => Merge(new, deks)[v] = deks[v]
    <3> HIDE DEF new
    <3> QED BY MergeRows
  <2> QED BY <1>0, <2>1
<1>3. InsertsExclusive
  BY DEF IInv, KeysInv
<1>4. CASE tx[c].newKey = NoKey
  <2>1. DOMAIN new = {}
    BY <1>4 DEF NewDEK
  <2> HIDE DEF new
  <2> QED BY <1>1, <1>2, <1>4, <2>1
<1>5. CASE tx[c].newKey # NoKey
  <2>1. DOMAIN new = {tx[c].ver} /\ new[tx[c].ver].key = tx[c].newKey
    BY <1>5 DEF NewDEK
  <2>2. tx[c].ver \notin DOMAIN deks
    BY <1>3, <1>5 DEF InsertsExclusive
  <2> HIDE DEF new
  <2> QED BY <1>1, <1>2, <1>5, <2>1, <2>2
<1> QED BY <1>4, <1>5

LEMMA CommitSecrets ==
  ASSUME NEW c \in Clients, Commit(c)
  PROVE  /\ DOMAIN secrets' = DOMAIN tx[c].writes \cup DOMAIN secrets
         /\ \A s \in DOMAIN tx[c].writes : secrets'[s] = tx[c].writes[s]
         /\ \A s \in DOMAIN secrets : s \notin DOMAIN tx[c].writes => secrets'[s] = secrets[s]
<1>1. secrets' = Merge(tx[c].writes, secrets)
  BY DEF Commit
<1>2. LET m == Merge(tx[c].writes, secrets)
      IN  /\ DOMAIN m = DOMAIN tx[c].writes \cup DOMAIN secrets
          /\ \A s \in DOMAIN tx[c].writes : m[s] = tx[c].writes[s]
          /\ \A s \in DOMAIN secrets : s \notin DOMAIN tx[c].writes => m[s] = secrets[s]
  BY MergeRows
<1> QED BY <1>1, <1>2

(* The transaction is over; the others go on with theirs.                  *)
LEMMA CommitEnds ==
  ASSUME TypeOK, NEW c \in Clients, Commit(c)
  PROVE  /\ OthersSame(c) /\ pc[c] = "commit" /\ pc'[c] = "idle"
         /\ tx'[c].op = "none" /\ tx'[c].newKey = NoKey /\ tx'[c].known = {}
         /\ tx'[c].entries = {} /\ DOMAIN tx'[c].batch = {} /\ DOMAIN tx'[c].writes = {}
         /\ log' = log \cup tx[c].entries
         /\ UNCHANGED <<lastId, raced, issued>>
<1>1. /\ tx' \in [Clients -> Transactions] /\ tx'[c] = NoTx
      /\ \A d \in Clients : d # c => tx'[d] = tx[d]
  BY NoTxType DEF Commit, TypeOK
<1>2. /\ NoTx.op = "none" /\ NoTx.newKey = NoKey /\ NoTx.known = {} /\ NoTx.entries = {}
      /\ DOMAIN NoTx.batch = {} /\ DOMAIN NoTx.writes = {}
  BY EmptyIsRowMap DEF NoTx
<1>3. /\ pc' \in [Clients -> Labels] /\ pc'[c] = "idle"
      /\ \A d \in Clients : d # c => pc'[d] = pc[d]
  BY GotoEffect DEF Labels, Commit
<1>4. pc[c] = "commit" /\ log' = log \cup tx[c].entries /\ UNCHANGED <<lastId, raced, issued>>
  BY DEF Commit, CommitEntries
<1> HIDE DEF NoTx
<1> QED BY <1>1, <1>2, <1>3, <1>4 DEF OthersSame

LEMMA CommitKeepsTypes ==
  ASSUME IInv, NEW c \in Clients, Commit(c)
  PROVE  TypeOK' /\ Stages'
<1>0. TypeOK /\ Stages
  BY DEF IInv
<1>1. tx[c] \in Transactions /\ tx[c].ver \in Nat /\ tx[c].newKey \in Keys /\ tx[c].writes \in RowMaps
      /\ tx[c].entries \subseteq AuditEntry
  BY <1>0 DEF TypeOK, Transactions
<1>2. DOMAIN deks' \subseteq Nat /\ \A v \in DOMAIN deks' : deks'[v].key \in Keys
  BY <1>0, <1>1, CommitDEKs DEF TypeOK
<1>3. VersionsHaveMax'
  <2>1. PICK m \in DOMAIN deks \cup {0} : \A v \in DOMAIN deks \cup {0} : m >= v
    BY <1>0 DEF TypeOK, VersionsHaveMax
  <2>2. DOMAIN deks \cup {0} \subseteq Nat /\ m \in Nat
    BY <1>0 DEF TypeOK
  <2>3. CASE tx[c].newKey = NoKey
    <3>1. DOMAIN deks' = DOMAIN deks
      BY <2>3, CommitDEKs
    <3> QED BY <2>1, <3>1 DEF VersionsHaveMax
  <2>4. CASE tx[c].newKey # NoKey
    <3>1. DOMAIN deks' = DOMAIN deks \cup {tx[c].ver}
      BY <2>4, CommitDEKs
    <3>2. CASE m >= tx[c].ver
      <4>1. m \in DOMAIN deks' \cup {0} /\ \A v \in DOMAIN deks' \cup {0} : m >= v
        BY <2>1, <3>1, <3>2
      <4> QED BY <4>1 DEF VersionsHaveMax
    <3>3. CASE ~(m >= tx[c].ver)
      <4>1. \A v \in DOMAIN deks \cup {0} : tx[c].ver >= v
        BY <1>1, <2>1, <2>2, <3>3
      <4>2. tx[c].ver \in DOMAIN deks' \cup {0} /\ \A v \in DOMAIN deks' \cup {0} : tx[c].ver >= v
        BY <1>1, <3>1, <4>1
      <4> QED BY <4>2 DEF VersionsHaveMax
    <3> QED BY <3>2, <3>3
  <2> QED BY <2>3, <2>4
<1>4. secrets' \in RowMaps
  <2>1. secrets \in RowMaps
    BY <1>0 DEF TypeOK
  <2>2. /\ DOMAIN secrets \subseteq SecretIds /\ \A s \in DOMAIN secrets : secrets[s] \in SecretRow
        /\ DOMAIN tx[c].writes \subseteq SecretIds
        /\ \A s \in DOMAIN tx[c].writes : tx[c].writes[s] \in SecretRow
    BY <1>1, <2>1, RowMapElim
  <2>3. /\ DOMAIN secrets' \subseteq SecretIds
        /\ \A s \in DOMAIN secrets' : secrets'[s] \in SecretRow
    BY <2>2, CommitSecrets
  <2>4. secrets' = [s \in DOMAIN tx[c].writes \cup DOMAIN secrets |->
                      IF s \in DOMAIN tx[c].writes THEN tx[c].writes[s] ELSE secrets[s]]
    BY DEF Commit, Merge
  <2>5. secrets' \in [DOMAIN secrets' -> SecretRow]
    BY <2>3, <2>4
  <2> QED BY <2>3, <2>5, RowMapIntro
<1>5. TypeOK'
  <2>1. OthersSame(c) /\ log' = log \cup tx[c].entries /\ UNCHANGED <<lastId, raced, issued>>
    BY <1>0, CommitEnds
  <2>2. log' \subseteq AuditEntry
    BY <1>0, <1>1, <2>1 DEF TypeOK
  <2> QED BY <1>0, <1>2, <1>3, <1>4, <2>1, <2>2 DEF TypeOK, OthersSame
<1>6. Stages'
  BY <1>0, CommitEnds DEF Stages, OthersSame
<1> QED BY <1>5, <1>6

LEMMA CommitKeepsKeys ==
  ASSUME IInv, NEW c \in Clients, Commit(c)
  PROVE  KeysInv'
<1>0. TypeOK /\ InsertsExclusive /\ WritesReadable /\ SecretsReadable
  BY DEF IInv, KeysInv
<1>1. /\ \A d \in Clients : d # c => tx'[d] = tx[d]
      /\ tx'[c].newKey = NoKey /\ DOMAIN tx'[c].writes = {}
  BY <1>0, CommitEnds DEF OthersSame
<1>2. InsertsExclusive'
  <2>1. \A d \in Clients : tx'[d].newKey # NoKey => tx'[d].ver \notin DOMAIN deks'
    <3> SUFFICES ASSUME NEW d \in Clients, tx'[d].newKey # NoKey PROVE tx'[d].ver \notin DOMAIN deks'
      OBVIOUS
    <3>1. d # c /\ tx'[d] = tx[d]
      BY <1>1
    <3>2. tx[d].ver \notin DOMAIN deks /\ (tx[c].newKey # NoKey => tx[d].ver # tx[c].ver)
      BY <1>0, <3>1 DEF InsertsExclusive
    <3> QED BY <3>1, <3>2, CommitDEKs
  <2> QED BY <1>0, <1>1, <2>1 DEF InsertsExclusive
<1>3. WritesReadable'
  <2> SUFFICES ASSUME NEW d \in Clients, NEW s \in DOMAIN tx'[d].writes
               PROVE  /\ tx'[d].writes[s].dek = tx'[d].ver
                      /\ tx'[d].newKey # NoKey => tx'[d].writes[s].key = tx'[d].newKey
                      /\ tx'[d].newKey = NoKey =>
                           tx'[d].ver \in DOMAIN deks' /\ deks'[tx'[d].ver].key = tx'[d].writes[s].key
    BY DEF WritesReadable
  <2>1. d # c /\ tx'[d] = tx[d] /\ s \in DOMAIN tx[d].writes
    BY <1>1
  <2>2. /\ tx[d].writes[s].dek = tx[d].ver
        /\ tx[d].newKey # NoKey => tx[d].writes[s].key = tx[d].newKey
        /\ tx[d].newKey = NoKey => tx[d].ver \in DOMAIN deks /\ deks[tx[d].ver].key = tx[d].writes[s].key
    BY <1>0, <2>1 DEF WritesReadable
  <2> QED BY <2>1, <2>2, CommitDEKs
<1>4. SecretsReadable'
  <2> SUFFICES ASSUME NEW s \in DOMAIN secrets'
               PROVE  secrets'[s].dek \in DOMAIN deks' /\ deks'[secrets'[s].dek].key = secrets'[s].key
    BY DEF SecretsReadable
  <2>1. CASE s \in DOMAIN tx[c].writes
    <3>1. secrets'[s] = tx[c].writes[s]
      BY <2>1, CommitSecrets
    <3>2. /\ tx[c].writes[s].dek = tx[c].ver
          /\ tx[c].newKey # NoKey => tx[c].writes[s].key = tx[c].newKey
          /\ tx[c].newKey = NoKey => tx[c].ver \in DOMAIN deks /\ deks[tx[c].ver].key = tx[c].writes[s].key
      BY <1>0, <2>1 DEF WritesReadable
    <3> QED BY <3>1, <3>2, CommitDEKs
  <2>2. CASE s \notin DOMAIN tx[c].writes
    <3>1. s \in DOMAIN secrets /\ secrets'[s] = secrets[s]
      BY <2>2, CommitSecrets
    <3>2. secrets[s].dek \in DOMAIN deks /\ deks[secrets[s].dek].key = secrets[s].key
      BY <1>0, <3>1 DEF SecretsReadable
    <3> QED BY <3>1, <3>2, CommitDEKs
  <2> QED BY <2>1, <2>2
<1> QED BY <1>2, <1>3, <1>4 DEF KeysInv

LEMMA CommitKeepsIds ==
  ASSUME IInv, NEW c \in Clients, Commit(c)
  PROVE  IdsInv'
<1>0. TypeOK /\ IdsFresh /\ RotationProgress
  BY DEF IInv, IdsInv
<1>1. /\ \A d \in Clients : d # c => tx'[d] = tx[d] /\ pc'[d] = pc[d]
      /\ tx'[c].op = "none" /\ tx'[c].known = {} /\ DOMAIN tx'[c].writes = {}
      /\ issued' = issued
  BY <1>0, CommitEnds DEF OthersSame
<1>2. \A s \in DOMAIN secrets' : s \in DOMAIN secrets \/ (tx[c].op = "secret.put" /\ s = tx[c].id)
  BY <1>0, CommitSecrets DEF IdsFresh
<1>3. DOMAIN secrets \subseteq DOMAIN secrets'
  BY CommitSecrets
<1>4. DOMAIN secrets' \subseteq issued'
  BY <1>0, <1>1, <1>2 DEF IdsFresh
<1>5. \A d \in Clients : tx'[d].known \subseteq issued'
  BY <1>0, <1>1 DEF IdsFresh
<1>6. \A d \in Clients : tx'[d].op = "secret.put" =>
        /\ tx'[d].id \in issued' \ DOMAIN secrets'
        /\ \A a \in Clients : tx'[d].id \notin tx'[a].known
        /\ \A s \in DOMAIN tx'[d].writes : s = tx'[d].id
  <2> SUFFICES ASSUME NEW d \in Clients, tx'[d].op = "secret.put"
               PROVE  /\ tx'[d].id \in issued' \ DOMAIN secrets'
                      /\ \A a \in Clients : tx'[d].id \notin tx'[a].known
                      /\ \A s \in DOMAIN tx'[d].writes : s = tx'[d].id
    OBVIOUS
  <2>1. d # c /\ tx'[d] = tx[d]
    BY <1>1
  <2>2. /\ tx[d].id \in issued \ DOMAIN secrets
        /\ \A a \in Clients : tx[d].id \notin tx[a].known
        /\ \A s \in DOMAIN tx[d].writes : s = tx[d].id
        /\ tx[c].op = "secret.put" => tx[c].id # tx[d].id
    BY <1>0, <2>1 DEF IdsFresh
  <2>3. tx[d].id \notin DOMAIN secrets'
    BY <1>2, <2>2
  <2>4. \A a \in Clients : tx[d].id \notin tx'[a].known
    BY <1>1, <2>2
  <2> QED BY <1>1, <2>1, <2>2, <2>3, <2>4
<1>7. \A a, d \in Clients :
        (tx'[a].op = "secret.put" /\ tx'[d].op = "secret.put" /\ tx'[a].id = tx'[d].id) => a = d
  BY <1>0, <1>1 DEF IdsFresh
<1>8. \A d \in Clients : tx'[d].op # "secret.put" => DOMAIN tx'[d].writes \subseteq DOMAIN secrets'
  BY <1>0, <1>1, <1>3 DEF IdsFresh
<1>9. IdsFresh'
  BY <1>4, <1>5, <1>6, <1>7, <1>8 DEF IdsFresh
<1>10. RotationProgress'
  <2> SUFFICES ASSUME NEW d \in Clients, tx'[d].op = "secret.rotate_dek"
               PROVE  /\ pc'[d] = "update" => tx'[d].known \cap DOMAIN secrets' \subseteq DOMAIN tx'[d].batch
                      /\ pc'[d] = "commit" => tx'[d].known \cap DOMAIN secrets' \subseteq DOMAIN tx'[d].writes
    BY DEF RotationProgress
  <2>1. d # c /\ tx'[d] = tx[d] /\ pc'[d] = pc[d]
    BY <1>1
  <2>2. tx[d].known \cap DOMAIN secrets' \subseteq tx[d].known \cap DOMAIN secrets
    BY <1>0, <1>2 DEF IdsFresh
  <2> QED BY <1>0, <2>1, <2>2 DEF RotationProgress
<1> QED BY <1>9, <1>10 DEF IdsInv

LEMMA CommitKeepsLog ==
  ASSUME IInv, NEW c \in Clients, Commit(c)
  PROVE  LogInv'
<1>0. TypeOK /\ EntryInserted /\ RowsLogged /\ AccessesLogged /\ IdsFresh
  BY DEF IInv, LogInv, IdsInv
<1>1. /\ \A d \in Clients : d # c => tx'[d] = tx[d] /\ pc'[d] = pc[d]
      /\ pc[c] = "commit" /\ pc'[c] = "idle"
      /\ DOMAIN tx'[c].batch = {} /\ DOMAIN tx'[c].writes = {}
      /\ log' = log \cup tx[c].entries
  BY <1>0, CommitEnds DEF OthersSame
<1>2. \A a, u, s : Logged(a, u, s) => Logged(a, u, s)'
  BY <1>1 DEF Logged
<1>3. Logged(tx[c].op, tx[c].user, tx[c].id) \/ \E e \in log' :
         /\ e.event.action = tx[c].op /\ e.event.resource = tx[c].id /\ e.event.actor = tx[c].user
  BY <1>0, <1>1 DEF EntryInserted
<1>4. EntryInserted'
  BY <1>0, <1>1 DEF EntryInserted
<1>5. RowsLogged'
  <2>1. ASSUME NEW d \in Clients, NEW s \in DOMAIN tx'[d].batch
        PROVE  \E e \in log' : /\ e.event.action = "secret.put" /\ e.event.resource = s
                               /\ e.event.actor = tx'[d].batch[s].user
    <3>1. d # c /\ tx'[d] = tx[d]
      BY <1>1, <2>1
    <3>2. Logged("secret.put", tx[d].batch[s].user, s)
      BY <1>0, <2>1, <3>1 DEF RowsLogged
    <3> QED BY <1>1, <3>1, <3>2 DEF Logged
  <2>2. ASSUME NEW d \in Clients, NEW s \in DOMAIN tx'[d].writes
        PROVE  IF tx'[d].op = "secret.put" THEN tx'[d].writes[s].user = tx'[d].user
               ELSE \E e \in log' : /\ e.event.action = "secret.put" /\ e.event.resource = s
                                    /\ e.event.actor = tx'[d].writes[s].user
    <3>1. d # c /\ tx'[d] = tx[d]
      BY <1>1, <2>2
    <3>2. IF tx[d].op = "secret.put" THEN tx[d].writes[s].user = tx[d].user
                                     ELSE Logged("secret.put", tx[d].writes[s].user, s)
      BY <1>0, <2>2, <3>1 DEF RowsLogged
    <3> QED BY <1>1, <3>1, <3>2 DEF Logged
  <2> QED BY <2>1, <2>2 DEF RowsLogged, Logged
<1>6. AccessesLogged'
  <2>1. ASSUME NEW s \in DOMAIN secrets'
        PROVE  \E e \in log' : /\ e.event.action = "secret.put" /\ e.event.resource = s
                               /\ e.event.actor = secrets'[s].user
    <3>1. CASE s \in DOMAIN tx[c].writes /\ tx[c].op = "secret.put"
      <4>1. s = tx[c].id /\ tx[c].writes[s].user = tx[c].user
        BY <1>0, <3>1 DEF IdsFresh, RowsLogged
      <4>2. secrets'[s] = tx[c].writes[s]
        BY <3>1, CommitSecrets
      <4>3. \E e \in log' : /\ e.event.action = tx[c].op /\ e.event.resource = tx[c].id
                            /\ e.event.actor = tx[c].user
        BY <1>1, <1>3 DEF Logged
      <4> QED BY <3>1, <4>1, <4>2, <4>3
    <3>2. CASE s \in DOMAIN tx[c].writes /\ tx[c].op # "secret.put"
      <4>1. Logged("secret.put", tx[c].writes[s].user, s) /\ secrets'[s] = tx[c].writes[s]
        BY <1>0, <3>2, CommitSecrets DEF RowsLogged
      <4> QED BY <1>1, <4>1 DEF Logged
    <3>3. CASE s \notin DOMAIN tx[c].writes
      <4>1. s \in DOMAIN secrets /\ secrets'[s] = secrets[s]
        BY <2>1, <3>3, CommitSecrets
      <4>2. Logged("secret.put", secrets[s].user, s)
        BY <1>0, <4>1 DEF AccessesLogged
      <4> QED BY <1>1, <4>1, <4>2 DEF Logged
    <3> QED BY <3>1, <3>2, <3>3
  <2>2. ASSUME NEW r \in released'
        PROVE  \E e \in log' : /\ e.event.action = "secret.get" /\ e.event.resource = r[2]
                               /\ e.event.actor = r[1]
    <3>1. r \in released \/ (tx[c].op = "secret.get" /\ r = <<tx[c].user, tx[c].id>>)
      BY <2>2 DEF Commit
    <3>2. CASE r \in released
      <4>1. Logged("secret.get", r[1], r[2])
        BY <1>0, <3>2 DEF AccessesLogged
      <4> QED BY <1>1, <4>1 DEF Logged
    <3>3. CASE tx[c].op = "secret.get" /\ r = <<tx[c].user, tx[c].id>>
      <4>1. r[1] = tx[c].user /\ r[2] = tx[c].id
        BY <3>3
      <4> QED BY <1>1, <1>3, <3>3, <4>1 DEF Logged
    <3> QED BY <3>1, <3>2, <3>3
  <2> QED BY <2>1, <2>2 DEF AccessesLogged, Logged
<1> QED BY <1>4, <1>5, <1>6 DEF LogInv

(* Unless inserts raced, the entry that commits is the only one in flight, *)
(* and the log it joins is the log it was chained to.                      *)
LEMMA CommitKeepsChain ==
  ASSUME IInv, NEW c \in Clients, Commit(c)
  PROVE  ChainGrows'
<1>0. TypeOK /\ EntryInserted /\ ChainGrows
  BY DEF IInv, LogInv
<1>1. /\ \A d \in Clients : d # c => tx'[d] = tx[d]
      /\ pc[c] = "commit" /\ tx'[c].entries = {}
      /\ log' = log \cup tx[c].entries /\ UNCHANGED <<lastId, raced>>
  BY <1>0, CommitEnds DEF OthersSame
<1>2. PICK e \in tx[c].entries : tx[c].entries = {e}
  BY <1>0, <1>1 DEF EntryInserted
<1>3. log' = log \cup {e}
  BY <1>1, <1>2
<1>4. /\ \A f \in log : f.id \in Nat
      /\ e.id \in Nat
  BY <1>0 DEF TypeOK, AuditEntry, Transactions
<1>5. \A x : WellHashed(x)' <=> WellHashed(x)
  BY <1>1 DEF WellHashed
<1>6. \A x \in log' : WellHashed(x)'
  BY <1>0, <1>3, <1>5 DEF ChainGrows
<1>7. \A d \in Clients : tx'[d].entries \subseteq tx[d].entries
  BY <1>1
<1>8. \A d \in Clients : \A x \in tx'[d].entries : WellHashed(x)'
  BY <1>0, <1>5, <1>7 DEF ChainGrows
<1>9. LogHasLast'
  <2>1. CASE log = {}
    <3>1. e \in log' /\ \A f \in log' : f.id <= e.id
      BY <1>3, <1>4, <2>1
    <3> QED BY <3>1 DEF LogHasLast
  <2>2. CASE log # {}
    <3>1. PICK m \in log : \A f \in log : f.id <= m.id
      BY <1>0, <2>2 DEF ChainGrows, LogHasLast
    <3>2. CASE e.id <= m.id
      <4>1. m \in log' /\ \A f \in log' : f.id <= m.id
        BY <1>3, <3>1, <3>2
      <4> QED BY <4>1 DEF LogHasLast
    <3>3. CASE ~(e.id <= m.id)
      <4>1. \A f \in log : f.id <= e.id
        BY <1>4, <3>1, <3>3
      <4>2. e \in log' /\ \A f \in log' : f.id <= e.id
        BY <1>3, <1>4, <4>1
      <4> QED BY <4>2 DEF LogHasLast
    <3> QED BY <3>2, <3>3
  <2> QED BY <2>1, <2>2
<1>10. ASSUME ~raced'
       PROVE  /\ VerifyChain(log)'
              /\ \A a, d \in Clients : (tx'[a].entries # {} /\ tx'[d].entries # {}) => a = d
              /\ \A d \in Clients : \A x \in tx'[d].entries : NextInChain(x)'
  <2>1. ~raced
    BY <1>1, <1>10
  <2>2. /\ VerifyChain(log)
        /\ \A a, d \in Clients : (tx[a].entries # {} /\ tx[d].entries # {}) => a = d
        /\ NextInChain(e)
    BY <1>0, <2>1 DEF ChainGrows
  <2>3. \A d \in Clients : tx'[d].entries = {}
    BY <1>1, <1>2, <2>2
  <2>4. VerifyChain(log')
    <3>1. \A f \in log : f.id < e.id
      BY <2>2 DEF NextInChain
    <3> SUFFICES ASSUME NEW x \in log'
                 PROVE  /\ x.prev = LastHash({f \in log' : f.id < x.id})
                        /\ x.hash = expectedHash(LastHash({f \in log' : f.id < x.id}), x.id, x.event)
      BY DEF VerifyChain
    <3>2. CASE x \in log
      <4>1. {f \in log' : f.id < x.id} = {f \in log : f.id < x.id}
        BY <1>3, <1>4, <3>1, <3>2
      <4> QED BY <2>2, <3>2, <4>1 DEF VerifyChain
    <3>3. CASE x = e
      <4>1. {f \in log' : f.id < e.id} = log
        BY <1>3, <1>4, <3>1
      <4>2. e.prev = LastHash(log) /\ e.hash = expectedHash(e.prev, e.id, e.event)
        BY <1>0, <2>2 DEF NextInChain, ChainGrows, WellHashed
      <4> QED BY <3>3, <4>1, <4>2
    <3> QED BY <1>3, <3>2, <3>3
  <2> QED BY <2>3, <2>4
<1> QED BY <1>6, <1>8, <1>9, <1>10 DEF ChainGrows

-----------------------------------------------------------------------------
(* Every step keeps the invariant. *)

LEMMA StutterKeeps ==
  ASSUME IInv, UNCHANGED <<chainVars, deks, secrets, pc, tx, issued, released>>
  PROVE  IInv'
<1>1. UNCHANGED <<log, lastId, raced, deks, secrets, pc, tx, issued, released>>
  BY DEF chainVars
<1>2. TypeOK' /\ Stages'
  BY <1>1 DEF IInv, TypeOK, VersionsHaveMax, Stages
<1>3. KeysInv' /\ IdsInv'
  BY <1>1 DEF IInv, KeysInv, InsertsExclusive, WritesReadable, SecretsReadable,
              IdsInv, IdsFresh, RotationProgress
<1>4. LogInv'
  BY <1>1 DEF IInv, LogInv, EntryInserted, RowsLogged, AccessesLogged, Logged
<1>5. ChainGrows'
  BY <1>1 DEF IInv, ChainGrows, WellHashed, LogHasLast, VerifyChain, NextInChain
<1> QED BY <1>2, <1>3, <1>4, <1>5 DEF IInv

LEMMA NextKeeps == IInv /\ [Next]_vars => IInv'
<1> SUFFICES ASSUME IInv, [Next]_vars PROVE IInv'
  OBVIOUS
<1>1. CASE UNCHANGED vars
  BY <1>1, StutterKeeps DEF vars, secretVars
<1>2. ASSUME NEW c \in Clients, Call(c) PROVE IInv'
  <2>1. CASE Commit(c)
    BY <2>1, CommitKeepsTypes, CommitKeepsKeys, CommitKeepsIds, CommitKeepsLog, CommitKeepsChain
       DEF IInv
  <2>2. CASE Reconfigure(c)
    BY <2>2, StutterKeeps DEF Reconfigure
  <2>3. CASE Get(c) \/ GetRefused(c)
    BY <2>3, GetBeginsKeeps
  <2>4. CASE GetAllow(c) \/ GetDeny(c) \/ DeleteAudit(c)
    BY <2>4, AuditOnlyKeeps
  <2> QED BY <1>2, <2>1, <2>2, <2>3, <2>4, ensureDEKKeeps, InsertDEKKeeps, PutKeeps, DeleteKeeps,
             RotateOrgDEKKeeps, RotateSelectKeeps, RotateUpdateKeeps, FailKeeps DEF Call
<1> QED BY <1>1, <1>2 DEF Next

-----------------------------------------------------------------------------
LEMMA Invariance == Spec => []IInv
BY InitIInv, NextKeeps, PTL DEF Spec

(* Whatever puts, rotations, deletions and failures interleave, a stored   *)
(* secret is sealed with the key that its dek_version names, and that key  *)
(* is stored (manager.go 121-190, 244-326).                                *)
THEOREM SecretsStayReadable == Spec => []SecretsReadable
<1>1. IInv => SecretsReadable
  BY DEF IInv, KeysInv
<1> QED BY <1>1, Invariance, PTL

(* No secret is stored and no plaintext is released without its event in   *)
(* the log, at whatever statement a call fails (manager.go 183-190,        *)
(* 222-225).                                                               *)
THEOREM NoAccessUnlogged == Spec => []AccessesLogged
<1>1. IInv => AccessesLogged
  BY DEF IInv, LogInv
<1> QED BY <1>1, Invariance, PTL

(* A rotation that commits leaves no secret on an older key that was       *)
(* stored when it began (manager.go 242-326).                              *)
THEOREM RotationIsComplete == Spec => RotationCovers
<1>1. IInv /\ [Next]_vars => [CoveredByRotation]_vars
  <2> SUFFICES ASSUME IInv, NEW c \in Clients, tx[c].op = "secret.rotate_dek", Commit(c),
                      NEW s \in tx[c].known \cap DOMAIN secrets'
               PROVE  secrets'[s].dek >= tx[c].ver
    BY DEF CoveredByRotation
  <2>1. TypeOK /\ IdsFresh /\ RotationProgress /\ WritesReadable
    BY DEF IInv, IdsInv, KeysInv
  <2>2. s \in DOMAIN secrets
    BY <2>1, CommitSecrets DEF IdsFresh
  <2>3. s \in DOMAIN tx[c].writes
    BY <2>1, <2>2 DEF RotationProgress, Commit
  <2>4. secrets'[s].dek = tx[c].ver
    BY <2>1, <2>3, CommitSecrets DEF WritesReadable
  <2>5. tx[c].ver \in Nat
    BY <2>1 DEF TypeOK, Transactions
  <2> QED BY <2>4, <2>5
<1> QED BY <1>1, Invariance, PTL DEF Spec, RotationCovers

(* An entry whose event is changed no longer has the hash of what it says. *)
LEMMA TamperShows ==
  ASSUME IInv, NEW e \in log, NEW d \in {"allow", "deny"} \ {e.event.decision}
  PROVE  ~VerifyChain(Tamper(log, e, d))
<1> DEFINE t == [e EXCEPT !.event.decision = d]
           L == Tamper(log, e, d)
           p == LastHash({f \in L : f.id < t.id})
<1>1. /\ e \in AuditEntry /\ e.prev \in Seq(Nat \X Events) /\ e.event \in Events
      /\ e.hash = expectedHash(e.prev, e.id, e.event)
  BY DEF IInv, TypeOK, ChainGrows, WellHashed, AuditEntry, Hashes
<1>2. t.hash = e.hash /\ t.prev = e.prev /\ t.id = e.id /\ t.event # e.event
  <2>1. t.event.decision = d /\ e.event.decision # d
    BY <1>1 DEF AuditEntry, Events
  <2>2. t.hash = e.hash /\ t.prev = e.prev /\ t.id = e.id
    BY <1>1 DEF AuditEntry
  <2> QED BY <2>1, <2>2
<1>3. t \in L
  BY DEF Tamper
<1> HIDE DEF t, L
<1> SUFFICES ASSUME VerifyChain(L) PROVE FALSE
  BY DEF L
<1>4. t.prev = p /\ t.hash = expectedHash(p, t.id, t.event)
  BY <1>3 DEF VerifyChain
<1> HIDE DEF p
<1>5. Append(e.prev, <<e.id, e.event>>) = Append(e.prev, <<e.id, t.event>>)
  BY <1>1, <1>2, <1>4 DEF expectedHash
<1>6. \A x : Append(e.prev, x)[Len(e.prev) + 1] = x
  BY <1>1
<1>7. <<e.id, e.event>> = <<e.id, t.event>>
  BY <1>5, <1>6
<1> QED BY <1>2, <1>7

(* Whichever entry is rewritten, verification fails; and a log that nobody *)
(* rewrote passes, as long as no entry was inserted beside an uncommitted  *)
(* one (store.go 106-154, 006_audit_chain.up.sql 7-23).                    *)
THEOREM ChainIsEvidence == Spec => []ChainTells
<1>1. IInv => ChainTells
  <2> SUFFICES ASSUME IInv PROVE ChainTells
    OBVIOUS
  <2>1. ~raced => VerifyChain(log)
    BY DEF IInv, ChainGrows
  <2>2. \A e \in log : \A d \in {"allow", "deny"} \ {e.event.decision} :
          ~VerifyChain(Tamper(log, e, d))
    BY TamperShows
  <2> QED BY <2>1, <2>2 DEF ChainTells
<1> QED BY <1>1, Invariance, PTL

=============================================================================
