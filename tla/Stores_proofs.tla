---------------------------- MODULE Stores_proofs -----------------------------
(***************************************************************************)
(* Proofs about two stores that concurrent callers change without a lock   *)
(* around the whole call: the agent registry, for any number of requests,  *)
(* agents, specs and versions, and the environment snapshots, for any      *)
(* number of callers, requests and runs and any ttl and cap of Evict.  The *)
(* two share no state; each part stands on its own.                        *)
(***************************************************************************)
EXTENDS AgentRegistry, Environments, WellFoundedInduction, NaturalsInduction,
        FiniteSetTheorems, TLAPS

-----------------------------------------------------------------------------
(* The agent registry.  Its inductive invariant, in named parts. *)

(* A call in progress works on a version row that can exist. *)
CallsHaveRows == \A c \in Clients : pc[c] # "idle" => tx[c] \in Txs

(* A name that is being created is free, and nobody else creates it. *)
CreatesAreFree ==
  \A c \in Clients : pc[c] = "create" =>
    /\ tx[c].agent \notin registered
    /\ tx[c].ver = 1
    /\ \A d \in Clients : pc[d] = "create" /\ tx[d].agent = tx[c].agent => d = c

(* A number that is being added follows a number that exists. *)
AddsFollow ==
  \A c \in Clients : pc[c] \in {"insert", "add"} =>
    /\ tx[c].agent \in registered
    /\ tx[c].ver > 1
    /\ status[<<tx[c].agent, tx[c].ver - 1>>] # "none"

(* An open insert owns a row that does not exist yet. *)
InsertsOwn ==
  \A c \in Clients : pc[c] = "add" =>
    /\ status[Key(c)] = "none"
    /\ \A d \in Clients : pc[d] = "add" /\ Key(d) = Key(c) => d = c

(* A locked version is a draft and has one owner. *)
LocksOwn ==
  \A c \in Clients : pc[c] \in {"locked", "publish"} =>
    /\ status[Key(c)] = "draft"
    /\ \A d \in Clients : pc[d] \in {"locked", "publish"} /\ Key(d) = Key(c) => d = c

(* Versions belong to registered agents, and a registered agent has one. *)
RowsRegistered ==
  \A a \in Agents :
    /\ a \in registered => status[<<a, 1>>] # "none"
    /\ \A v \in Versions : status[<<a, v>>] # "none" => a \in registered

(* The current version was published once. *)
CurrentWasPublished ==
  \A a \in Agents :
    current[a] # 0 => status[<<a, current[a]>>] \in {"published", "deprecated"}

(* The numbers in use are closed downwards. *)
NoGaps ==
  \A a \in Agents : \A v \in Versions \ {1} :
    status[<<a, v>>] # "none" => status[<<a, v - 1>>] # "none"

IInv ==
  /\ TypeOK
  /\ CallsHaveRows
  /\ CreatesAreFree
  /\ AddsFollow
  /\ InsertsOwn
  /\ LocksOwn
  /\ RowsRegistered
  /\ CurrentWasPublished
  /\ NoGaps

-----------------------------------------------------------------------------
(* Lemmas about the operators. *)

(* Max over version numbers and 0 is one of them, and none is larger. *)
LEMMA MaxOfVersions ==
  ASSUME NEW S \in SUBSET Versions
  PROVE  /\ Max(S \cup {0}) \in S \cup {0}
         /\ \A y \in S \cup {0} : Max(S \cup {0}) >= y
<1> DEFINE U == S \cup {0}
           T == {MaxVersion - v : v \in U}
           Less == OpToRel(<, Nat)
<1>1. \A v \in U : v \in 0..MaxVersion
  BY RegistryAssumption DEF Versions
<1>2. T \subseteq Nat /\ T # {}
  BY <1>1, RegistryAssumption
<1>3. IsWellFoundedOn(Less, Nat)
  BY NatLessThanWellFounded
<1>4. \E x \in T : \A y \in T : ~(<<y, x>> \in Less)
  <2> HIDE DEF T, Less
  <2> QED BY <1>2, <1>3, WFMin
<1>5. PICK x \in T : \A y \in T : ~(<<y, x>> \in Less)
  BY <1>4
<1>6. PICK m \in U : x = MaxVersion - m
  OBVIOUS
<1>7. ASSUME NEW y \in U
      PROVE  m >= y
  <2>1. MaxVersion - y \in T
    OBVIOUS
  <2>2. ~(MaxVersion - y < MaxVersion - m)
    <3>1. ~(<<MaxVersion - y, MaxVersion - m>> \in Less)
      BY <2>1, <1>5, <1>6
    <3>2. MaxVersion - y \in Nat /\ MaxVersion - m \in Nat
      BY <1>1, RegistryAssumption
    <3> QED BY <3>1, <3>2 DEF OpToRel
  <2> QED BY <2>2, <1>1, RegistryAssumption
<1>8. \E z \in U : \A y \in U : z >= y
  BY <1>7
<1> QED
  <2> HIDE DEF U
  <2>1. Max(U) \in U /\ \A y \in U : Max(U) >= y
    BY <1>8 DEF Max
  <2> QED BY <2>1 DEF U

(* The next number of a registered agent follows one that exists. *)
LEMMA NextFollows ==
  ASSUME TypeOK, RowsRegistered, NEW a \in registered, NextVersion(a) \in Versions
  PROVE  NextVersion(a) > 1 /\ status[<<a, NextVersion(a) - 1>>] # "none"
<1> DEFINE S == {v \in Versions : status[<<a, v>>] # "none"}
           m == Max(S \cup {0})
<1>1. m \in S \cup {0} /\ \A y \in S \cup {0} : m >= y
  BY MaxOfVersions
<1>2. 1 \in S
  <2>1. a \in Agents
    BY DEF TypeOK
  <2>2. status[<<a, 1>>] # "none"
    BY <2>1 DEF RowsRegistered
  <2>3. 1 \in Versions
    BY RegistryAssumption DEF Versions
  <2> QED BY <2>2, <2>3
<1>3. NextVersion(a) = m + 1
  BY DEF NextVersion
<1>4. m \in S /\ m >= 1
  <2> HIDE DEF S, m
  <2>1. m >= 1
    BY <1>1, <1>2
  <2> QED BY <2>1, <1>1
<1>5. m \in Versions /\ status[<<a, m>>] # "none"
  BY <1>4
<1> HIDE DEF S, m
<1>6. m \in Nat
  BY <1>5, RegistryAssumption DEF Versions
<1>7. NextVersion(a) - 1 = m /\ NextVersion(a) > 1
  BY <1>3, <1>4, <1>6
<1> QED BY <1>5, <1>7

-----------------------------------------------------------------------------
(* The invariant is inductive: one lemma per action. *)

LEMMA CreateAgentKeeps ==
  ASSUME IInv, NEW c \in Clients, CreateAgent(c)
  PROVE  IInv'
<1> USE RegistryAssumption
<1>0. /\ TypeOK /\ CallsHaveRows /\ CreatesAreFree /\ AddsFollow /\ InsertsOwn
      /\ LocksOwn /\ RowsRegistered /\ CurrentWasPublished /\ NoGaps
  BY DEF IInv
<1>1. PICK a \in Agents, v \in Versions, s \in Specs \cup {NoSpec}, l \in Labels : Begin(c, a, v, s, l)
  BY <1>0 DEF CreateAgent, TypeOK, Keys, Versions, Labels
<1>2. TypeOK'
  BY <1>0 DEF CreateAgent, TypeOK, Begin, CallsHaveRows, Txs, NoTx, Keys,
      Labels, Status, Versions, Key
<1>3. CallsHaveRows'
  BY <1>0, <1>1 DEF Begin, CallsHaveRows, TypeOK, Txs
<1>4. CreatesAreFree'
  BY <1>0 DEF CreateAgent, CreatesAreFree, Begin, TypeOK, CallsHaveRows, Txs
<1>5. AddsFollow'
  BY <1>0 DEF CreateAgent, AddsFollow, Begin, TypeOK, CallsHaveRows, Txs,
      Keys, Key
<1>6. InsertsOwn'
  BY <1>0 DEF CreateAgent, InsertsOwn, Begin, TypeOK, CallsHaveRows, Txs,
      Keys, Key
<1>7. LocksOwn'
  BY <1>0 DEF CreateAgent, LocksOwn, Begin, TypeOK, CallsHaveRows, Txs, Keys,
      Key
<1>8. RowsRegistered'
  BY <1>0 DEF CreateAgent, RowsRegistered, Begin, TypeOK, CallsHaveRows, Txs,
      Keys, Versions, Key
<1>9. CurrentWasPublished'
  BY <1>0 DEF CreateAgent, CurrentWasPublished, Begin, TypeOK, Keys, Versions,
      Key
<1>10. NoGaps'
  BY <1>0 DEF CreateAgent, NoGaps, Begin, TypeOK, Keys, Versions, Key
<1> QED BY <1>2, <1>3, <1>4, <1>5, <1>6, <1>7, <1>8, <1>9, <1>10 DEF IInv

LEMMA CommitCreateKeeps ==
  ASSUME IInv, NEW c \in Clients, CommitCreate(c)
  PROVE  IInv'
<1> USE RegistryAssumption
<1>0. /\ TypeOK /\ CallsHaveRows /\ CreatesAreFree /\ AddsFollow /\ InsertsOwn
      /\ LocksOwn /\ RowsRegistered /\ CurrentWasPublished /\ NoGaps
  BY DEF IInv
<1>1. tx[c] \in Txs /\ Key(c) \in Keys /\ Key(c) = <<tx[c].agent, tx[c].ver>>
  BY <1>0 DEF CommitCreate, CallsHaveRows, Txs, Keys, Key
<1>2. \A k \in Keys : status'[k] = IF k = Key(c) THEN "draft" ELSE status[k]
  BY <1>0, <1>1 DEF CommitCreate, insertVersion, TypeOK
<1>3. status[Key(c)] = "none"
  BY <1>0, <1>1 DEF CommitCreate, CreatesAreFree, RowsRegistered, Versions, Txs
<1>4. tx[c].agent \in Agents /\ tx[c].ver \in Versions
  BY <1>1 DEF Txs
<1>5. registered' = registered \cup {tx[c].agent} /\ current' = current
  BY DEF CommitCreate
<1>6. tx[c].agent \notin registered /\ tx[c].ver = 1
  BY <1>0 DEF CommitCreate, CreatesAreFree
<1>7. \A a \in Agents, v \in Versions :
        status'[<<a, v>>] = IF a = tx[c].agent /\ v = tx[c].ver THEN "draft"
                            ELSE status[<<a, v>>]
  BY <1>1, <1>2 DEF Keys
<1>8. 1 \in Versions /\ \A v \in Versions \ {1} : v - 1 \in Versions /\ v \in Nat
  BY DEF Versions
<1>9. TypeOK'
  BY <1>0 DEF CommitCreate, TypeOK, Return, insertVersion, CallsHaveRows, Txs,
      NoTx, Keys, Labels, Status, Versions, Key
<1>10. CallsHaveRows'
  BY <1>0 DEF CommitCreate, CallsHaveRows, Return, insertVersion, TypeOK, Txs
<1>11. CreatesAreFree'
  BY <1>0 DEF CommitCreate, CreatesAreFree, Return, insertVersion, TypeOK,
      CallsHaveRows, Txs
<1>12. AddsFollow'
  BY <1>0 DEF CommitCreate, AddsFollow, Return, insertVersion, TypeOK,
      CallsHaveRows, Txs, Keys, Key
<1>13. InsertsOwn'
  <2>1. ASSUME NEW d \in Clients, pc'[d] = "add"
        PROVE  /\ d # c /\ pc[d] = "add" /\ tx'[d] = tx[d]
    BY <2>1, <1>0 DEF CommitCreate, Return, TypeOK
  <2>2. ASSUME NEW d \in Clients, pc[d] = "add"
        PROVE  Key(d) \in Keys /\ Key(d) # Key(c)
    BY <2>2, <1>0, <1>1, <1>6 DEF AddsFollow, CallsHaveRows, Txs, Keys, Key
  <2> QED BY <2>1, <2>2, <1>0, <1>2 DEF InsertsOwn, Key
<1>14. LocksOwn'
  BY <1>0 DEF CommitCreate, LocksOwn, Return, insertVersion, TypeOK,
      CallsHaveRows, Txs, Keys, Key
<1>15. RowsRegistered'
  <2>1. ASSUME NEW a \in Agents, a \in registered' PROVE status'[<<a, 1>>] # "none"
    <3>1. CASE a = tx[c].agent
      BY <3>1, <1>4, <1>6, <1>7, <1>8
    <3>2. CASE a # tx[c].agent
      BY <2>1, <3>2, <1>0, <1>5, <1>7, <1>8 DEF RowsRegistered
    <3> QED BY <3>1, <3>2
  <2>2. ASSUME NEW a \in Agents, NEW v \in Versions, status'[<<a, v>>] # "none"
        PROVE  a \in registered'
    BY <2>2, <1>0, <1>5, <1>7 DEF RowsRegistered
  <2> QED BY <2>1, <2>2 DEF RowsRegistered
<1>16. CurrentWasPublished'
  BY <1>0, <1>1, <1>2, <1>3, <1>4, <1>5, <1>6 DEF CurrentWasPublished, Keys,
      Versions, TypeOK
<1>17. NoGaps'
  BY <1>0, <1>1, <1>3, <1>4, <1>5, <1>6, <1>7, <1>8 DEF NoGaps
<1> QED BY <1>9, <1>10, <1>11, <1>12, <1>13, <1>14, <1>15, <1>16, <1>17 DEF IInv

LEMMA AddVersionKeeps ==
  ASSUME IInv, NEW c \in Clients, AddVersion(c)
  PROVE  IInv'
<1> USE RegistryAssumption
<1>0. /\ TypeOK /\ CallsHaveRows /\ CreatesAreFree /\ AddsFollow /\ InsertsOwn
      /\ LocksOwn /\ RowsRegistered /\ CurrentWasPublished /\ NoGaps
  BY DEF IInv
<1>1. PICK a \in registered, s \in Specs : NextVersion(a) \in Versions /\ Begin(c, a, NextVersion(a), s, "insert")
  BY DEF AddVersion
<1>2. NextVersion(a) > 1 /\ status[<<a, NextVersion(a) - 1>>] # "none"
  BY <1>0, <1>1, NextFollows
<1>3. TypeOK'
  BY <1>0 DEF AddVersion, TypeOK, Begin, CallsHaveRows, Txs, NoTx, Keys,
      Labels, Status, Versions, Key
<1>4. CallsHaveRows'
  BY <1>0 DEF AddVersion, CallsHaveRows, Begin, TypeOK, Txs
<1>5. CreatesAreFree'
  BY <1>0 DEF AddVersion, CreatesAreFree, Begin, TypeOK, CallsHaveRows, Txs
<1>6. AddsFollow'
  BY <1>0, <1>1, <1>2 DEF AddVersion, Begin, AddsFollow, TypeOK
<1>7. InsertsOwn'
  BY <1>0 DEF AddVersion, InsertsOwn, Begin, TypeOK, CallsHaveRows, Txs, Keys,
      Key
<1>8. LocksOwn'
  BY <1>0 DEF AddVersion, LocksOwn, Begin, TypeOK, CallsHaveRows, Txs, Keys, Key
<1>9. RowsRegistered'
  BY <1>0 DEF AddVersion, RowsRegistered, Begin, TypeOK, CallsHaveRows, Txs,
      Keys, Versions, Key
<1>10. CurrentWasPublished'
  BY <1>0 DEF AddVersion, CurrentWasPublished, Begin, TypeOK, Keys, Versions,
      Key
<1>11. NoGaps'
  BY <1>0 DEF AddVersion, NoGaps, Begin, TypeOK, Keys, Versions, Key
<1> QED BY <1>3, <1>4, <1>5, <1>6, <1>7, <1>8, <1>9, <1>10, <1>11 DEF IInv

LEMMA InsertVersionKeeps ==
  ASSUME IInv, NEW c \in Clients, InsertVersion(c)
  PROVE  IInv'
<1> USE RegistryAssumption
<1>0. /\ TypeOK /\ CallsHaveRows /\ CreatesAreFree /\ AddsFollow /\ InsertsOwn
      /\ LocksOwn /\ RowsRegistered /\ CurrentWasPublished /\ NoGaps
  BY DEF IInv
<1>1. TypeOK'
  BY <1>0 DEF InsertVersion, TypeOK, Goto, CallsHaveRows, Txs, NoTx, Keys,
      Labels, Status, Versions, Key
<1>2. CallsHaveRows'
  BY <1>0 DEF InsertVersion, CallsHaveRows, Goto, TypeOK, Txs
<1>3. CreatesAreFree'
  BY <1>0 DEF InsertVersion, CreatesAreFree, Goto, TypeOK, CallsHaveRows, Txs
<1>4. AddsFollow'
  BY <1>0 DEF InsertVersion, AddsFollow, Goto, TypeOK, CallsHaveRows, Txs,
      Keys, Key
<1>5. InsertsOwn'
  BY <1>0 DEF InsertVersion, InsertsOwn, Goto, TypeOK, CallsHaveRows, Txs,
      Keys, Key
<1>6. LocksOwn'
  BY <1>0 DEF InsertVersion, LocksOwn, Goto, TypeOK, CallsHaveRows, Txs, Keys,
      Key
<1>7. RowsRegistered'
  BY <1>0 DEF InsertVersion, RowsRegistered, Goto, TypeOK, CallsHaveRows, Txs,
      Keys, Versions, Key
<1>8. CurrentWasPublished'
  BY <1>0 DEF InsertVersion, CurrentWasPublished, Goto, TypeOK, Keys,
      Versions, Key
<1>9. NoGaps'
  BY <1>0 DEF InsertVersion, NoGaps, Goto, TypeOK, Keys, Versions, Key
<1> QED BY <1>1, <1>2, <1>3, <1>4, <1>5, <1>6, <1>7, <1>8, <1>9 DEF IInv

LEMMA CommitVersionKeeps ==
  ASSUME IInv, NEW c \in Clients, CommitVersion(c)
  PROVE  IInv'
<1> USE RegistryAssumption
<1>0. /\ TypeOK /\ CallsHaveRows /\ CreatesAreFree /\ AddsFollow /\ InsertsOwn
      /\ LocksOwn /\ RowsRegistered /\ CurrentWasPublished /\ NoGaps
  BY DEF IInv
<1>1. tx[c] \in Txs /\ Key(c) \in Keys /\ Key(c) = <<tx[c].agent, tx[c].ver>>
  BY <1>0 DEF CommitVersion, CallsHaveRows, Txs, Keys, Key
<1>2. \A k \in Keys : status'[k] = IF k = Key(c) THEN "draft" ELSE status[k]
  BY <1>0, <1>1 DEF CommitVersion, insertVersion, TypeOK
<1>3. status[Key(c)] = "none"
  BY <1>0, <1>1 DEF CommitVersion, InsertsOwn, Txs
<1>4. tx[c].agent \in Agents /\ tx[c].ver \in Versions
  BY <1>1 DEF Txs
<1>5. registered' = registered /\ current' = current
  BY DEF CommitVersion
<1>6. tx[c].agent \in registered /\ tx[c].ver > 1
           /\ status[<<tx[c].agent, tx[c].ver - 1>>] # "none"
  BY <1>0 DEF CommitVersion, AddsFollow
<1>7. \A a \in Agents, v \in Versions :
        status'[<<a, v>>] = IF a = tx[c].agent /\ v = tx[c].ver THEN "draft"
                            ELSE status[<<a, v>>]
  BY <1>1, <1>2 DEF Keys
<1>8. 1 \in Versions /\ \A v \in Versions \ {1} : v - 1 \in Versions /\ v \in Nat
  BY DEF Versions
<1>9. TypeOK'
  BY <1>0 DEF CommitVersion, TypeOK, Return, insertVersion, CallsHaveRows,
      Txs, NoTx, Keys, Labels, Status, Versions, Key
<1>10. CallsHaveRows'
  BY <1>0 DEF CommitVersion, CallsHaveRows, Return, insertVersion, TypeOK, Txs
<1>11. CreatesAreFree'
  BY <1>0 DEF CommitVersion, CreatesAreFree, Return, insertVersion, TypeOK,
      CallsHaveRows, Txs
<1>12. AddsFollow'
  BY <1>0 DEF CommitVersion, AddsFollow, Return, insertVersion, TypeOK,
      CallsHaveRows, Txs, Keys, Key
<1>13. InsertsOwn'
  BY <1>0 DEF CommitVersion, InsertsOwn, Return, insertVersion, TypeOK,
      CallsHaveRows, Txs, Keys, Key
<1>14. LocksOwn'
  BY <1>0 DEF CommitVersion, LocksOwn, Return, insertVersion, TypeOK,
      CallsHaveRows, Txs, Keys, Key
<1>15. RowsRegistered'
  BY <1>0, <1>1, <1>3, <1>4, <1>5, <1>6, <1>7, <1>8 DEF RowsRegistered
<1>16. CurrentWasPublished'
  BY <1>0, <1>1, <1>2, <1>3, <1>4, <1>5, <1>6 DEF CurrentWasPublished, Keys,
      Versions, TypeOK
<1>17. NoGaps'
  BY <1>0, <1>1, <1>3, <1>4, <1>5, <1>6, <1>7, <1>8 DEF NoGaps
<1> QED BY <1>9, <1>10, <1>11, <1>12, <1>13, <1>14, <1>15, <1>16, <1>17 DEF IInv

LEMMA UpdateDraftKeeps ==
  ASSUME IInv, NEW c \in Clients, UpdateDraft(c)
  PROVE  IInv'
<1> USE RegistryAssumption
<1>0. /\ TypeOK /\ CallsHaveRows /\ CreatesAreFree /\ AddsFollow /\ InsertsOwn
      /\ LocksOwn /\ RowsRegistered /\ CurrentWasPublished /\ NoGaps
  BY DEF IInv
<1>1. TypeOK'
  BY <1>0 DEF UpdateDraft, TypeOK, CallsHaveRows, Txs, NoTx, Keys, Labels,
      Status, Versions, Key
<1>2. CallsHaveRows'
  BY <1>0 DEF UpdateDraft, CallsHaveRows, TypeOK, Txs
<1>3. CreatesAreFree'
  BY <1>0 DEF UpdateDraft, CreatesAreFree, TypeOK, CallsHaveRows, Txs
<1>4. AddsFollow'
  BY <1>0 DEF UpdateDraft, AddsFollow, TypeOK, CallsHaveRows, Txs, Keys, Key
<1>5. InsertsOwn'
  BY <1>0 DEF UpdateDraft, InsertsOwn, TypeOK, CallsHaveRows, Txs, Keys, Key
<1>6. LocksOwn'
  BY <1>0 DEF UpdateDraft, LocksOwn, TypeOK, CallsHaveRows, Txs, Keys, Key
<1>7. RowsRegistered'
  BY <1>0 DEF UpdateDraft, RowsRegistered, TypeOK, CallsHaveRows, Txs, Keys,
      Versions, Key
<1>8. CurrentWasPublished'
  BY <1>0 DEF UpdateDraft, CurrentWasPublished, TypeOK, Keys, Versions, Key
<1>9. NoGaps'
  BY <1>0 DEF UpdateDraft, NoGaps, TypeOK, Keys, Versions, Key
<1> QED BY <1>1, <1>2, <1>3, <1>4, <1>5, <1>6, <1>7, <1>8, <1>9 DEF IInv

LEMMA PublishVersionKeeps ==
  ASSUME IInv, NEW c \in Clients, PublishVersion(c)
  PROVE  IInv'
<1> USE RegistryAssumption
<1>0. /\ TypeOK /\ CallsHaveRows /\ CreatesAreFree /\ AddsFollow /\ InsertsOwn
      /\ LocksOwn /\ RowsRegistered /\ CurrentWasPublished /\ NoGaps
  BY DEF IInv
<1>1. PICK a \in Agents, v \in Versions, s \in Specs \cup {NoSpec}, l \in Labels : Begin(c, a, v, s, l)
  BY <1>0 DEF PublishVersion, TypeOK, Keys, Versions, Labels
<1>2. TypeOK'
  BY <1>0 DEF PublishVersion, TypeOK, Begin, VersionLocked, CallsHaveRows,
      Txs, NoTx, Keys, Labels, Status, Versions, Key
<1>3. CallsHaveRows'
  BY <1>0, <1>1 DEF Begin, CallsHaveRows, TypeOK, Txs
<1>4. CreatesAreFree'
  BY <1>0 DEF PublishVersion, CreatesAreFree, Begin, VersionLocked, TypeOK,
      CallsHaveRows, Txs
<1>5. AddsFollow'
  BY <1>0 DEF PublishVersion, AddsFollow, Begin, VersionLocked, TypeOK,
      CallsHaveRows, Txs, Keys, Key
<1>6. InsertsOwn'
  BY <1>0 DEF PublishVersion, InsertsOwn, Begin, VersionLocked, TypeOK,
      CallsHaveRows, Txs, Keys, Key
<1>7. LocksOwn'
  BY <1>0 DEF PublishVersion, LocksOwn, Begin, VersionLocked, TypeOK,
      CallsHaveRows, Txs, Keys, Key
<1>8. RowsRegistered'
  BY <1>0 DEF PublishVersion, RowsRegistered, Begin, VersionLocked, TypeOK,
      CallsHaveRows, Txs, Keys, Versions, Key
<1>9. CurrentWasPublished'
  BY <1>0 DEF PublishVersion, CurrentWasPublished, Begin, VersionLocked,
      TypeOK, Keys, Versions, Key
<1>10. NoGaps'
  BY <1>0 DEF PublishVersion, NoGaps, Begin, VersionLocked, TypeOK, Keys,
      Versions, Key
<1> QED BY <1>2, <1>3, <1>4, <1>5, <1>6, <1>7, <1>8, <1>9, <1>10 DEF IInv

LEMMA PublishUpdateKeeps ==
  ASSUME IInv, NEW c \in Clients, PublishUpdate(c)
  PROVE  IInv'
<1> USE RegistryAssumption
<1>0. /\ TypeOK /\ CallsHaveRows /\ CreatesAreFree /\ AddsFollow /\ InsertsOwn
      /\ LocksOwn /\ RowsRegistered /\ CurrentWasPublished /\ NoGaps
  BY DEF IInv
<1>1. TypeOK'
  BY <1>0 DEF PublishUpdate, TypeOK, Goto, CallsHaveRows, Txs, NoTx, Keys,
      Labels, Status, Versions, Key
<1>2. CallsHaveRows'
  BY <1>0 DEF PublishUpdate, CallsHaveRows, Goto, TypeOK, Txs
<1>3. CreatesAreFree'
  BY <1>0 DEF PublishUpdate, CreatesAreFree, Goto, TypeOK, CallsHaveRows, Txs
<1>4. AddsFollow'
  BY <1>0 DEF PublishUpdate, AddsFollow, Goto, TypeOK, CallsHaveRows, Txs,
      Keys, Key
<1>5. InsertsOwn'
  BY <1>0 DEF PublishUpdate, InsertsOwn, Goto, TypeOK, CallsHaveRows, Txs,
      Keys, Key
<1>6. LocksOwn'
  BY <1>0 DEF PublishUpdate, LocksOwn, Goto, TypeOK, CallsHaveRows, Txs, Keys,
      Key
<1>7. RowsRegistered'
  BY <1>0 DEF PublishUpdate, RowsRegistered, Goto, TypeOK, CallsHaveRows, Txs,
      Keys, Versions, Key
<1>8. CurrentWasPublished'
  BY <1>0 DEF PublishUpdate, CurrentWasPublished, Goto, TypeOK, Keys,
      Versions, Key
<1>9. NoGaps'
  BY <1>0 DEF PublishUpdate, NoGaps, Goto, TypeOK, Keys, Versions, Key
<1> QED BY <1>1, <1>2, <1>3, <1>4, <1>5, <1>6, <1>7, <1>8, <1>9 DEF IInv

LEMMA CommitPublishKeeps ==
  ASSUME IInv, NEW c \in Clients, CommitPublish(c)
  PROVE  IInv'
<1> USE RegistryAssumption
<1>0. /\ TypeOK /\ CallsHaveRows /\ CreatesAreFree /\ AddsFollow /\ InsertsOwn
      /\ LocksOwn /\ RowsRegistered /\ CurrentWasPublished /\ NoGaps
  BY DEF IInv
<1>1. tx[c] \in Txs /\ Key(c) \in Keys /\ Key(c) = <<tx[c].agent, tx[c].ver>>
  BY <1>0 DEF CommitPublish, CallsHaveRows, Txs, Keys, Key
<1>2. \A k \in Keys : status'[k] = IF k = Key(c) THEN "published" ELSE status[k]
  BY <1>0, <1>1 DEF CommitPublish, TypeOK
<1>3. status[Key(c)] = "draft"
  BY <1>0, <1>1 DEF CommitPublish, LocksOwn, Txs
<1>4. tx[c].agent \in Agents /\ tx[c].ver \in Versions
  BY <1>1 DEF Txs
<1>5. registered' = registered /\ current' = [current EXCEPT ![tx[c].agent] = tx[c].ver]
  BY DEF CommitPublish
<1>6. \A a \in Agents, v \in Versions :
        status'[<<a, v>>] = IF a = tx[c].agent /\ v = tx[c].ver THEN "published"
                            ELSE status[<<a, v>>]
  BY <1>1, <1>2 DEF Keys
<1>7. 1 \in Versions /\ \A v \in Versions \ {1} : v - 1 \in Versions /\ v \in Nat
  BY DEF Versions
<1>8. TypeOK'
  BY <1>0 DEF CommitPublish, TypeOK, Return, CallsHaveRows, Txs, NoTx, Keys,
      Labels, Status, Versions, Key
<1>9. CallsHaveRows'
  BY <1>0 DEF CommitPublish, CallsHaveRows, Return, TypeOK, Txs
<1>10. CreatesAreFree'
  BY <1>0 DEF CommitPublish, CreatesAreFree, Return, TypeOK, CallsHaveRows, Txs
<1>11. AddsFollow'
  BY <1>0 DEF CommitPublish, AddsFollow, Return, TypeOK, CallsHaveRows, Txs,
      Keys, Key
<1>12. InsertsOwn'
  <2>1. ASSUME NEW d \in Clients, pc'[d] = "add"
        PROVE  /\ d # c /\ pc[d] = "add" /\ tx'[d] = tx[d]
    BY <2>1, <1>0 DEF CommitPublish, Return, TypeOK
  <2>2. ASSUME NEW d \in Clients, pc[d] = "add"
        PROVE  Key(d) \in Keys /\ Key(d) # Key(c)
    BY <2>2, <1>0, <1>3 DEF InsertsOwn, CallsHaveRows, Txs, Keys, Key
  <2> QED BY <2>1, <2>2, <1>0, <1>2 DEF InsertsOwn, Key
<1>13. LocksOwn'
  BY <1>0 DEF CommitPublish, LocksOwn, Return, TypeOK, CallsHaveRows, Txs,
      Keys, Key
<1>14. RowsRegistered'
  BY <1>0, <1>1, <1>3, <1>4, <1>5, <1>6, <1>7 DEF RowsRegistered
<1>15. CurrentWasPublished'
  BY <1>0, <1>1, <1>2, <1>3, <1>4, <1>5 DEF CurrentWasPublished, Keys,
      Versions, TypeOK
<1>16. NoGaps'
  BY <1>0, <1>1, <1>3, <1>4, <1>5, <1>6, <1>7 DEF NoGaps
<1> QED BY <1>8, <1>9, <1>10, <1>11, <1>12, <1>13, <1>14, <1>15, <1>16 DEF IInv

LEMMA DeprecateVersionKeeps ==
  ASSUME IInv, NEW c \in Clients, DeprecateVersion(c)
  PROVE  IInv'
<1> USE RegistryAssumption
<1>0. /\ TypeOK /\ CallsHaveRows /\ CreatesAreFree /\ AddsFollow /\ InsertsOwn
      /\ LocksOwn /\ RowsRegistered /\ CurrentWasPublished /\ NoGaps
  BY DEF IInv
<1>1. PICK k \in Keys : status[k] = "published" /\ status' = [status EXCEPT ![k] = "deprecated"]
  BY DEF DeprecateVersion
<1>2. \A j \in Keys : status'[j] = IF j = k THEN "deprecated" ELSE status[j]
  BY <1>0, <1>1 DEF TypeOK
<1>3. \A a \in Agents, v \in Versions :
        (status'[<<a, v>>] = "none") <=> (status[<<a, v>>] = "none")
  BY <1>1, <1>2 DEF Keys
<1>4. 1 \in Versions
  BY DEF Versions
<1>5. TypeOK'
  BY <1>0 DEF DeprecateVersion, TypeOK, CallsHaveRows, Txs, NoTx, Keys,
      Labels, Status, Versions, Key
<1>6. CallsHaveRows'
  BY <1>0 DEF DeprecateVersion, CallsHaveRows, TypeOK, Txs
<1>7. CreatesAreFree'
  BY <1>0 DEF DeprecateVersion, CreatesAreFree, TypeOK, CallsHaveRows, Txs
<1>8. AddsFollow'
  BY <1>0 DEF DeprecateVersion, AddsFollow, TypeOK, CallsHaveRows, Txs, Keys,
      Key
<1>9. InsertsOwn'
  BY <1>0 DEF DeprecateVersion, InsertsOwn, TypeOK, CallsHaveRows, Txs, Keys,
      Key
<1>10. LocksOwn'
  BY <1>0 DEF DeprecateVersion, LocksOwn, TypeOK, CallsHaveRows, Txs, Keys, Key
<1>11. RowsRegistered'
  BY <1>0, <1>3, <1>4 DEF DeprecateVersion, RowsRegistered
<1>12. CurrentWasPublished'
  BY <1>0 DEF DeprecateVersion, CurrentWasPublished, TypeOK, Keys, Versions, Key
<1>13. NoGaps'
  BY <1>0 DEF DeprecateVersion, NoGaps, TypeOK, Keys, Versions, Key
<1> QED BY <1>5, <1>6, <1>7, <1>8, <1>9, <1>10, <1>11, <1>12, <1>13 DEF IInv

LEMMA RollbackKeeps ==
  ASSUME IInv, NEW c \in Clients, Rollback(c)
  PROVE  IInv'
<1> USE RegistryAssumption
<1>0. /\ TypeOK /\ CallsHaveRows /\ CreatesAreFree /\ AddsFollow /\ InsertsOwn
      /\ LocksOwn /\ RowsRegistered /\ CurrentWasPublished /\ NoGaps
  BY DEF IInv
<1>1. TypeOK'
  BY <1>0 DEF Rollback, TypeOK, Return, CallsHaveRows, Txs, NoTx, Keys,
      Labels, Status, Versions, Key
<1>2. CallsHaveRows'
  BY <1>0 DEF Rollback, CallsHaveRows, Return, TypeOK, Txs
<1>3. CreatesAreFree'
  BY <1>0 DEF Rollback, CreatesAreFree, Return, TypeOK, CallsHaveRows, Txs
<1>4. AddsFollow'
  BY <1>0 DEF Rollback, AddsFollow, Return, TypeOK, CallsHaveRows, Txs, Keys,
      Key
<1>5. InsertsOwn'
  BY <1>0 DEF Rollback, InsertsOwn, Return, TypeOK, CallsHaveRows, Txs, Keys,
      Key
<1>6. LocksOwn'
  BY <1>0 DEF Rollback, LocksOwn, Return, TypeOK, CallsHaveRows, Txs, Keys, Key
<1>7. RowsRegistered'
  BY <1>0 DEF Rollback, RowsRegistered, Return, TypeOK, CallsHaveRows, Txs,
      Keys, Versions, Key
<1>8. CurrentWasPublished'
  BY <1>0 DEF Rollback, CurrentWasPublished, Return, TypeOK, Keys, Versions, Key
<1>9. NoGaps'
  BY <1>0 DEF Rollback, NoGaps, Return, TypeOK, Keys, Versions, Key
<1> QED BY <1>1, <1>2, <1>3, <1>4, <1>5, <1>6, <1>7, <1>8, <1>9 DEF IInv


LEMMA InvInit == Init => IInv
<1> SUFFICES ASSUME Init PROVE IInv
  OBVIOUS
<1> USE RegistryAssumption
<1>1. TypeOK
  BY DEF Init, TypeOK, Keys, Versions, Status, Labels, NoTx
<1>2. CallsHaveRows /\ CreatesAreFree /\ AddsFollow /\ InsertsOwn /\ LocksOwn
  BY DEF Init, CallsHaveRows, CreatesAreFree, AddsFollow, InsertsOwn, LocksOwn
<1>3. RowsRegistered /\ CurrentWasPublished /\ NoGaps
  BY DEF Init, RowsRegistered, CurrentWasPublished, NoGaps, Keys, Versions
<1> QED BY <1>1, <1>2, <1>3 DEF IInv

LEMMA InvStep == IInv /\ [Next]_vars => IInv'
<1> SUFFICES ASSUME IInv, [Next]_vars PROVE IInv'
  OBVIOUS
<1>1. CASE Next
  <2>1. PICK c \in Clients : Request(c) \/ Continue(c)
    BY <1>1 DEF Next
  <2>2. CASE Request(c)
    BY <2>2, CreateAgentKeeps, AddVersionKeeps, UpdateDraftKeeps, PublishVersionKeeps,
       DeprecateVersionKeeps DEF Request
  <2>3. CASE Continue(c)
    BY <2>3, CommitCreateKeeps, InsertVersionKeeps, CommitVersionKeeps,
       PublishUpdateKeeps, CommitPublishKeeps, RollbackKeeps DEF Continue
  <2> QED BY <2>1, <2>2, <2>3
<1>2. CASE UNCHANGED vars
  BY <1>2 DEF IInv, TypeOK, CallsHaveRows, CreatesAreFree, AddsFollow, InsertsOwn,
              LocksOwn, RowsRegistered, CurrentWasPublished, NoGaps, Key, vars
<1> QED BY <1>1, <1>2

LEMMA Invariance == Spec => []IInv
BY InvInit, InvStep, PTL DEF Spec

-----------------------------------------------------------------------------
(* Theorems. *)

(* The registry keeps its types: a call in progress is about a version     *)
(* number within the bound, and every row has a status of the lifecycle.   *)
THEOREM TypeCorrectness == Spec => []TypeOK
<1>1. IInv => TypeOK
  BY DEF IInv
<1> QED BY <1>1, Invariance, PTL

(* Versions are numbered without gap and a registered agent has a first    *)
(* one (store.go CreateAgent, AddVersion), although AddVersion reads the   *)
(* next number without a lock.                                             *)
THEOREM Numbering == Spec => []VersionsDense
<1>1. IInv => VersionsDense
  <2> SUFFICES ASSUME IInv PROVE VersionsDense
    OBVIOUS
  <2>1. 1 \in Versions
    BY RegistryAssumption DEF Versions
  <2> QED BY <2>1 DEF IInv, VersionsDense, RowsRegistered, NoGaps
<1> QED BY <1>1, Invariance, PTL

(* A step changes at most one row's status, and how. *)
LEMMA PublishedStep == IInv /\ [Next]_vars => [KeepsPublished]_vars
<1> SUFFICES ASSUME IInv, Next PROVE KeepsPublished
  OBVIOUS
<1> USE RegistryAssumption
<1>0. TypeOK /\ CallsHaveRows /\ CreatesAreFree /\ InsertsOwn /\ LocksOwn /\ RowsRegistered
  BY DEF IInv
<1>1. ASSUME NEW k \in Keys, status' = status
      PROVE  status'[k] \in After(status[k])
  BY <1>0, <1>1 DEF TypeOK, After, Status
<1>2. PICK c \in Clients : Request(c) \/ Continue(c)
  BY DEF Next
<1>3. ASSUME UNCHANGED <<status, spec>> PROVE KeepsPublished
  BY <1>1, <1>3 DEF KeepsPublished
<1>4. CASE CreateAgent(c) \/ AddVersion(c) \/ InsertVersion(c) \/ PublishVersion(c)
           \/ PublishUpdate(c) \/ Rollback(c)
  BY <1>3, <1>4 DEF CreateAgent, AddVersion, InsertVersion, PublishVersion,
                    PublishUpdate, Rollback
<1>5. CASE UpdateDraft(c)
  BY <1>0, <1>1, <1>5 DEF UpdateDraft, KeepsPublished, TypeOK
<1>6. CASE DeprecateVersion(c)
  BY <1>0, <1>6 DEF DeprecateVersion, KeepsPublished, TypeOK, After, Status
<1>7. CASE CommitPublish(c)
  <2>1. status[Key(c)] = "draft"
    BY <1>0, <1>7 DEF CommitPublish, LocksOwn
  <2> QED BY <1>0, <1>7, <2>1 DEF CommitPublish, KeepsPublished, TypeOK, After, Status
<1>8. CASE CommitVersion(c)
  <2>1. status[Key(c)] = "none"
    BY <1>0, <1>8 DEF CommitVersion, InsertsOwn
  <2> QED BY <1>0, <1>8, <2>1
       DEF CommitVersion, insertVersion, KeepsPublished, TypeOK, After, Status
<1>9. CASE CommitCreate(c)
  <2>1. tx[c].agent \in Agents /\ tx[c].agent \notin registered /\ Key(c) = <<tx[c].agent, 1>>
    BY <1>0, <1>9 DEF CommitCreate, CreatesAreFree, CallsHaveRows, Txs, Key
  <2>2. status[Key(c)] = "none"
    BY <1>0, <2>1 DEF RowsRegistered, Versions
  <2> QED BY <1>0, <1>9, <2>2
       DEF CommitCreate, insertVersion, KeepsPublished, TypeOK, After, Status
<1> QED BY <1>2, <1>4, <1>5, <1>6, <1>7, <1>8, <1>9 DEF Request, Continue

(* A published version keeps its spec and never goes back, whatever calls  *)
(* run beside each other (store.go UpdateDraft, PublishVersion,            *)
(* DeprecateVersion and the lifecycle trigger).                            *)
THEOREM Immutability == Spec => PublishedIsImmutable
<1> QED BY PublishedStep, Invariance, PTL DEF Spec, PublishedIsImmutable

LEMMA CurrentStep == IInv /\ [Next]_vars => [CurrentMovesWithPublish]_vars
<1> SUFFICES ASSUME IInv, Next PROVE CurrentMovesWithPublish
  OBVIOUS
<1> USE RegistryAssumption
<1>0. TypeOK /\ CallsHaveRows /\ LocksOwn /\ CurrentWasPublished
  BY DEF IInv
<1>2. PICK c \in Clients : Request(c) \/ Continue(c)
  BY DEF Next
<1>3. ASSUME UNCHANGED current,
             \A k \in Keys : status'[k] = "published" => status[k] = "published"
      PROVE  CurrentMovesWithPublish
  BY <1>3 DEF CurrentMovesWithPublish
<1>4. CASE CreateAgent(c) \/ AddVersion(c) \/ InsertVersion(c) \/ PublishVersion(c)
           \/ PublishUpdate(c) \/ Rollback(c) \/ UpdateDraft(c)
  BY <1>3, <1>4 DEF CreateAgent, AddVersion, InsertVersion, PublishVersion,
                    PublishUpdate, Rollback, UpdateDraft
<1>5. CASE DeprecateVersion(c)
  <2>1. \A k \in Keys : status'[k] = "published" => status[k] = "published"
    BY <1>0, <1>5 DEF DeprecateVersion, TypeOK
  <2> QED BY <2>1, <1>3, <1>5 DEF DeprecateVersion
<1>6. CASE CommitCreate(c) \/ CommitVersion(c)
  <2>1. \A k \in Keys : status'[k] = "published" => status[k] = "published"
    BY <1>0, <1>6 DEF CommitCreate, CommitVersion, insertVersion, TypeOK
  <2> QED BY <2>1, <1>3, <1>6 DEF CommitCreate, CommitVersion
<1>7. CASE CommitPublish(c)
  <2>1. tx[c].agent \in Agents /\ tx[c].ver \in Versions
        /\ Key(c) = <<tx[c].agent, tx[c].ver>> /\ Key(c) \in Keys
    BY <1>0, <1>7 DEF CommitPublish, CallsHaveRows, Txs, Key, Keys
  <2>2. status[Key(c)] = "draft"
    BY <1>0, <1>7 DEF CommitPublish, LocksOwn
  <2>3. current[tx[c].agent] # tx[c].ver
    BY <1>0, <2>1, <2>2 DEF CurrentWasPublished, Versions
  <2>4. \A k \in Keys : status'[k] = IF k = Key(c) THEN "published" ELSE status[k]
    BY <1>0, <1>7 DEF CommitPublish, TypeOK
  <2>5. \A a \in Agents : current'[a] = IF a = tx[c].agent THEN tx[c].ver ELSE current[a]
    BY <1>0, <1>7 DEF CommitPublish, TypeOK
  <2>6. ASSUME NEW k \in Keys
        PROVE  (status[k] = "draft" /\ status'[k] = "published")
                 <=> (current'[k[1]] = k[2] /\ current'[k[1]] # current[k[1]])
    <3>1. k[1] \in Agents /\ k = <<k[1], k[2]>>
      BY DEF Keys
    <3>2. CASE k = Key(c)
      BY <2>1, <2>2, <2>3, <2>4, <2>5, <3>1, <3>2
    <3>3. CASE k # Key(c)
      BY <2>1, <2>4, <2>5, <3>1, <3>3
    <3> QED BY <3>2, <3>3
  <2> QED BY <2>6 DEF CurrentMovesWithPublish
<1> QED BY <1>2, <1>4, <1>5, <1>6, <1>7 DEF Request, Continue

(* The current version of an agent moves exactly with the publish of one   *)
(* of its drafts, and to that draft (store.go PublishVersion): racing      *)
(* publishes and deprecations never leave it elsewhere.                    *)
THEOREM CurrentPointer == Spec => CurrentFollowsPublish
<1> QED BY CurrentStep, Invariance, PTL DEF Spec, CurrentFollowsPublish

-----------------------------------------------------------------------------
(* The environment snapshots.  Their inductive invariant, in named parts. *)

(* A snapshot is stored under the key of the request it was built for. *)
StoredForKey ==
  \A k \in DOMAIN blobs : CacheKey(blobs[k].req) = k /\ blobs[k].run \in 1..runs

(* No run is stored under two keys. *)
StoredApart ==
  \A k, l \in DOMAIN blobs : blobs[k].run = blobs[l].run => k = l

(* A call holds a snapshot of its own request, or one that it found under  *)
(* its request's key.                                                      *)
HeldForRequest ==
  \A c \in Callers : cpc[c] \in {"put", "note", "hit"} =>
    CacheKey(loc[c].snap.req) = KeyOf(c) /\ loc[c].snap.run \in 1..runs

(* A run that is yet to be stored is in one pair of hands. *)
RunsApart ==
  \A c \in Callers : cpc[c] = "put" =>
    /\ \A k \in DOMAIN blobs : blobs[k].run # loc[c].snap.run
    /\ \A d \in Callers : cpc[d] = "put" /\ loc[d].snap.run = loc[c].snap.run => d = c

(* What a rebuild dropped is gone: nobody has it stored or will store it,  *)
(* and the rebuild does not hold it.                                       *)
DroppedIsGone ==
  \A c \in Callers :
    /\ loc[c].dropped.run <= runs
    /\ cpc[c] = "build" =>
         /\ \A k \in DOMAIN blobs : blobs[k].run # loc[c].dropped.run
         /\ \A d \in Callers : cpc[d] = "put" => loc[d].snap.run # loc[c].dropped.run
    /\ cpc[c] \in {"put", "note", "hit"} => loc[c].snap.run # loc[c].dropped.run

(* The caller in Evict is the one that holds buildsMu. *)
EvictHolds == \A c \in Callers : cpc[c] = "evict" => buildsMu = c

(* An eviction will leave no more than MaxEntries build times. *)
VictimsSuffice ==
  buildsMu # "free" =>
    /\ victims \subseteq DOMAIN lastBuilt
    /\ Cardinality(DOMAIN lastBuilt \ victims) <= MaxEntries

RunInv == StoredForKey /\ StoredApart /\ HeldForRequest /\ RunsApart /\ DroppedIsGone

SnapshotInv ==
  /\ SnapshotTypeOK
  /\ NothingForgotten
  /\ RunInv
  /\ EvictHolds /\ VictimsSuffice

-----------------------------------------------------------------------------
(* What the store's operations do. *)

LEMMA DeleteFacts ==
  ASSUME NEW f, NEW key
  PROVE  /\ DOMAIN Delete(f, key) = DOMAIN f \ {key}
         /\ \A k \in DOMAIN f \ {key} : Delete(f, key)[k] = f[k]
BY DEF Delete

LEMMA IdleTypes ==
  /\ NoSnap \in Snapshot
  /\ Idle \in [req : AnyRequest, snap : Snapshot, dropped : Snapshot]
BY DEF NoSnap, Idle, Snapshot, AnyRequest

(* What a lookup finds: nothing, or what is stored under the key. *)
LEMMA GetFacts ==
  ASSUME SnapshotTypeOK, StoredForKey, NEW key
  PROVE  /\ Get(key) \in Snapshot
         /\ key \notin DOMAIN blobs => Get(key) = NoSnap
         /\ key \in DOMAIN blobs => Get(key) = blobs[key] /\ blobs[key].run \in 1..runs
         /\ Get(key).run <= runs
<1>1. CASE key \in DOMAIN blobs
  BY <1>1 DEF Get, SnapshotTypeOK, StoredForKey
<1>2. CASE key \notin DOMAIN blobs
  BY <1>2, IdleTypes DEF Get, SnapshotTypeOK, NoSnap
<1> QED BY <1>1, <1>2

(* A caller that moves to a step where it holds no run leaves the others'  *)
(* business alone.                                                         *)
LEMMA CallerMoves ==
  ASSUME SnapshotTypeOK, RunInv, UNCHANGED <<blobs, runs>>,
         NEW c \in Callers, NEW label \in {"idle", "run", "evict"},
         cpc' = [cpc EXCEPT ![c] = label],
         NEW call \in [req : AnyRequest, snap : Snapshot, dropped : Snapshot],
         loc' = [loc EXCEPT ![c] = call], call.dropped.run <= runs
  PROVE  RunInv'
<1>1. \A d \in Callers : d # c => cpc'[d] = cpc[d] /\ loc'[d] = loc[d]
  BY DEF SnapshotTypeOK
<1>2. cpc'[c] = label /\ loc'[c] = call
  BY DEF SnapshotTypeOK
<1>3. (StoredForKey /\ StoredApart)'
  BY DEF RunInv, StoredForKey, StoredApart
<1>4. HeldForRequest'
  BY <1>1, <1>2 DEF RunInv, HeldForRequest, KeyOf
<1>5. RunsApart'
  BY <1>1, <1>2 DEF RunInv, RunsApart
<1>6. DroppedIsGone'
  BY <1>1, <1>2 DEF RunInv, DroppedIsGone
<1> QED BY <1>3, <1>4, <1>5, <1>6 DEF RunInv

-----------------------------------------------------------------------------
(* One lemma per action. *)

LEMMA TypesFrame ==
  ASSUME SnapshotTypeOK, NEW c \in Callers,
         NEW label \in {"idle", "build", "run", "put", "note", "hit", "evict"},
         cpc' = [cpc EXCEPT ![c] = label],
         NEW call \in [req : AnyRequest, snap : Snapshot, dropped : Snapshot],
         loc' = [loc EXCEPT ![c] = call]
  PROVE  /\ \A d \in Callers : d # c => cpc'[d] = cpc[d] /\ loc'[d] = loc[d]
         /\ cpc'[c] = label /\ loc'[c] = call
         /\ cpc' \in [Callers -> {"idle", "build", "run", "put", "note", "hit", "evict"}]
         /\ loc' \in [Callers -> [req : AnyRequest, snap : Snapshot, dropped : Snapshot]]
BY DEF SnapshotTypeOK

(* A caller that neither notes nor evicts, before and after its step,      *)
(* leaves the eviction's books alone.                                      *)
LEMMA BooksFrame ==
  ASSUME SnapshotInv, NEW c \in Callers, cpc[c] \notin {"note", "evict"},
         cpc'[c] # "evict",
         \A d \in Callers : d # c => cpc'[d] = cpc[d] /\ loc'[d] = loc[d],
         DOMAIN blobs' \subseteq DOMAIN blobs,
         UNCHANGED <<lastBuilt, buildsMu, victims>>
  PROVE  NothingForgotten' /\ EvictHolds' /\ VictimsSuffice'
<1>1. NothingForgotten'
  BY DEF SnapshotInv, NothingForgotten, KeyOf
<1>2. EvictHolds'
  BY DEF SnapshotInv, EvictHolds
<1>3. VictimsSuffice'
  BY DEF SnapshotInv, VictimsSuffice
<1> QED BY <1>1, <1>2, <1>3

(* Looking up leaves a call with nothing, or with a snapshot of its key    *)
(* that is not the one it dropped.                                         *)
LEMMA LookupKeeps ==
  ASSUME SnapshotInv, NEW c \in Callers, cpc[c] \in {"idle", "build"},
         NEW call \in [req : AnyRequest, snap : Snapshot, dropped : Snapshot],
         Lookup(c, call), call.dropped.run <= runs,
         \A k \in DOMAIN blobs : blobs[k].run # call.dropped.run,
         UNCHANGED <<blobs, lastBuilt, buildsMu, now, runs, victims>>
  PROVE  SnapshotInv'
<1> DEFINE snap == Get(CacheKey(call.req))
           found == [call EXCEPT !.snap = snap]
           label == IF snap = NoSnap THEN "run" ELSE "hit"
<1>1. SnapshotTypeOK /\ RunInv /\ StoredForKey /\ runs \in Nat
  BY DEF SnapshotInv, RunInv, SnapshotTypeOK
<1>2. /\ snap \in Snapshot /\ snap.run <= runs
      /\ CacheKey(call.req) \notin DOMAIN blobs => snap = NoSnap
      /\ CacheKey(call.req) \in DOMAIN blobs =>
           snap = blobs[CacheKey(call.req)] /\ snap.run \in 1..runs
  BY <1>1, GetFacts
<1> HIDE DEF snap
<1>3. /\ found \in [req : AnyRequest, snap : Snapshot, dropped : Snapshot]
      /\ found.req = call.req /\ found.snap = snap /\ found.dropped = call.dropped
  BY <1>2
<1>4. label \in {"run", "hit"}
  OBVIOUS
<1>5. loc' = [loc EXCEPT ![c] = found] /\ cpc' = [cpc EXCEPT ![c] = label]
  BY DEF Lookup, Enter, snap
<1> HIDE DEF found, label
<1>6. /\ \A d \in Callers : d # c => cpc'[d] = cpc[d] /\ loc'[d] = loc[d]
      /\ cpc'[c] = label /\ loc'[c] = found
      /\ cpc' \in [Callers -> {"idle", "build", "run", "put", "note", "hit", "evict"}]
      /\ loc' \in [Callers -> [req : AnyRequest, snap : Snapshot, dropped : Snapshot]]
  BY <1>1, <1>3, <1>4, <1>5, TypesFrame
<1>7. SnapshotTypeOK'
  BY <1>1, <1>6 DEF SnapshotTypeOK
<1>8. NothingForgotten' /\ EvictHolds' /\ VictimsSuffice'
  BY <1>4, <1>6, BooksFrame
<1>9. RunInv'
  <2>1. CASE label = "run"
    BY <2>1, <1>1, <1>3, <1>5, CallerMoves
  <2>2. CASE label # "run"
    <3>1. label = "hit" /\ snap # NoSnap
      BY <2>2 DEF label
    <3>2. /\ CacheKey(call.req) \in DOMAIN blobs
          /\ snap = blobs[CacheKey(call.req)] /\ snap.run \in 1..runs
      BY <3>1, <1>2
    <3>3. CacheKey(snap.req) = CacheKey(call.req) /\ snap.run # call.dropped.run
      BY <3>2, <1>1 DEF StoredForKey
    <3>4. StoredForKey' /\ StoredApart'
      BY <1>1 DEF RunInv, StoredForKey, StoredApart
    <3>5. HeldForRequest'
      BY <1>1, <1>3, <1>6, <3>2, <3>3 DEF RunInv, HeldForRequest, KeyOf
    <3>6. RunsApart'
      BY <1>1, <1>6, <3>1 DEF RunInv, RunsApart
    <3>7. DroppedIsGone'
      BY <1>1, <1>3, <1>6, <3>1, <3>3, SMTT(20) DEF RunInv, DroppedIsGone
    <3> QED BY <3>4, <3>5, <3>6, <3>7 DEF RunInv
  <2> QED BY <2>1, <2>2
<1> QED BY <1>7, <1>8, <1>9 DEF SnapshotInv

LEMMA BuildKeeps ==
  ASSUME SnapshotInv, NEW c \in Callers, Build(c)
  PROVE  SnapshotInv'
<1>1. PICK r \in Requests : Lookup(c, [Idle EXCEPT !.req = r])
  BY DEF Build
<1> DEFINE call == [Idle EXCEPT !.req = r]
<1>2. /\ call \in [req : AnyRequest, snap : Snapshot, dropped : Snapshot]
      /\ call.dropped.run = 0
  BY IdleTypes DEF Idle, NoSnap, AnyRequest
<1>3. \A k \in DOMAIN blobs : blobs[k].run # 0
  BY DEF SnapshotInv, SnapshotTypeOK, RunInv, StoredForKey
<1>4. runs \in Nat /\ cpc[c] = "idle" /\ UNCHANGED <<blobs, lastBuilt, buildsMu, now, runs, victims>>
  BY DEF Build, SnapshotInv, SnapshotTypeOK
<1> HIDE DEF call
<1> QED BY <1>1, <1>2, <1>3, <1>4, LookupKeeps DEF call

LEMMA RebuildLookupKeeps ==
  ASSUME SnapshotInv, NEW c \in Callers, RebuildLookup(c)
  PROVE  SnapshotInv'
<1>1. loc[c] \in [req : AnyRequest, snap : Snapshot, dropped : Snapshot]
  BY DEF SnapshotInv, SnapshotTypeOK
<1>2. /\ loc[c].dropped.run <= runs
      /\ \A k \in DOMAIN blobs : blobs[k].run # loc[c].dropped.run
  BY DEF SnapshotInv, RunInv, DroppedIsGone, RebuildLookup
<1> QED BY <1>1, <1>2, LookupKeeps DEF RebuildLookup

LEMMA RebuildKeeps ==
  ASSUME SnapshotInv, NEW c \in Callers, Rebuild(c)
  PROVE  SnapshotInv'
<1>1. PICK r \in Requests :
        /\ loc' = [loc EXCEPT ![c] = [Idle EXCEPT !.req = r, !.dropped = Get(CacheKey(r))]]
        /\ blobs' = Delete(blobs, CacheKey(r))
  BY DEF Rebuild
<1> DEFINE old == Get(CacheKey(r))
           call == [Idle EXCEPT !.req = r, !.dropped = old]
<1>2. /\ SnapshotTypeOK /\ RunInv /\ StoredForKey /\ StoredApart /\ runs \in Nat
      /\ cpc[c] = "idle" /\ UNCHANGED <<lastBuilt, buildsMu, now, runs, victims>>
      /\ cpc' = [cpc EXCEPT ![c] = "build"]
  BY DEF SnapshotInv, RunInv, SnapshotTypeOK, Rebuild, Enter
<1>3. /\ old \in Snapshot /\ old.run <= runs
      /\ CacheKey(r) \notin DOMAIN blobs => old = NoSnap
      /\ CacheKey(r) \in DOMAIN blobs => old = blobs[CacheKey(r)]
  BY <1>2, GetFacts
<1>4. /\ DOMAIN blobs' = DOMAIN blobs \ {CacheKey(r)}
      /\ \A k \in DOMAIN blobs' : blobs'[k] = blobs[k]
  BY <1>1, DeleteFacts
<1> HIDE DEF old
<1>5. /\ call \in [req : AnyRequest, snap : Snapshot, dropped : Snapshot]
      /\ call.dropped = old
  BY <1>3, IdleTypes DEF Idle, AnyRequest
<1>6. loc' = [loc EXCEPT ![c] = call]
  BY <1>1 DEF old
<1> HIDE DEF call
<1>7. /\ \A d \in Callers : d # c => cpc'[d] = cpc[d] /\ loc'[d] = loc[d]
      /\ cpc'[c] = "build" /\ loc'[c] = call
      /\ cpc' \in [Callers -> {"idle", "build", "run", "put", "note", "hit", "evict"}]
      /\ loc' \in [Callers -> [req : AnyRequest, snap : Snapshot, dropped : Snapshot]]
  BY <1>2, <1>5, <1>6, TypesFrame
<1>8. SnapshotTypeOK'
  BY <1>2, <1>4, <1>7 DEF SnapshotTypeOK
<1>9. NothingForgotten' /\ EvictHolds' /\ VictimsSuffice'
  BY <1>2, <1>4, <1>7, BooksFrame
<1>10. RunInv'
  <2>1. StoredForKey' /\ StoredApart'
    BY <1>2, <1>4 DEF StoredForKey, StoredApart
  <2>2. HeldForRequest'
    BY <1>2, <1>7 DEF RunInv, HeldForRequest, KeyOf
  <2>3. RunsApart'
    BY <1>2, <1>4, <1>7 DEF RunInv, RunsApart
  <2>4. \A k \in DOMAIN blobs' : blobs'[k].run # old.run
    <3>1. CASE CacheKey(r) \in DOMAIN blobs
      BY <3>1, <1>2, <1>3, <1>4 DEF StoredApart
    <3>2. CASE CacheKey(r) \notin DOMAIN blobs
      BY <3>2, <1>2, <1>3, <1>4 DEF StoredForKey, NoSnap
    <3> QED BY <3>1, <3>2
  <2>5. \A d \in Callers : cpc[d] = "put" => loc[d].snap.run # old.run
    <3>1. CASE CacheKey(r) \in DOMAIN blobs
      BY <3>1, <1>2, <1>3 DEF RunInv, RunsApart
    <3>2. CASE CacheKey(r) \notin DOMAIN blobs
      BY <3>2, <1>2, <1>3 DEF RunInv, HeldForRequest, NoSnap
    <3> QED BY <3>1, <3>2
  <2>6. DroppedIsGone'
    BY <1>2, <1>3, <1>4, <1>5, <1>7, <2>4, <2>5 DEF RunInv, DroppedIsGone
  <2> QED BY <2>1, <2>2, <2>3, <2>6 DEF RunInv
<1> QED BY <1>8, <1>9, <1>10 DEF SnapshotInv

LEMMA RunKeeps ==
  ASSUME SnapshotInv, NEW c \in Callers, Run(c)
  PROVE  SnapshotInv'
<1> DEFINE new == [run |-> runs + 1, req |-> loc[c].req]
           call == [loc[c] EXCEPT !.snap = new]
<1>1. /\ SnapshotTypeOK /\ RunInv /\ runs \in Nat
      /\ cpc[c] = "run" /\ UNCHANGED <<blobs, lastBuilt, buildsMu, now, victims>>
      /\ cpc' = [cpc EXCEPT ![c] = "put"] /\ runs' = runs + 1
      /\ loc[c] \in [req : AnyRequest, snap : Snapshot, dropped : Snapshot]
  BY DEF SnapshotInv, RunInv, SnapshotTypeOK, Run, Enter
<1>2. new \in Snapshot
  BY <1>1 DEF Snapshot
<1>3. /\ call \in [req : AnyRequest, snap : Snapshot, dropped : Snapshot]
      /\ call.req = loc[c].req /\ call.dropped = loc[c].dropped
      /\ call.snap.run = runs + 1 /\ call.snap.req = loc[c].req
  BY <1>1, <1>2
<1>4. loc' = [loc EXCEPT ![c] = call]
  BY <1>1 DEF Run, SnapshotTypeOK
<1> HIDE DEF call
<1>5. /\ \A d \in Callers : d # c => cpc'[d] = cpc[d] /\ loc'[d] = loc[d]
      /\ cpc'[c] = "put" /\ loc'[c] = call
      /\ cpc' \in [Callers -> {"idle", "build", "run", "put", "note", "hit", "evict"}]
      /\ loc' \in [Callers -> [req : AnyRequest, snap : Snapshot, dropped : Snapshot]]
  BY <1>1, <1>3, <1>4, TypesFrame
<1>6. SnapshotTypeOK'
  BY <1>1, <1>5 DEF SnapshotTypeOK
<1>7. NothingForgotten' /\ EvictHolds' /\ VictimsSuffice'
  BY <1>1, <1>5, BooksFrame
<1>8. RunInv'
  <2>1. StoredForKey' /\ StoredApart'
    BY <1>1 DEF RunInv, StoredForKey, StoredApart
  <2>2. HeldForRequest'
    BY <1>1, <1>3, <1>5 DEF RunInv, HeldForRequest, KeyOf
  <2>3. RunsApart'
    BY <1>1, <1>3, <1>5 DEF RunInv, RunsApart, StoredForKey, HeldForRequest
  <2>4. \A d \in Callers : loc[d].dropped.run \in Nat
    BY <1>1 DEF SnapshotTypeOK, Snapshot
  <2>5. DroppedIsGone'
    <3>1. ASSUME NEW d \in Callers
          PROVE  /\ loc'[d].dropped.run <= runs' /\ loc'[d].dropped.run <= runs
                 /\ loc'[d].dropped = loc[d].dropped
      BY <1>1, <1>3, <1>5, <2>4 DEF RunInv, DroppedIsGone
    <3>2. ASSUME NEW d \in Callers, cpc'[d] = "build"
          PROVE  /\ \A k \in DOMAIN blobs : blobs'[k].run # loc'[d].dropped.run
                 /\ \A e \in Callers : cpc'[e] = "put" => loc'[e].snap.run # loc'[d].dropped.run
      BY <1>1, <1>3, <1>5, <2>4, <3>1, <3>2 DEF RunInv, DroppedIsGone
    <3>3. ASSUME NEW d \in Callers, cpc'[d] \in {"put", "note", "hit"}
          PROVE  loc'[d].snap.run # loc'[d].dropped.run
      BY <1>1, <1>3, <1>5, <2>4, <3>1, <3>3 DEF RunInv, DroppedIsGone
    <3> QED BY <1>1, <3>1, <3>2, <3>3 DEF DroppedIsGone
  <2> QED BY <2>1, <2>2, <2>3, <2>5 DEF RunInv
<1> QED BY <1>6, <1>7, <1>8 DEF SnapshotInv

LEMMA RunFailsKeeps ==
  ASSUME SnapshotInv, NEW c \in Callers, RunFails(c)
  PROVE  SnapshotInv'
<1>1. /\ SnapshotTypeOK /\ RunInv /\ runs \in Nat /\ cpc[c] = "run"
      /\ UNCHANGED <<blobs, lastBuilt, buildsMu, now, runs, victims>>
      /\ cpc' = [cpc EXCEPT ![c] = "idle"] /\ loc' = [loc EXCEPT ![c] = Idle]
  BY DEF SnapshotInv, SnapshotTypeOK, RunFails, Enter
<1>2. Idle.dropped.run <= runs
  BY <1>1 DEF Idle, NoSnap
<1>3. RunInv'
  BY <1>1, <1>2, IdleTypes, CallerMoves
<1>4. /\ \A d \in Callers : d # c => cpc'[d] = cpc[d] /\ loc'[d] = loc[d]
      /\ cpc'[c] = "idle"
      /\ cpc' \in [Callers -> {"idle", "build", "run", "put", "note", "hit", "evict"}]
      /\ loc' \in [Callers -> [req : AnyRequest, snap : Snapshot, dropped : Snapshot]]
  BY <1>1, IdleTypes, TypesFrame
<1>5. SnapshotTypeOK'
  BY <1>1, <1>4 DEF SnapshotTypeOK
<1>6. NothingForgotten' /\ EvictHolds' /\ VictimsSuffice'
  BY <1>1, <1>4, BooksFrame
<1> QED BY <1>3, <1>5, <1>6 DEF SnapshotInv

LEMMA PutSnapshotKeeps ==
  ASSUME SnapshotInv, NEW c \in Callers, PutSnapshot(c)
  PROVE  SnapshotInv'
<1> DEFINE snap == loc[c].snap
           key == KeyOf(c)
<1>1. /\ SnapshotTypeOK /\ RunInv /\ runs \in Nat /\ cpc[c] = "put"
      /\ UNCHANGED <<lastBuilt, buildsMu, now, runs, loc, victims>>
      /\ cpc' = [cpc EXCEPT ![c] = "note"]
      /\ blobs' = Put(blobs, key, snap)
  BY DEF SnapshotInv, SnapshotTypeOK, PutSnapshot, Enter
<1>2. /\ snap \in Snapshot /\ snap.run \in 1..runs /\ CacheKey(snap.req) = key
  BY <1>1 DEF SnapshotTypeOK, RunInv, HeldForRequest
<1>3. key' = key
  BY <1>1 DEF KeyOf
<1> HIDE DEF snap, key
<1>4. /\ DOMAIN blobs' = DOMAIN blobs \cup {key} /\ blobs'[key] = snap
      /\ \A k \in DOMAIN blobs \ {key} : blobs'[k] = blobs[k]
  <2>1. blobs' = Put(blobs, key, snap)
    BY <1>1
  <2> QED BY <2>1 DEF Put
<1>5. /\ \A d \in Callers : d # c => cpc'[d] = cpc[d]
      /\ cpc'[c] = "note"
      /\ cpc' \in [Callers -> {"idle", "build", "run", "put", "note", "hit", "evict"}]
  BY <1>1 DEF SnapshotTypeOK
<1>6. SnapshotTypeOK'
  BY <1>1, <1>2, <1>4, <1>5 DEF SnapshotTypeOK
<1>7. NothingForgotten'
  <2>1. ASSUME NEW k \in DOMAIN blobs
        PROVE  k \in DOMAIN lastBuilt \/ \E d \in Callers : cpc'[d] = "note" /\ KeyOf(d)' = k
    BY <1>1, <1>5 DEF SnapshotInv, NothingForgotten, KeyOf
  <2>2. cpc'[c] = "note" /\ KeyOf(c)' = key
    BY <1>3, <1>5 DEF key
  <2> QED BY <1>1, <1>4, <2>1, <2>2 DEF NothingForgotten
<1>8. EvictHolds' /\ VictimsSuffice'
  BY <1>1, <1>5 DEF SnapshotInv, EvictHolds, VictimsSuffice
<1>9. RunInv'
  <2>1. StoredForKey'
    BY <1>1, <1>2, <1>4 DEF RunInv, StoredForKey
  <2>2. \A k \in DOMAIN blobs : blobs[k].run # snap.run
    BY <1>1 DEF RunInv, RunsApart, snap
  <2>3. StoredApart'
    BY <1>1, <1>4, <2>2 DEF RunInv, StoredApart
  <2>4. HeldForRequest'
    BY <1>1, <1>5 DEF RunInv, HeldForRequest, KeyOf
  <2>5. \A d \in Callers : cpc[d] = "put" /\ d # c => loc[d].snap.run # snap.run
    BY <1>1 DEF RunInv, RunsApart, snap
  <2>6. RunsApart'
    <3>1. ASSUME NEW d \in Callers, cpc'[d] = "put"
          PROVE  /\ \A k \in DOMAIN blobs' : blobs'[k].run # loc'[d].snap.run
                 /\ \A e \in Callers : cpc'[e] = "put" /\ loc'[e].snap.run = loc'[d].snap.run => e = d
      BY <1>1, <1>4, <1>5, <2>5, <3>1 DEF RunInv, RunsApart
    <3> QED BY <3>1 DEF RunsApart
  <2>7. DroppedIsGone'
    <3>1. \A d \in Callers : cpc[d] = "build" => snap.run # loc[d].dropped.run
      BY <1>1 DEF RunInv, DroppedIsGone, snap
    <3> QED BY <1>1, <1>4, <1>5, <3>1 DEF RunInv, DroppedIsGone
  <2> QED BY <2>1, <2>3, <2>4, <2>6, <2>7 DEF RunInv
<1> QED BY <1>6, <1>7, <1>8, <1>9 DEF SnapshotInv

LEMMA noteBuildKeeps ==
  ASSUME SnapshotInv, NEW c \in Callers, noteBuild(c)
  PROVE  SnapshotInv'
<1> DEFINE key == KeyOf(c)
<1>1. /\ SnapshotTypeOK /\ RunInv /\ runs \in Nat
      /\ cpc[c] \in {"hit", "note"} /\ buildsMu = "free"
      /\ UNCHANGED <<blobs, buildsMu, now, runs, victims>>
      /\ cpc' = [cpc EXCEPT ![c] = "idle"] /\ loc' = [loc EXCEPT ![c] = Idle]
  BY DEF SnapshotInv, SnapshotTypeOK, noteBuild, Enter
<1>2. DOMAIN lastBuilt' = DOMAIN lastBuilt \cup {key}
  <2>1. lastBuilt' = Put(lastBuilt, key, now)
    BY DEF noteBuild
  <2> HIDE DEF key
  <2> QED BY <2>1 DEF Put
<1>3. Idle.dropped.run <= runs
  BY <1>1 DEF Idle, NoSnap
<1>4. RunInv'
  BY <1>1, <1>3, IdleTypes, CallerMoves
<1>5. /\ \A d \in Callers : d # c => cpc'[d] = cpc[d] /\ loc'[d] = loc[d]
      /\ cpc'[c] = "idle"
      /\ cpc' \in [Callers -> {"idle", "build", "run", "put", "note", "hit", "evict"}]
      /\ loc' \in [Callers -> [req : AnyRequest, snap : Snapshot, dropped : Snapshot]]
  BY <1>1, IdleTypes, TypesFrame
<1> HIDE DEF key
<1>6. IsFiniteSet(DOMAIN lastBuilt')
  BY <1>1, <1>2, FS_AddElement DEF SnapshotTypeOK
<1>7. SnapshotTypeOK'
  BY <1>1, <1>5, <1>6 DEF SnapshotTypeOK
<1>8. NothingForgotten'
  BY <1>1, <1>2, <1>5 DEF SnapshotInv, NothingForgotten, KeyOf, key
<1>9. EvictHolds' /\ VictimsSuffice'
  BY <1>1, <1>5 DEF SnapshotInv, EvictHolds, VictimsSuffice
<1> QED BY <1>4, <1>7, <1>8, <1>9 DEF SnapshotInv

(* Removing the surplus of a set leaves MaxEntries of it. *)
LEMMA SurplusSuffices ==
  ASSUME NEW live, IsFiniteSet(live), NEW S \in Surplus(live)
  PROVE  S \subseteq live /\ Cardinality(live \ S) <= MaxEntries
<1>1. S \subseteq live
  BY DEF Surplus
<1>2. live \cap S = S
  BY <1>1
<1>3. Cardinality(live \ S) = Cardinality(live) - Cardinality(S)
  BY <1>2, FS_Difference
<1>4. Cardinality(live) \in Nat /\ MaxEntries \in Nat
  BY FS_CardinalityType, EnvironmentsAssumption
<1>5. CASE Cardinality(live) > MaxEntries
  <2>1. Cardinality(S) = Cardinality(live) - MaxEntries
    BY <1>5 DEF Surplus
  <2> QED BY <1>1, <1>3, <1>4, <2>1
<1>6. CASE ~(Cardinality(live) > MaxEntries)
  <2>1. Cardinality(S) = 0
    BY <1>6 DEF Surplus
  <2> QED BY <1>1, <1>3, <1>4, <1>6, <2>1
<1> QED BY <1>5, <1>6

LEMMA EvictKeeps ==
  ASSUME SnapshotInv, NEW c \in Callers, Evict(c)
  PROVE  SnapshotInv'
<1>1. /\ SnapshotTypeOK /\ RunInv /\ runs \in Nat
      /\ cpc[c] = "idle" /\ buildsMu = "free" /\ buildsMu' = c
      /\ UNCHANGED <<blobs, lastBuilt, now, runs, loc>>
      /\ cpc' = [cpc EXCEPT ![c] = "evict"]
  BY DEF SnapshotInv, SnapshotTypeOK, Evict, Enter
<1>2. /\ loc[c] \in [req : AnyRequest, snap : Snapshot, dropped : Snapshot]
      /\ loc' = [loc EXCEPT ![c] = loc[c]] /\ loc[c].dropped.run <= runs
  BY <1>1 DEF SnapshotTypeOK, RunInv, DroppedIsGone
<1>3. RunInv'
  BY <1>1, <1>2, CallerMoves
<1>4. /\ \A d \in Callers : d # c => cpc'[d] = cpc[d] /\ loc'[d] = loc[d]
      /\ cpc'[c] = "evict"
      /\ cpc' \in [Callers -> {"idle", "build", "run", "put", "note", "hit", "evict"}]
  BY <1>1, <1>2, TypesFrame
<1>5. SnapshotTypeOK'
  BY <1>1, <1>4 DEF SnapshotTypeOK
<1>6. NothingForgotten'
  BY <1>1, <1>4 DEF SnapshotInv, NothingForgotten, KeyOf
<1>7. EvictHolds'
  BY <1>1, <1>4, EnvironmentsAssumption DEF SnapshotInv, EvictHolds
<1>8. VictimsSuffice'
  <2> DEFINE live == DOMAIN lastBuilt \ Expired
  <2>1. PICK S \in Surplus(live) : victims' = Expired \cup S
    BY DEF Evict
  <2>2. IsFiniteSet(live)
    BY <1>1, FS_Difference DEF SnapshotTypeOK
  <2>3. S \subseteq live /\ Cardinality(live \ S) <= MaxEntries
    <3> HIDE DEF live
    <3> QED BY <2>2, SurplusSuffices
  <2>4. Expired \subseteq DOMAIN lastBuilt
    BY DEF Expired
  <2>5. /\ victims' \subseteq DOMAIN lastBuilt
        /\ DOMAIN lastBuilt \ victims' = live \ S
    BY <2>1, <2>3, <2>4
  <2> QED BY <1>1, <2>3, <2>5 DEF VictimsSuffice
<1> QED BY <1>3, <1>5, <1>6, <1>7, <1>8 DEF SnapshotInv

LEMMA EvictOneKeeps ==
  ASSUME SnapshotInv, NEW c \in Callers, EvictOne(c)
  PROVE  SnapshotInv'
<1>1. PICK k \in victims :
        /\ blobs' = Delete(blobs, k) /\ lastBuilt' = Delete(lastBuilt, k)
        /\ victims' = victims \ {k}
  BY DEF EvictOne
<1>2. /\ SnapshotTypeOK /\ RunInv /\ runs \in Nat /\ cpc[c] = "evict"
      /\ UNCHANGED <<buildsMu, now, runs, cpc, loc>>
  BY DEF SnapshotInv, SnapshotTypeOK, EvictOne
<1>3. /\ DOMAIN blobs' = DOMAIN blobs \ {k}
      /\ \A l \in DOMAIN blobs' : blobs'[l] = blobs[l]
  BY <1>1, DeleteFacts
<1>4. DOMAIN lastBuilt' = DOMAIN lastBuilt \ {k}
  BY <1>1, DeleteFacts
<1>5. IsFiniteSet(DOMAIN lastBuilt')
  BY <1>2, <1>4, FS_RemoveElement DEF SnapshotTypeOK
<1>6. SnapshotTypeOK'
  BY <1>2, <1>3, <1>5 DEF SnapshotTypeOK
<1>7. NothingForgotten'
  BY <1>2, <1>3, <1>4 DEF SnapshotInv, NothingForgotten, KeyOf
<1>8. EvictHolds'
  BY <1>2 DEF SnapshotInv, EvictHolds
<1>9. VictimsSuffice'
  <2>1. buildsMu = c /\ buildsMu # "free"
    BY <1>2, EnvironmentsAssumption DEF SnapshotInv, EvictHolds
  <2>2. victims \subseteq DOMAIN lastBuilt /\ Cardinality(DOMAIN lastBuilt \ victims) <= MaxEntries
    BY <2>1 DEF SnapshotInv, VictimsSuffice
  <2>3. DOMAIN lastBuilt' \ victims' = DOMAIN lastBuilt \ victims
    BY <1>1, <1>4, <2>2
  <2>4. victims' \subseteq DOMAIN lastBuilt'
    BY <1>1, <1>4, <2>2
  <2> QED BY <2>2, <2>3, <2>4 DEF VictimsSuffice
<1>10. RunInv'
  <2>1. StoredForKey' /\ StoredApart'
    BY <1>2, <1>3 DEF RunInv, StoredForKey, StoredApart
  <2>2. HeldForRequest'
    BY <1>2 DEF RunInv, HeldForRequest, KeyOf
  <2>3. RunsApart' /\ DroppedIsGone'
    BY <1>2, <1>3 DEF RunInv, RunsApart, DroppedIsGone
  <2> QED BY <2>1, <2>2, <2>3 DEF RunInv
<1> QED BY <1>6, <1>7, <1>8, <1>9, <1>10 DEF SnapshotInv

LEMMA EvictEndKeeps ==
  ASSUME SnapshotInv, NEW c \in Callers, EvictEnd(c)
  PROVE  SnapshotInv'
<1>1. /\ SnapshotTypeOK /\ RunInv /\ runs \in Nat
      /\ cpc[c] = "evict" /\ buildsMu' = "free"
      /\ UNCHANGED <<blobs, lastBuilt, now, runs, loc, victims>>
      /\ cpc' = [cpc EXCEPT ![c] = "idle"]
  BY DEF SnapshotInv, SnapshotTypeOK, EvictEnd, Enter
<1>2. /\ loc[c] \in [req : AnyRequest, snap : Snapshot, dropped : Snapshot]
      /\ loc' = [loc EXCEPT ![c] = loc[c]] /\ loc[c].dropped.run <= runs
  BY <1>1 DEF SnapshotTypeOK, RunInv, DroppedIsGone
<1>3. RunInv'
  BY <1>1, <1>2, CallerMoves
<1>4. /\ \A d \in Callers : d # c => cpc'[d] = cpc[d] /\ loc'[d] = loc[d]
      /\ cpc'[c] = "idle"
      /\ cpc' \in [Callers -> {"idle", "build", "run", "put", "note", "hit", "evict"}]
  BY <1>1, <1>2, TypesFrame
<1>5. SnapshotTypeOK'
  BY <1>1, <1>4 DEF SnapshotTypeOK
<1>6. NothingForgotten'
  BY <1>1, <1>4 DEF SnapshotInv, NothingForgotten, KeyOf
<1>7. EvictHolds'
  BY <1>1, <1>4 DEF SnapshotInv, EvictHolds
<1>8. VictimsSuffice'
  BY <1>1 DEF VictimsSuffice
<1> QED BY <1>3, <1>5, <1>6, <1>7, <1>8 DEF SnapshotInv

(* A step that leaves everything but the clock alone. *)
LEMMA TickKeeps ==
  ASSUME SnapshotInv, now' \in Nat,
         UNCHANGED <<blobs, lastBuilt, buildsMu, runs, cpc, loc, victims>>
  PROVE  SnapshotInv'
<1>1. SnapshotTypeOK' /\ NothingForgotten' /\ EvictHolds' /\ VictimsSuffice'
  BY DEF SnapshotInv, SnapshotTypeOK, NothingForgotten, KeyOf, EvictHolds, VictimsSuffice
<1>2. RunInv'
  BY DEF SnapshotInv, RunInv, StoredForKey, StoredApart, HeldForRequest, KeyOf, RunsApart,
         DroppedIsGone
<1> QED BY <1>1, <1>2 DEF SnapshotInv

LEMMA SnapshotInvInit == SnapshotInit => SnapshotInv
<1> SUFFICES ASSUME SnapshotInit PROVE SnapshotInv
  OBVIOUS
<1>1. DOMAIN blobs = {} /\ DOMAIN lastBuilt = {} /\ buildsMu = "free"
  BY DEF SnapshotInit, Empty
<1>2. /\ cpc \in [Callers -> {"idle", "build", "run", "put", "note", "hit", "evict"}]
      /\ loc \in [Callers -> [req : AnyRequest, snap : Snapshot, dropped : Snapshot]]
      /\ \A c \in Callers : cpc[c] = "idle" /\ loc[c].dropped.run = 0
  BY IdleTypes DEF SnapshotInit, Idle, NoSnap
<1>3. SnapshotTypeOK
  BY <1>1, <1>2, FS_EmptySet DEF SnapshotInit, SnapshotTypeOK
<1>4. NothingForgotten /\ EvictHolds /\ VictimsSuffice
  BY <1>1, <1>2 DEF NothingForgotten, EvictHolds, VictimsSuffice
<1>5. RunInv
  BY <1>1, <1>2, <1>3 DEF SnapshotTypeOK, SnapshotInit, RunInv, StoredForKey, StoredApart,
         HeldForRequest, RunsApart, DroppedIsGone
<1> QED BY <1>3, <1>4, <1>5 DEF SnapshotInv

LEMMA SnapshotInvStep == SnapshotInv /\ [SnapshotNext]_snapshotVars => SnapshotInv'
<1> SUFFICES ASSUME SnapshotInv, [SnapshotNext]_snapshotVars PROVE SnapshotInv'
  OBVIOUS
<1>1. ASSUME NEW c \in Callers,
             \/ Build(c) \/ Rebuild(c) \/ RebuildLookup(c)
             \/ Run(c) \/ RunFails(c) \/ PutSnapshot(c) \/ noteBuild(c)
             \/ Evict(c) \/ EvictOne(c) \/ EvictEnd(c)
      PROVE  SnapshotInv'
  BY <1>1, BuildKeeps, RebuildKeeps, RebuildLookupKeeps, RunKeeps, RunFailsKeeps,
     PutSnapshotKeeps, noteBuildKeeps, EvictKeeps, EvictOneKeeps, EvictEndKeeps
<1>2. CASE Tick
  BY <1>2, TickKeeps DEF Tick, SnapshotInv, SnapshotTypeOK
<1>3. CASE UNCHANGED snapshotVars
  BY <1>3, TickKeeps DEF snapshotVars, SnapshotInv, SnapshotTypeOK
<1> QED BY <1>1, <1>2, <1>3 DEF SnapshotNext

LEMMA SnapshotInvariance == SnapshotSpec => []SnapshotInv
BY SnapshotInvInit, SnapshotInvStep, PTL DEF SnapshotSpec

-----------------------------------------------------------------------------
(* Theorems about the snapshots. *)

(* No snapshot escapes eviction: Build stores and notes in two steps, but  *)
(* whatever rebuilds and evictions do in between, a stored snapshot is in  *)
(* the build times or its builder is about to note it.                     *)
THEOREM NothingEscapes == SnapshotSpec => []NothingForgotten
<1>1. SnapshotInv => NothingForgotten
  BY DEF SnapshotInv
<1> QED BY <1>1, SnapshotInvariance, PTL

(* A call returns a snapshot of its own inputs: what is stored under a key *)
(* was built for a request with that key, and the key tells requests apart *)
(* in everything but the order of their steps and where the builder        *)
(* version ends and the patch level begins.  Rebuild never returns what it *)
(* was asked to replace: a run is stored once, so once it is deleted no    *)
(* concurrent build can bring it back.                                     *)
THEOREM RightSnapshot == SnapshotSpec => []ServedAsAsked
<1>1. SnapshotInv => ServedAsAsked
  <2> SUFFICES ASSUME SnapshotInv, NEW c \in Callers, Returning(c)
               PROVE  /\ SameInputs(loc[c].req, loc[c].snap.req)
                      /\ loc[c].snap # loc[c].dropped
    BY DEF ServedAsAsked
  <2>1. CacheKey(loc[c].snap.req) = CacheKey(loc[c].req)
    BY DEF SnapshotInv, RunInv, HeldForRequest, KeyOf, Returning
  <2>2. SameInputs(loc[c].req, loc[c].snap.req)
    BY <2>1 DEF CacheKey, SameInputs
  <2>3. loc[c].snap # loc[c].dropped
    BY DEF SnapshotInv, RunInv, DroppedIsGone, Returning
  <2> QED BY <2>2, <2>3
<1> QED BY <1>1, SnapshotInvariance, PTL

LEMMA EvictedEnoughStep ==
  SnapshotInv /\ [SnapshotNext]_snapshotVars => [EvictedEnough]_snapshotVars
<1> SUFFICES ASSUME SnapshotInv, NEW c \in Callers, EvictEnd(c)
             PROVE  Cardinality(DOMAIN blobs) <=
                      MaxEntries + Cardinality({d \in Callers : cpc[d] = "note"})
  BY DEF EvictedEnough
<1> DEFINE N == {d \in Callers : cpc[d] = "note"}
           K == {KeyOf(d) : d \in N}
           f == [d \in N |-> KeyOf(d)]
<1>1. IsFiniteSet(N) /\ Cardinality(N) \in Nat
  BY EnvironmentsAssumption, FS_Subset, FS_CardinalityType
<1>2. f \in Surjection(N, K)
  BY DEF Surjection
<1>3. IsFiniteSet(K) /\ Cardinality(K) <= Cardinality(N) /\ Cardinality(K) \in Nat
  <2> HIDE DEF N, K, f
  <2> QED BY <1>1, <1>2, FS_Surjection, FS_CardinalityType
<1>4. DOMAIN blobs \subseteq DOMAIN lastBuilt \cup K
  BY DEF SnapshotInv, NothingForgotten
<1>5. /\ IsFiniteSet(DOMAIN lastBuilt) /\ Cardinality(DOMAIN lastBuilt) <= MaxEntries
      /\ Cardinality(DOMAIN lastBuilt) \in Nat
  <2>1. buildsMu # "free" /\ victims = {}
    BY EnvironmentsAssumption DEF SnapshotInv, EvictHolds, EvictEnd
  <2>2. DOMAIN lastBuilt \ victims = DOMAIN lastBuilt
    BY <2>1
  <2> QED BY <2>1, <2>2, FS_CardinalityType DEF SnapshotInv, SnapshotTypeOK, VictimsSuffice
<1> HIDE DEF N, K
<1>6. /\ IsFiniteSet(DOMAIN lastBuilt \cup K)
      /\ Cardinality(DOMAIN lastBuilt \cup K) <= MaxEntries + Cardinality(N)
  <2>1. IsFiniteSet(DOMAIN lastBuilt \cap K)
    BY <1>5, FS_Intersection
  <2>2. Cardinality(DOMAIN lastBuilt \cap K) \in Nat
    BY <2>1, FS_CardinalityType
  <2>3. /\ IsFiniteSet(DOMAIN lastBuilt \cup K)
        /\ Cardinality(DOMAIN lastBuilt \cup K) = Cardinality(DOMAIN lastBuilt)
             + Cardinality(K) - Cardinality(DOMAIN lastBuilt \cap K)
    BY <1>3, <1>5, FS_Union
  <2> QED BY <1>1, <1>3, <1>5, <2>2, <2>3, EnvironmentsAssumption
<1>7. /\ Cardinality(DOMAIN blobs) <= Cardinality(DOMAIN lastBuilt \cup K)
      /\ IsFiniteSet(DOMAIN blobs)
  BY <1>4, <1>6, FS_Subset
<1>8. Cardinality(DOMAIN blobs) \in Nat /\ Cardinality(DOMAIN lastBuilt \cup K) \in Nat
  BY <1>6, <1>7, FS_CardinalityType
<1> QED BY <1>1, <1>6, <1>7, <1>8, EnvironmentsAssumption DEF N

(* When an eviction ends, at most MaxEntries snapshots are left besides    *)
(* those of calls that have not returned: buildsMu keeps the build times   *)
(* still from the choice of the victims to the end.                        *)
THEOREM EvictionsSuffice == SnapshotSpec => EvictionBounds
BY SnapshotInvariance, EvictedEnoughStep, PTL DEF SnapshotSpec, EvictionBounds

=============================================================================
