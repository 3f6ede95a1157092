--------------------------- MODULE Sessions_proofs ----------------------------
(***************************************************************************)
(* Proofs about what a session holds outside the cluster's own records:    *)
(* its connections to MCP servers (module McpProxy), for any number of     *)
(* calls, users, servers and tools, and its pod, its saved work and its    *)
(* manifest (modules WarmPool and SessionEnd), for any number of pods,     *)
(* calls, hooks and repositories.  The two parts share no state; each      *)
(* stands on its own.                                                      *)
(***************************************************************************)
EXTENDS McpProxy, SessionEnd, SequenceTheorems, FiniteSetTheorems, NaturalsInduction,
        WellFoundedInduction, TLAPS

Conn == [user : Users, server : Servers, open : BOOLEAN]

-----------------------------------------------------------------------------
(* The MCP proxy.  Its inductive invariant, in named parts. *)

(* A call that is under way has arguments, and one that has listed its     *)
(* tool was granted it.                                                    *)
CallsHaveArguments ==
  \A c \in Calls :
    /\ pc[c] # "idle" => req[c] \in Requests
    /\ pc[c] = "rpc" => listed[c]
    /\ listed[c] => pc[c] # "idle" /\ <<req[c].server, req[c].tool>> \in Grants[req[c].user]

(* What a call holds was dialled for it, or for another call of its user. *)
HeldIsOwn ==
  \A c \in Calls : pc[c] \in {"store", "list", "rpc"} =>
    /\ sess[c] \in Sessions
    /\ dialled[sess[c]].user = req[c].user
    /\ dialled[sess[c]].server = req[c].server

(* What is cached was dialled for the key it is cached under. *)
CachedIsOwn ==
  \A k \in ConnKeys : conns[k] # NoSession =>
    /\ conns[k] \in Sessions
    /\ dialled[conns[k]].user = k[1]
    /\ dialled[conns[k]].server = k[2]

IInv ==
  /\ TypeOK
  /\ CallsHaveArguments
  /\ HeldIsOwn
  /\ CachedIsOwn
  /\ ConnectionsAccounted

-----------------------------------------------------------------------------
(* The steps that leave the connections alone. *)

LEMMA InvInit == Init => IInv
<1> SUFFICES ASSUME Init PROVE IInv
  OBVIOUS
<1> USE McpProxyAssumption
<1>1. dialled = <<>> /\ Len(dialled) = 0 /\ Sessions = {}
  BY DEF Init, Sessions
<1>2. listed \in [Calls -> BOOLEAN]
  BY Zenon DEF Init
<1>3. TypeOK
  BY <1>1, <1>2 DEF Init, TypeOK, Labels
<1>4. CallsHaveArguments /\ HeldIsOwn /\ CachedIsOwn
  BY DEF Init, CallsHaveArguments, HeldIsOwn, CachedIsOwn
<1>5. ConnectionsAccounted
  BY <1>1 DEF ConnectionsAccounted
<1> QED BY <1>3, <1>4, <1>5 DEF IInv

(* A step that starts a call gives it arguments. *)
LEMMA StartKeeps ==
  ASSUME IInv, NEW c \in Calls, ExposedTools(c) \/ Call(c)
  PROVE  IInv'
<1>0. TypeOK /\ CallsHaveArguments /\ HeldIsOwn /\ CachedIsOwn /\ ConnectionsAccounted
  BY DEF IInv
<1>1. PICK q \in Requests : req' = [req EXCEPT ![c] = q]
  <2>1. CASE ExposedTools(c)
    <3>1. PICK u \in Users, s \in Servers :
            req' = [req EXCEPT ![c] = [user |-> u, server |-> s, tool |-> <<>>]]
      BY <2>1 DEF ExposedTools
    <3>2. [user |-> u, server |-> s, tool |-> <<>>] \in Requests
      BY DEF Requests
    <3> QED BY <3>1, <3>2
  <2>2. CASE Call(c)
    <3>1. PICK u \in Users, s \in Servers, n \in Names :
            req' = [req EXCEPT ![c] = [user |-> u, server |-> s, tool |-> SplitNamespace(n).tool]]
      BY <2>2 DEF Call
    <3>2. [user |-> u, server |-> s, tool |-> SplitNamespace(n).tool] \in Requests
      BY DEF Requests
    <3> QED BY <3>1, <3>2
  <2> QED BY <2>1, <2>2
<1>2. /\ pc[c] = "idle" /\ pc' = [pc EXCEPT ![c] = "lookup"]
      /\ UNCHANGED <<conns, dialled, allowed, sess, listed>>
  BY DEF ExposedTools, Call, Goto
<1>3. TypeOK'
  BY <1>0, <1>1, <1>2 DEF TypeOK, Labels
<1>4. CallsHaveArguments'
  BY <1>0, <1>1, <1>2 DEF CallsHaveArguments, TypeOK
<1>5. HeldIsOwn'
  BY <1>0, <1>1, <1>2 DEF HeldIsOwn, TypeOK, Sessions
<1>6. CachedIsOwn'
  BY <1>0, <1>2 DEF CachedIsOwn, Sessions
<1>7. ConnectionsAccounted'
  BY <1>0, <1>2 DEF ConnectionsAccounted, TypeOK, Sessions
<1> QED BY <1>3, <1>4, <1>5, <1>6, <1>7 DEF IInv

LEMMA LookupKeeps ==
  ASSUME IInv, NEW c \in Calls, Lookup(c)
  PROVE  IInv'
<1>0. TypeOK /\ CallsHaveArguments /\ HeldIsOwn /\ CachedIsOwn /\ ConnectionsAccounted
  BY DEF IInv
<1>1. req[c] \in Requests /\ connKey(c) \in ConnKeys
  BY <1>0 DEF Lookup, CallsHaveArguments, connKey, ConnKeys, Requests
<1>2. pc[c] = "lookup" /\ UNCHANGED <<conns, dialled, allowed, req, listed>>
  BY DEF Lookup
<1>3. CASE conns[connKey(c)] = NoSession
  <2>1. pc' = [pc EXCEPT ![c] = "dial"] /\ sess' = sess
    BY <1>3 DEF Lookup, Goto
  <2>2. TypeOK'
    BY <1>0, <1>2, <2>1 DEF TypeOK, Labels
  <2>3. CallsHaveArguments'
    BY <1>0, <1>2, <2>1 DEF CallsHaveArguments, TypeOK
  <2>4. HeldIsOwn'
    BY <1>0, <1>2, <2>1 DEF HeldIsOwn, TypeOK, Sessions
  <2>5. CachedIsOwn'
    BY <1>0, <1>2 DEF CachedIsOwn, Sessions
  <2>6. ConnectionsAccounted'
    BY <1>0, <1>2, <2>1 DEF ConnectionsAccounted, TypeOK, Sessions
  <2> QED BY <2>2, <2>3, <2>4, <2>5, <2>6 DEF IInv
<1>4. CASE conns[connKey(c)] # NoSession
  <2>1. /\ pc' = [pc EXCEPT ![c] = IF listed[c] THEN "rpc" ELSE "list"]
        /\ sess' = [sess EXCEPT ![c] = conns[connKey(c)]]
    BY <1>4 DEF Lookup, Goto
  <2>2. /\ conns[connKey(c)] \in Sessions
        /\ dialled[conns[connKey(c)]].user = req[c].user
        /\ dialled[conns[connKey(c)]].server = req[c].server
    BY <1>0, <1>1, <1>4 DEF CachedIsOwn, connKey
  <2>3. TypeOK'
    BY <1>0, <1>1, <1>2, <2>1 DEF TypeOK, Labels
  <2>4. CallsHaveArguments'
    BY <1>0, <1>1, <1>2, <2>1 DEF CallsHaveArguments, TypeOK
  <2>5. HeldIsOwn'
    BY <1>0, <1>2, <2>1, <2>2 DEF HeldIsOwn, TypeOK, Sessions
  <2>6. CachedIsOwn'
    BY <1>0, <1>2 DEF CachedIsOwn, Sessions
  <2>7. ConnectionsAccounted'
    BY <1>0, <1>2, <2>1 DEF ConnectionsAccounted, TypeOK, Sessions
  <2> QED BY <2>3, <2>4, <2>5, <2>6, <2>7 DEF IInv
<1> QED BY <1>3, <1>4

LEMMA ListToolsKeeps ==
  ASSUME IInv, NEW c \in Calls, ListTools(c)
  PROVE  IInv'
<1>0. TypeOK /\ CallsHaveArguments /\ HeldIsOwn /\ CachedIsOwn /\ ConnectionsAccounted
  BY DEF IInv
<1>1. /\ pc[c] = "list" /\ pc' = [pc EXCEPT ![c] = "lookup"]
      /\ listed' = [listed EXCEPT ![c] = TRUE]
      /\ <<req[c].server, req[c].tool>> \in Grants[req[c].user]
      /\ UNCHANGED <<conns, dialled, allowed, req, sess>>
  BY DEF ListTools, Goto, Can
<1>2. listed' \in [Calls -> BOOLEAN]
  BY <1>0, <1>1 DEF TypeOK
<1>3. TypeOK'
  BY <1>0, <1>1, <1>2 DEF TypeOK, Labels
<1>4. CallsHaveArguments'
  BY <1>0, <1>1 DEF CallsHaveArguments, TypeOK
<1>5. HeldIsOwn'
  BY <1>0, <1>1 DEF HeldIsOwn, TypeOK, Sessions
<1>6. CachedIsOwn'
  BY <1>0, <1>1 DEF CachedIsOwn, Sessions
<1>7. ConnectionsAccounted'
  BY <1>0, <1>1 DEF ConnectionsAccounted, TypeOK, Sessions
<1> QED BY <1>3, <1>4, <1>5, <1>6, <1>7 DEF IInv

LEMMA EndsKeeps ==
  ASSUME IInv, NEW c \in Calls, Ends(c)
  PROVE  IInv'
<1>0. TypeOK /\ CallsHaveArguments /\ HeldIsOwn /\ CachedIsOwn /\ ConnectionsAccounted
  BY DEF IInv
<1>1. /\ pc[c] \in {"dial", "list", "rpc"} /\ pc' = [pc EXCEPT ![c] = "idle"]
      /\ req' = [req EXCEPT ![c] = NoRequest]
      /\ sess' = [sess EXCEPT ![c] = NoSession]
      /\ listed' = [listed EXCEPT ![c] = FALSE]
      /\ UNCHANGED <<conns, dialled, allowed>>
  BY DEF Ends, Return, Goto
<1>2. listed' \in [Calls -> BOOLEAN]
  BY <1>0, <1>1 DEF TypeOK
<1>3. TypeOK'
  BY <1>0, <1>1, <1>2 DEF TypeOK, Labels
<1>4. CallsHaveArguments'
  BY <1>0, <1>1 DEF CallsHaveArguments, TypeOK
<1>5. HeldIsOwn'
  BY <1>0, <1>1 DEF HeldIsOwn, TypeOK, Sessions
<1>6. CachedIsOwn'
  BY <1>0, <1>1 DEF CachedIsOwn, Sessions
<1>7. ConnectionsAccounted'
  BY <1>0, <1>1 DEF ConnectionsAccounted, TypeOK, Sessions
<1> QED BY <1>3, <1>4, <1>5, <1>6, <1>7 DEF IInv

LEMMA PatternsKeep ==
  ASSUME IInv, SetOrgPatterns
  PROVE  IInv'
BY DEF IInv, TypeOK, CallsHaveArguments, HeldIsOwn, CachedIsOwn, ConnectionsAccounted,
       SetOrgPatterns, Sessions

-----------------------------------------------------------------------------
(* The steps that dial and close connections. *)

LEMMA DialKeeps ==
  ASSUME IInv, NEW c \in Calls, Dial(c)
  PROVE  IInv'
<1>0. TypeOK /\ CallsHaveArguments /\ HeldIsOwn /\ CachedIsOwn /\ ConnectionsAccounted
  BY DEF IInv
<1> DEFINE new == [user |-> req[c].user, server |-> req[c].server, open |-> TRUE]
<1>1. /\ pc[c] = "dial" /\ pc' = [pc EXCEPT ![c] = "store"]
      /\ Len(dialled) < MaxDials
      /\ dialled' = Append(dialled, new)
      /\ sess' = [sess EXCEPT ![c] = Len(dialled) + 1]
      /\ UNCHANGED <<conns, allowed, req, listed>>
  BY DEF Dial, Goto
<1>2. req[c] \in Requests
  BY <1>0, <1>1 DEF CallsHaveArguments
<1>3. new \in Conn
  BY <1>2 DEF Requests, Conn
<1>4. dialled \in Seq(Conn) /\ Len(dialled) \in Nat
  BY <1>0 DEF TypeOK, Conn
<1>5. /\ dialled' \in Seq(Conn)
      /\ Len(dialled') = Len(dialled) + 1
      /\ \A s \in 1..Len(dialled) : dialled'[s] = dialled[s]
      /\ dialled'[Len(dialled) + 1] = new
  <2> HIDE DEF new
  <2> QED BY <1>1, <1>3, <1>4, AppendProperties
<1>6. Sessions' = Sessions \cup {Len(dialled) + 1} /\ Len(dialled) + 1 \notin Sessions
  BY <1>4, <1>5 DEF Sessions
<1>7. \A s \in Sessions : dialled'[s] = dialled[s]
  BY <1>5 DEF Sessions
<1>8. new.user = req[c].user /\ new.server = req[c].server
  OBVIOUS
<1> HIDE DEF new
<1>9. TypeOK'
  <2>1. Len(dialled) + 1 \in 1..MaxDials
    BY <1>1, <1>4, McpProxyAssumption
  <2>2. Len(dialled') <= MaxDials
    BY <1>5, <2>1
  <2> QED BY <1>0, <1>1, <1>5, <2>1, <2>2 DEF TypeOK, Labels, Conn
<1>10. CallsHaveArguments'
  BY <1>0, <1>1 DEF CallsHaveArguments, TypeOK
<1>11. HeldIsOwn'
  <2> SUFFICES ASSUME NEW d \in Calls, pc'[d] \in {"store", "list", "rpc"}
               PROVE  /\ sess'[d] \in Sessions'
                      /\ dialled'[sess'[d]].user = req'[d].user
                      /\ dialled'[sess'[d]].server = req'[d].server
    BY DEF HeldIsOwn
  <2>1. CASE d = c
    BY <1>0, <1>1, <1>5, <1>6, <1>8, <2>1 DEF TypeOK
  <2>2. CASE d # c
    BY <1>0, <1>1, <1>6, <1>7, <2>2 DEF HeldIsOwn, TypeOK
  <2> QED BY <2>1, <2>2
<1>12. CachedIsOwn'
  BY <1>0, <1>1, <1>6, <1>7 DEF CachedIsOwn
<1>13. ConnectionsAccounted'
  <2> SUFFICES ASSUME NEW s \in Sessions', dialled'[s].open
               PROVE  \/ conns'[<<dialled'[s].user, dialled'[s].server>>] = s
                      \/ \E d \in Calls : pc'[d] = "store" /\ sess'[d] = s
    BY DEF ConnectionsAccounted
  <2>1. CASE s \in Sessions
    BY <1>0, <1>1, <1>7, <2>1 DEF ConnectionsAccounted, TypeOK
  <2>2. CASE s = Len(dialled) + 1
    BY <1>0, <1>1, <2>2 DEF TypeOK
  <2> QED BY <1>6, <2>1, <2>2
<1> QED BY <1>9, <1>10, <1>11, <1>12, <1>13 DEF IInv

(* Closing a connection keeps its owner. *)
LEMMA CloseKeepsOwner ==
  ASSUME TypeOK, NEW s \in Sessions, dialled' = Close(s)
  PROVE  /\ dialled' \in Seq(Conn)
         /\ Len(dialled') = Len(dialled)
         /\ Sessions' = Sessions
         /\ ~dialled'[s].open
         /\ \A t \in Sessions : /\ dialled'[t].user = dialled[t].user
                                /\ dialled'[t].server = dialled[t].server
                                /\ t # s => dialled'[t] = dialled[t]
<1> DEFINE closed == [dialled[s] EXCEPT !.open = FALSE]
<1>1. dialled \in Seq(Conn) /\ s \in 1..Len(dialled)
  BY DEF TypeOK, Conn, Sessions
<1>2. dialled[s] \in Conn
  BY <1>1, ElementOfSeq
<1>3. /\ closed \in Conn /\ ~closed.open
      /\ closed.user = dialled[s].user /\ closed.server = dialled[s].server
  BY <1>2 DEF Conn
<1>4. dialled' = [dialled EXCEPT ![s] = closed]
  BY DEF Close
<1> HIDE DEF closed
<1>5. /\ dialled' \in Seq(Conn)
      /\ Len(dialled') = Len(dialled)
      /\ \A t \in 1..Len(dialled) : dialled'[t] = IF t = s THEN closed ELSE dialled[t]
  BY <1>1, <1>3, <1>4, ExceptSeq
<1> QED BY <1>1, <1>3, <1>5 DEF Sessions

LEMMA StoreKeeps ==
  ASSUME IInv, NEW c \in Calls, Store(c)
  PROVE  IInv'
<1>0. TypeOK /\ CallsHaveArguments /\ HeldIsOwn /\ CachedIsOwn /\ ConnectionsAccounted
  BY DEF IInv
<1>1. req[c] \in Requests /\ connKey(c) \in ConnKeys
  BY <1>0 DEF Store, CallsHaveArguments, connKey, ConnKeys, Requests
<1>2. /\ pc[c] = "store" /\ UNCHANGED <<allowed, req, listed>>
      /\ pc' = [pc EXCEPT ![c] = IF listed[c] THEN "rpc" ELSE "list"]
  BY DEF Store, Goto
<1>3. /\ sess[c] \in Sessions
      /\ dialled[sess[c]].user = req[c].user
      /\ dialled[sess[c]].server = req[c].server
  BY <1>0, <1>2 DEF HeldIsOwn
<1>4. CallsHaveArguments'
  BY <1>0, <1>1, <1>2 DEF CallsHaveArguments, TypeOK
<1>5. CASE conns[connKey(c)] # NoSession
  <2>1. /\ dialled' = Close(sess[c])
        /\ sess' = [sess EXCEPT ![c] = conns[connKey(c)]]
        /\ conns' = conns
    BY <1>5 DEF Store
  <2>2. /\ conns[connKey(c)] \in Sessions
        /\ dialled[conns[connKey(c)]].user = req[c].user
        /\ dialled[conns[connKey(c)]].server = req[c].server
    BY <1>0, <1>1, <1>5 DEF CachedIsOwn, connKey
  <2>3. /\ dialled' \in Seq(Conn)
        /\ Len(dialled') = Len(dialled)
        /\ Sessions' = Sessions
        /\ ~dialled'[sess[c]].open
        /\ \A t \in Sessions : /\ dialled'[t].user = dialled[t].user
                               /\ dialled'[t].server = dialled[t].server
                               /\ t # sess[c] => dialled'[t] = dialled[t]
    BY <1>0, <1>3, <2>1, CloseKeepsOwner
  <2>4. TypeOK'
    <3>1. conns[connKey(c)] \in 1..MaxDials \cup {NoSession}
      BY <1>0, <1>1 DEF TypeOK
    <3> QED BY <1>0, <1>2, <2>1, <2>3, <3>1 DEF TypeOK, Labels, Conn
  <2>5. HeldIsOwn'
    <3> SUFFICES ASSUME NEW d \in Calls, pc'[d] \in {"store", "list", "rpc"}
                 PROVE  /\ sess'[d] \in Sessions'
                        /\ dialled'[sess'[d]].user = req'[d].user
                        /\ dialled'[sess'[d]].server = req'[d].server
      BY DEF HeldIsOwn
    <3>1. CASE d = c
      BY <1>0, <1>2, <2>1, <2>2, <2>3, <3>1 DEF TypeOK
    <3>2. CASE d # c
      BY <1>0, <1>2, <2>1, <2>3, <3>2 DEF HeldIsOwn, TypeOK
    <3> QED BY <3>1, <3>2
  <2>6. CachedIsOwn'
    BY <1>0, <2>1, <2>3 DEF CachedIsOwn
  <2>7. ConnectionsAccounted'
    <3> SUFFICES ASSUME NEW s \in Sessions, dialled'[s].open
                 PROVE  \/ conns'[<<dialled'[s].user, dialled'[s].server>>] = s
                        \/ \E d \in Calls : pc'[d] = "store" /\ sess'[d] = s
      BY <2>3 DEF ConnectionsAccounted
    <3>1. s # sess[c] /\ dialled'[s] = dialled[s]
      BY <2>3
    <3>2. CASE conns[<<dialled[s].user, dialled[s].server>>] = s
      BY <2>1, <3>1, <3>2
    <3>3. CASE \E d \in Calls : pc[d] = "store" /\ sess[d] = s
      <4>1. PICK d \in Calls : pc[d] = "store" /\ sess[d] = s
        BY <3>3
      <4>2. d # c
        BY <3>1, <4>1
      <4>3. pc'[d] = "store" /\ sess'[d] = s
        BY <1>0, <1>2, <2>1, <4>1, <4>2 DEF TypeOK
      <4> QED BY <4>3
    <3> QED BY <1>0, <3>1, <3>2, <3>3 DEF ConnectionsAccounted
  <2> QED BY <1>4, <2>4, <2>5, <2>6, <2>7 DEF IInv
<1>6. CASE conns[connKey(c)] = NoSession
  <2>1. /\ conns' = [conns EXCEPT ![connKey(c)] = sess[c]]
        /\ dialled' = dialled /\ sess' = sess
    BY <1>6 DEF Store
  <2>2. Sessions' = Sessions
    BY <2>1 DEF Sessions
  <2>3. TypeOK'
    BY <1>0, <1>1, <1>2, <2>1 DEF TypeOK, Labels
  <2>4. HeldIsOwn'
    BY <1>0, <1>2, <2>1, <2>2 DEF HeldIsOwn, TypeOK
  <2>5. conns'[connKey(c)] = sess[c] /\ \A k \in ConnKeys : k # connKey(c) => conns'[k] = conns[k]
    BY <1>0, <1>1, <2>1 DEF TypeOK
  <2>6. CachedIsOwn'
    <3> SUFFICES ASSUME NEW k \in ConnKeys, conns'[k] # NoSession
                 PROVE  /\ conns'[k] \in Sessions
                        /\ dialled[conns'[k]].user = k[1]
                        /\ dialled[conns'[k]].server = k[2]
      BY <2>1, <2>2 DEF CachedIsOwn
    <3>1. CASE k = connKey(c)
      BY <1>3, <2>5, <3>1 DEF connKey
    <3>2. CASE k # connKey(c)
      BY <1>0, <2>5, <3>2 DEF CachedIsOwn
    <3> QED BY <3>1, <3>2
  <2>7. ConnectionsAccounted'
    <3> SUFFICES ASSUME NEW s \in Sessions, dialled[s].open
                 PROVE  \/ conns'[<<dialled[s].user, dialled[s].server>>] = s
                        \/ \E d \in Calls : pc'[d] = "store" /\ sess'[d] = s
      BY <2>1, <2>2 DEF ConnectionsAccounted
    <3>1. <<dialled[s].user, dialled[s].server>> \in ConnKeys
      <4>1. dialled[s] \in Conn
        BY <1>0, ElementOfSeq DEF TypeOK, Sessions, Conn
      <4> QED BY <4>1 DEF Conn, ConnKeys
    <3>2. s \in 1..MaxDials
      <4>1. dialled \in Seq(Conn) /\ Len(dialled) <= MaxDials /\ s \in 1..Len(dialled)
        BY <1>0 DEF TypeOK, Sessions, Conn
      <4>2. Len(dialled) \in Nat
        BY <4>1
      <4> QED BY <4>1, <4>2, McpProxyAssumption
    <3>3. CASE s = sess[c]
      BY <1>3, <2>5, <3>3 DEF connKey
    <3>4. CASE s # sess[c] /\ conns[<<dialled[s].user, dialled[s].server>>] = s
      <4>1. <<dialled[s].user, dialled[s].server>> # connKey(c)
        BY <1>6, <3>2, <3>4, McpProxyAssumption
      <4> QED BY <2>5, <3>1, <3>4, <4>1
    <3>5. CASE s # sess[c] /\ \E d \in Calls : pc[d] = "store" /\ sess[d] = s
      <4>1. PICK d \in Calls : pc[d] = "store" /\ sess[d] = s
        BY <3>5
      <4>2. pc'[d] = "store" /\ sess'[d] = s
        BY <1>0, <1>2, <2>1, <3>5, <4>1 DEF TypeOK
      <4> QED BY <4>2
    <3> QED BY <1>0, <3>3, <3>4, <3>5 DEF ConnectionsAccounted
  <2> QED BY <1>4, <2>3, <2>4, <2>6, <2>7 DEF IInv
<1> QED BY <1>5, <1>6

LEMMA CloseAllKeeps ==
  ASSUME IInv, CloseAll
  PROVE  IInv'
<1>0. TypeOK /\ CallsHaveArguments /\ HeldIsOwn /\ CachedIsOwn /\ ConnectionsAccounted
  BY DEF IInv
<1> DEFINE cached(s) == \E k \in ConnKeys : conns[k] = s
           after(s) == IF cached(s) THEN [dialled[s] EXCEPT !.open = FALSE] ELSE dialled[s]
<1>1. /\ dialled' = [s \in Sessions |-> after(s)]
      /\ conns' = [k \in ConnKeys |-> NoSession]
      /\ UNCHANGED <<allowed, pc, req, sess, listed>>
  BY DEF CloseAll
<1>2. dialled \in Seq(Conn) /\ Len(dialled) \in Nat /\ Sessions = 1..Len(dialled)
  BY <1>0 DEF TypeOK, Conn, Sessions
<1>3. ASSUME NEW s \in Sessions
      PROVE  /\ after(s) \in Conn
             /\ after(s).user = dialled[s].user /\ after(s).server = dialled[s].server
             /\ after(s).open => dialled[s].open /\ ~cached(s)
  <2>1. dialled[s] \in Conn
    BY <1>2, ElementOfSeq
  <2> HIDE DEF cached
  <2> QED BY <2>1 DEF Conn
<1>4. dialled' \in Seq(Conn) /\ Len(dialled') = Len(dialled)
  <2> HIDE DEF after
  <2> QED BY <1>1, <1>2, <1>3
<1>5. Sessions' = Sessions
  BY <1>4 DEF Sessions
<1>6. \A s \in Sessions :
        /\ dialled'[s].user = dialled[s].user /\ dialled'[s].server = dialled[s].server
        /\ dialled'[s].open => dialled[s].open /\ ~cached(s)
  <2> HIDE DEF after, cached
  <2> QED BY <1>1, <1>3
<1>7. TypeOK'
  BY <1>0, <1>1, <1>4 DEF TypeOK, Conn
<1>8. CallsHaveArguments'
  BY <1>0, <1>1 DEF CallsHaveArguments
<1>9. HeldIsOwn'
  BY <1>0, <1>1, <1>5, <1>6 DEF HeldIsOwn
<1>10. CachedIsOwn'
  BY <1>1 DEF CachedIsOwn
<1>11. ConnectionsAccounted'
  <2> SUFFICES ASSUME NEW s \in Sessions, dialled'[s].open
               PROVE  \E d \in Calls : pc'[d] = "store" /\ sess'[d] = s
    BY <1>5 DEF ConnectionsAccounted
  <2>1. dialled[s].open /\ ~cached(s)
    BY <1>6
  <2>2. <<dialled[s].user, dialled[s].server>> \in ConnKeys
    <3>1. dialled[s] \in Conn
      BY <1>2, ElementOfSeq
    <3> QED BY <3>1 DEF Conn, ConnKeys
  <2>3. conns[<<dialled[s].user, dialled[s].server>>] # s
    BY <2>1, <2>2
  <2> QED BY <1>0, <1>1, <2>1, <2>3 DEF ConnectionsAccounted
<1> QED BY <1>7, <1>8, <1>9, <1>10, <1>11 DEF IInv

-----------------------------------------------------------------------------

LEMMA InvStep == IInv /\ [Next]_vars => IInv'
<1> SUFFICES ASSUME IInv, [Next]_vars PROVE IInv'
  OBVIOUS
<1>1. CASE Next
  BY <1>1, StartKeeps, LookupKeeps, DialKeeps, StoreKeeps, ListToolsKeeps, EndsKeeps,
     CloseAllKeeps, PatternsKeep DEF Next
<1>2. CASE UNCHANGED vars
  BY <1>2 DEF IInv, TypeOK, CallsHaveArguments, HeldIsOwn, CachedIsOwn,
              ConnectionsAccounted, Sessions, vars
<1> QED BY <1>1, <1>2

LEMMA Invariance == Spec => []IInv
BY InvInit, InvStep, PTL DEF Spec

-----------------------------------------------------------------------------
(* Theorems. *)

(* However many calls dial at the same time as CloseAll runs (proxy.go     *)
(* sessionFor, CloseAll), an open connection is cached under its own user  *)
(* and server or about to be cached: CloseAll misses only dials in flight. *)
THEOREM NothingLeaks == Spec => []ConnectionsAccounted
<1>1. IInv => ConnectionsAccounted
  BY DEF IInv
<1> QED BY <1>1, Invariance, PTL

(* No call lists or calls over a connection of another user or server, or  *)
(* calls a tool it has no scope for (proxy.go ExposedTools, Call).         *)
THEOREM UsersStayApart == Spec => []CallsStayWithUser
<1>1. IInv => CallsStayWithUser
  BY DEF IInv, HeldIsOwn, CallsHaveArguments, CallsStayWithUser
<1> QED BY <1>1, Invariance, PTL

-----------------------------------------------------------------------------
(* The warm pool.  Its inductive invariant, in named parts. *)

(* A pod is in one place: the pool, once, or one caller's hands. *)
Apart ==
  /\ \A i, j \in DOMAIN pool : pool[i].pod = pool[j].pod => i = j
  /\ \A i \in DOMAIN pool :
       /\ \A a \in Acquirers : apod[a] # pool[i].pod
       /\ \A r \in Replenishers : rpod[r] # pool[i].pod
       /\ \A k \in DOMAIN doomed : doomed[k] # pool[i].pod
  /\ \A a \in Acquirers : apod[a] # None =>
       /\ \A b \in Acquirers : apod[b] = apod[a] => b = a
       /\ \A r \in Replenishers : rpod[r] # apod[a]
       /\ \A k \in DOMAIN doomed : doomed[k] # apod[a]
  /\ \A r \in Replenishers : rpod[r] # None =>
       /\ \A s \in Replenishers : rpod[s] = rpod[r] => s = r
       /\ \A k \in DOMAIN doomed : doomed[k] # rpod[r]

(* Whatever is in one of these places was forked, and nobody has promoted  *)
(* or destroyed what is pooled or about to be.                             *)
PodsExist ==
  /\ \A i \in DOMAIN pool : pods[pool[i].pod] = "forked"
  /\ \A r \in Replenishers : rpod[r] # None => pods[rpod[r]] = "forked"
  /\ \A a \in Acquirers : apod[a] # None => pods[apod[a]] # "none"
  /\ \A k \in DOMAIN doomed : pods[doomed[k]] # "none"

(* Replenish appends a pod it has forked, and owes pods until it is done. *)
ReplenishesOwe ==
  \A r \in Replenishers :
    /\ rpc[r] = "append" => rpod[r] # None
    /\ rpc[r] # "append" => rpod[r] = None
    /\ rpc[r] = "idle" => left[r] = 0
    /\ rpc[r] # "idle" => left[r] > 0

(* An Acquire holds a pod to promote; one that succeeded has promoted it. *)
AcquiresHold ==
  \A a \in Acquirers :
    /\ apc[a] = "promote" => apod[a] # None
    /\ apc[a] = "ok" => apod[a] # None /\ pods[apod[a]] = "promoted" /\ owner[apod[a]] = a

(* A place for each pod that each Replenish may add, taken while it is     *)
(* owed: the pool and what is owed fit into all places.                    *)
Places == Replenishers \X (1..MaxPerKey)
Owed == {x \in Places : x[2] <= left[x[1]]}
OwedFits == Len(pool) + Cardinality(Owed) <= Cardinality(Places)

PodInv ==
  Apart /\ PodsExist /\ ReplenishesOwe /\ AcquiresHold

PoolInv == PoolTypeOK /\ PodInv /\ OwedFits

-----------------------------------------------------------------------------
(* The places. *)

LEMMA PlacesFinite ==
  /\ IsFiniteSet(Places)
  /\ Cardinality(Places) = MaxPerKey * Cardinality(Replenishers)
  /\ Cardinality(Places) \in Nat
<1>1. MaxPerKey \in Nat /\ IsFiniteSet(Replenishers)
  BY WarmPoolAssumption
<1>2. IsFiniteSet(1..MaxPerKey) /\ Cardinality(1..MaxPerKey) = MaxPerKey
  BY <1>1, FS_Interval
<1>3. /\ IsFiniteSet(Places)
      /\ Cardinality(Places) = Cardinality(Replenishers) * Cardinality(1..MaxPerKey)
  BY <1>1, <1>2, FS_Product DEF Places
<1>4. Cardinality(Replenishers) \in Nat /\ Cardinality(Places) \in Nat
  BY <1>1, <1>3, FS_CardinalityType
<1> QED BY <1>1, <1>2, <1>3, <1>4

(* A step that grows neither the pool nor what is owed. *)
LEMMA OwedShrinks ==
  ASSUME OwedFits, Len(pool) \in Nat, Len(pool') \in Nat, Len(pool') <= Len(pool),
         Owed' \subseteq Owed
  PROVE  OwedFits'
<1>1. IsFiniteSet(Owed)
  BY PlacesFinite, FS_Subset DEF Owed
<1>2. Cardinality(Owed') <= Cardinality(Owed) /\ IsFiniteSet(Owed')
  BY <1>1, FS_Subset
<1>3. Cardinality(Owed) \in Nat /\ Cardinality(Owed') \in Nat
  BY <1>1, <1>2, FS_CardinalityType
<1>4. Places' = Places
  BY DEF Places
<1> QED BY <1>2, <1>3, <1>4, PlacesFinite DEF OwedFits

(* A call that starts owes at most MaxPerKey less what is pooled: the      *)
(* others' places are not its own.                                         *)
LEMMA OwedStarts ==
  ASSUME NEW r \in Replenishers, left \in [Replenishers -> 0..MaxPerKey],
         Len(pool) \in Nat, NEW n \in 0..MaxPerKey, Len(pool) + n <= MaxPerKey,
         left' = [left EXCEPT ![r] = n], pool' = pool
  PROVE  OwedFits'
<1> DEFINE mine == {r} \X (1..MaxPerKey)
           others == (Replenishers \ {r}) \X (1..MaxPerKey)
           due == {x \in mine : x[2] <= n}
<1>1. MaxPerKey \in Nat /\ IsFiniteSet(Replenishers) /\ Places' = Places
  BY WarmPoolAssumption DEF Places
<1>2. IsFiniteSet(1..MaxPerKey) /\ Cardinality(1..MaxPerKey) = MaxPerKey
  BY <1>1, FS_Interval
<1>3. IsFiniteSet(mine) /\ Cardinality(mine) = MaxPerKey
  <2>1. IsFiniteSet({r}) /\ Cardinality({r}) = 1
    BY FS_Singleton
  <2>2. IsFiniteSet(mine) /\ Cardinality(mine) = 1 * MaxPerKey
    BY <1>2, <2>1, FS_Product, ZenonT(30)
  <2> QED BY <1>1, <2>2
<1>4. IsFiniteSet(others) /\ Cardinality(others) \in Nat
  <2>1. IsFiniteSet(Replenishers \ {r})
    BY <1>1, FS_RemoveElement
  <2> QED BY <1>2, <2>1, FS_Product, FS_CardinalityType
<1>5. Places = mine \cup others /\ mine \cap others = {}
  BY DEF Places
<1> HIDE DEF mine, others
<1>6. Cardinality(Places) = MaxPerKey + Cardinality(others)
  <2>1. Cardinality(mine \cup others) =
          Cardinality(mine) + Cardinality(others) - Cardinality(mine \cap others)
    BY <1>3, <1>4, FS_Union
  <2>2. Cardinality(mine \cap others) = 0
    BY <1>5, FS_EmptySet
  <2>3. Cardinality(Places) = Cardinality(mine \cup others)
    BY <1>5
  <2> QED BY <1>1, <1>3, <1>4, <2>1, <2>2, <2>3
<1>7. IsFiniteSet(due) /\ Cardinality(due) = n
  <2>1. due = {r} \X (1..n)
    BY <1>1 DEF mine
  <2>2. IsFiniteSet(1..n) /\ Cardinality(1..n) = n
    BY FS_Interval
  <2>3. IsFiniteSet({r}) /\ Cardinality({r}) = 1
    BY FS_Singleton
  <2>4. IsFiniteSet({r} \X (1..n)) /\ Cardinality({r} \X (1..n)) = 1 * n
    BY <2>2, <2>3, FS_Product, ZenonT(30)
  <2>5. 1 * n = n
    BY <1>1
  <2> QED BY <2>1, <2>4, <2>5
<1>8. Owed' \subseteq due \cup others
  BY <1>1, <1>5 DEF Owed, mine, others, Places
<1> HIDE DEF due
<1>9. /\ IsFiniteSet(due \cup others)
      /\ Cardinality(due \cup others) <= n + Cardinality(others)
  <2>1. Cardinality(due \cap others) \in Nat
    BY <1>7, FS_Intersection, FS_CardinalityType
  <2>2. /\ IsFiniteSet(due \cup others)
        /\ Cardinality(due \cup others) =
             Cardinality(due) + Cardinality(others) - Cardinality(due \cap others)
    BY <1>4, <1>7, FS_Union
  <2> QED BY <1>4, <1>7, <2>1, <2>2
<1>10. IsFiniteSet(Owed') /\ Cardinality(Owed') <= Cardinality(due \cup others)
  BY <1>8, <1>9, FS_Subset
<1>11. Cardinality(Owed') \in Nat /\ Cardinality(due \cup others) \in Nat
  BY <1>9, <1>10, FS_CardinalityType
<1> QED BY <1>1, <1>4, <1>6, <1>9, <1>10, <1>11 DEF OwedFits

(* A pod that is appended was owed. *)
LEMMA OwedIsPaid ==
  ASSUME OwedFits, NEW r \in Replenishers, left \in [Replenishers -> 0..MaxPerKey],
         left[r] > 0, left' = [left EXCEPT ![r] = @ - 1],
         Len(pool) \in Nat, Len(pool') = Len(pool) + 1
  PROVE  OwedFits'
<1> DEFINE place == <<r, left[r]>>
<1>1. MaxPerKey \in Nat /\ Places' = Places
  BY WarmPoolAssumption DEF Places
<1>2. place \in Owed
  BY <1>1 DEF Owed, Places
<1>3. Owed' = Owed \ {place}
  <2>1. ASSUME NEW x \in Places
        PROVE  x \in Owed' <=> x \in Owed /\ x # place
    <3>1. PICK s \in Replenishers, i \in 1..MaxPerKey : x = <<s, i>>
      BY DEF Places
    <3>2. x \in Owed' <=> i <= left'[s]
      BY <1>1, <3>1 DEF Owed
    <3>3. x \in Owed <=> i <= left[s]
      BY <3>1 DEF Owed
    <3>4. CASE s = r
      <4>1. left'[s] = left[r] - 1
        BY <3>4
      <4>2. i <= left[r] - 1 <=> i <= left[r] /\ i # left[r]
        BY <1>1
      <4> QED BY <3>1, <3>2, <3>3, <3>4, <4>1, <4>2
    <3>5. CASE s # r
      BY <3>1, <3>2, <3>3, <3>5
    <3> QED BY <3>4, <3>5
  <2> QED BY <1>1, <2>1 DEF Owed
<1>4. IsFiniteSet(Owed) /\ Cardinality(Owed) \in Nat
  BY PlacesFinite, FS_Subset, FS_CardinalityType DEF Owed
<1> HIDE DEF place
<1>5. Cardinality(Owed') = Cardinality(Owed) - 1
  BY <1>2, <1>3, <1>4, FS_RemoveElement
<1> QED BY <1>1, <1>4, <1>5, PlacesFinite DEF OwedFits

-----------------------------------------------------------------------------
(* Acquire. *)

LEMMA PodsTyped ==
  ASSUME PoolTypeOK
  PROVE  /\ \A i \in DOMAIN pool : pool[i] \in Pooled /\ pool[i].pod \in Pods
         /\ \A k \in DOMAIN doomed : doomed[k] \in Pods
         /\ \A r \in Replenishers : rpod[r] \in Pods \cup {None}
         /\ \A a \in Acquirers : apod[a] \in Pods \cup {None}
<1>1. pool \in Seq(Pooled) /\ doomed \in Seq(Pods)
  BY DEF PoolTypeOK
<1>2. \A i \in DOMAIN pool : pool[i] \in Pooled
  BY <1>1
<1>3. \A i \in DOMAIN pool : pool[i].pod \in Pods
  BY <1>2 DEF Pooled
<1>4. \A k \in DOMAIN doomed : doomed[k] \in Pods
  BY <1>1
<1> QED BY <1>2, <1>3, <1>4 DEF PoolTypeOK

LEMMA TickKeepsPool ==
  ASSUME PoolInv, now' \in 0..MaxTime,
         UNCHANGED <<pool, pods, owner, acquireVars, replenishVars, doomed>>
  PROVE  PoolInv'
<1>1. PoolTypeOK' /\ Owed' = Owed
  BY DEF PoolInv, PoolTypeOK, acquireVars, replenishVars, Owed, Places
<1>2. PodInv'
  BY DEF PoolInv, PodInv, Apart, PodsExist, ReplenishesOwe, AcquiresHold, acquireVars, replenishVars
<1>3. OwedFits'
  BY <1>1 DEF PoolInv, OwedFits, Places
<1> QED BY <1>1, <1>2, <1>3 DEF PoolInv

LEMMA AcquireWarmKeeps ==
  ASSUME PoolInv, NEW c \in Acquirers, AcquireWarm(c)
  PROVE  PoolInv'
<1>1. /\ pool \in Seq(Pooled) /\ pool # <<>> /\ apod \in [Acquirers -> Pods \cup {None}]
      /\ apc \in [Acquirers -> {"idle", "fork", "promote", "ok", "error"}]
      /\ pods \in [Pods -> {"none", "forked", "promoted", "destroyed"}]
      /\ PoolTypeOK
  BY DEF PoolInv, PoolTypeOK, AcquireWarm
<1>2. /\ apod' = [apod EXCEPT ![c] = pool[1].pod] /\ pool' = Tail(pool)
      /\ apc' = [apc EXCEPT ![c] = "promote"] /\ apc[c] = "idle"
      /\ UNCHANGED <<now, pods, owner, rpc, left, rpod, doomed>>
  <2>1. Head(pool) = pool[1]
    BY <1>1
  <2> QED BY <2>1 DEF AcquireWarm, replenishVars
<1>3. /\ 1 \in DOMAIN pool /\ Len(pool) \in Nat /\ Len(pool') = Len(pool) - 1
      /\ pool' \in Seq(Pooled) /\ DOMAIN pool' = 1..(Len(pool) - 1)
      /\ DOMAIN pool = 1..Len(pool)
  BY <1>1, <1>2
<1>4. \A i \in DOMAIN pool' : i + 1 \in DOMAIN pool /\ pool'[i] = pool[i + 1]
  BY <1>1, <1>2, <1>3
<1>5. pool[1].pod \in Pods /\ \A i \in DOMAIN pool : pool[i].pod \in Pods
  BY <1>1, <1>3, PodsTyped
<1>6. /\ apod'[c] = pool[1].pod /\ apc'[c] = "promote"
      /\ \A b \in Acquirers : b # c => apod'[b] = apod[b] /\ apc'[b] = apc[b]
  BY <1>1, <1>2
<1>7. PoolTypeOK'
  BY <1>1, <1>2, <1>3, <1>5 DEF PoolTypeOK
<1>8. Apart'
  <2>1. \A i, j \in DOMAIN pool' : pool'[i].pod = pool'[j].pod => i = j
    BY <1>3, <1>4 DEF PoolInv, PodInv, Apart
  <2>2. \A i \in DOMAIN pool' : pool'[i].pod # pool[1].pod
    BY <1>3, <1>4 DEF PoolInv, PodInv, Apart
  <2>3. ASSUME NEW i \in DOMAIN pool'
        PROVE  /\ \A a \in Acquirers : apod'[a] # pool'[i].pod
               /\ \A r \in Replenishers : rpod[r] # pool'[i].pod
               /\ \A k \in DOMAIN doomed : doomed[k] # pool'[i].pod
    BY <1>4, <1>6, <2>2 DEF PoolInv, PodInv, Apart
  <2>4. ASSUME NEW a \in Acquirers, apod'[a] # None
        PROVE  /\ \A b \in Acquirers : apod'[b] = apod'[a] => b = a
               /\ \A r \in Replenishers : rpod[r] # apod'[a]
               /\ \A k \in DOMAIN doomed : doomed[k] # apod'[a]
    <3>1. CASE a = c
      BY <1>3, <1>6, <3>1 DEF PoolInv, PodInv, Apart
    <3>2. CASE a # c
      BY <1>3, <1>6, <2>4, <3>2 DEF PoolInv, PodInv, Apart
    <3> QED BY <3>1, <3>2
  <2> QED BY <1>2, <2>1, <2>3, <2>4 DEF PoolInv, PodInv, Apart
<1>9. PodsExist'
  BY <1>2, <1>3, <1>4, <1>6 DEF PoolInv, PodInv, PodsExist
<1>10. ReplenishesOwe' /\ AcquiresHold'
  BY <1>2, <1>5, <1>6, WarmPoolAssumption DEF PoolInv, PodInv, ReplenishesOwe, AcquiresHold
<1>11. Owed' = Owed
  BY <1>2 DEF Owed, Places
<1>12. OwedFits'
  BY <1>3, <1>11, OwedShrinks DEF PoolInv
<1> QED BY <1>7, <1>8, <1>9, <1>10, <1>12 DEF PoolInv, PodInv

LEMMA AcquireMissKeeps ==
  ASSUME PoolInv, NEW c \in Acquirers, AcquireMiss(c)
  PROVE  PoolInv'
<1>1. /\ PoolTypeOK /\ PodInv /\ apc' = [apc EXCEPT ![c] = "fork"]
      /\ UNCHANGED <<now, pool, pods, owner, apod, rpc, left, rpod, doomed>>
  BY DEF PoolInv, AcquireMiss, replenishVars
<1>2. PoolTypeOK' /\ Owed' = Owed
  BY <1>1 DEF PoolTypeOK, Owed, Places
<1>3. PodInv'
  BY <1>1 DEF PoolTypeOK, PodInv, Apart, PodsExist, ReplenishesOwe, AcquiresHold
<1>4. OwedFits'
  BY <1>1, <1>2 DEF PoolInv, OwedFits, Places
<1> QED BY <1>2, <1>3, <1>4 DEF PoolInv

(* A pod that is forked is in none of the places yet. *)
LEMMA ForkedIsNew ==
  ASSUME PoolTypeOK, PodInv, NEW p \in Pods, pods[p] = "none"
  PROVE  /\ \A i \in DOMAIN pool : pool[i].pod # p
         /\ \A a \in Acquirers : apod[a] # p
         /\ \A r \in Replenishers : rpod[r] # p
         /\ \A k \in DOMAIN doomed : doomed[k] # p
         /\ p # None
BY WarmPoolAssumption DEF PodInv, PodsExist

LEMMA AcquireColdKeeps ==
  ASSUME PoolInv, NEW c \in Acquirers, AcquireCold(c)
  PROVE  PoolInv'
<1>1. PICK p \in Pods : Fork(p) /\ apod' = [apod EXCEPT ![c] = p]
  BY DEF AcquireCold
<1>2. /\ PoolTypeOK /\ PodInv /\ apc' = [apc EXCEPT ![c] = "promote"]
      /\ UNCHANGED <<now, pool, owner, rpc, left, rpod, doomed>>
  BY DEF PoolInv, AcquireCold, replenishVars
<1>3. /\ pods[p] = "none" /\ pods'[p] = "forked"
      /\ \A q \in Pods : q # p => pods'[q] = pods[q]
      /\ pods' \in [Pods -> {"none", "forked", "promoted", "destroyed"}]
  BY <1>1, <1>2 DEF Fork, PoolTypeOK
<1>4. /\ \A i \in DOMAIN pool : pool[i].pod # p
      /\ \A a \in Acquirers : apod[a] # p
      /\ \A r \in Replenishers : rpod[r] # p
      /\ \A k \in DOMAIN doomed : doomed[k] # p
      /\ p # None
  BY <1>2, <1>3, ForkedIsNew
<1>5. /\ apod'[c] = p /\ apc'[c] = "promote"
      /\ \A b \in Acquirers : b # c => apod'[b] = apod[b] /\ apc'[b] = apc[b]
  BY <1>1, <1>2 DEF PoolTypeOK
<1>6. PoolTypeOK' /\ Owed' = Owed
  BY <1>1, <1>2, <1>3 DEF PoolTypeOK, Owed, Places
<1>7. Apart'
  BY <1>2, <1>4, <1>5 DEF PodInv, Apart
<1>8. /\ \A i \in DOMAIN pool : pool[i].pod \in Pods
      /\ \A k \in DOMAIN doomed : doomed[k] \in Pods
      /\ \A r \in Replenishers : rpod[r] \in Pods \cup {None}
      /\ \A a \in Acquirers : apod[a] \in Pods \cup {None}
  BY <1>2, PodsTyped
<1>9. PodsExist'
  BY <1>2, <1>3, <1>4, <1>5, <1>8 DEF PodInv, PodsExist
<1>10. ReplenishesOwe' /\ AcquiresHold'
  BY <1>2, <1>3, <1>4, <1>5, <1>8 DEF PodInv, ReplenishesOwe, AcquiresHold
<1>11. OwedFits'
  BY <1>2, <1>6 DEF PoolInv, OwedFits, Places
<1> QED BY <1>6, <1>7, <1>9, <1>10, <1>11 DEF PoolInv, PodInv

LEMMA PromoteKeeps ==
  ASSUME PoolInv, NEW c \in Acquirers, Promote(c)
  PROVE  PoolInv'
<1> DEFINE p == apod[c]
<1>1. /\ PoolTypeOK /\ PodInv /\ apc[c] = "promote" /\ apc' = [apc EXCEPT ![c] = "ok"]
      /\ pods' = [pods EXCEPT ![p] = "promoted"] /\ owner' = [owner EXCEPT ![p] = c]
      /\ UNCHANGED <<now, pool, apod, rpc, left, rpod, doomed>>
  BY DEF PoolInv, Promote, replenishVars
<1>2. p \in Pods /\ p # None
  BY <1>1, WarmPoolAssumption DEF PodInv, AcquiresHold, PoolTypeOK
<1>3. /\ \A i \in DOMAIN pool : pool[i].pod # p
      /\ \A r \in Replenishers : rpod[r] # p
      /\ \A b \in Acquirers : b # c => apod[b] # p
  BY <1>1, <1>2 DEF PodInv, Apart
<1>4. apod[c] = p
  OBVIOUS
<1> HIDE DEF p
<1>5. /\ pods'[p] = "promoted" /\ owner'[p] = c
      /\ \A q \in Pods : q # p => pods'[q] = pods[q] /\ owner'[q] = owner[q]
      /\ pods' \in [Pods -> {"none", "forked", "promoted", "destroyed"}]
      /\ owner' \in [Pods -> Acquirers \cup {None}]
  BY <1>1, <1>2 DEF PoolTypeOK
<1>6. /\ apc'[c] = "ok" /\ \A b \in Acquirers : b # c => apc'[b] = apc[b]
      /\ apc' \in [Acquirers -> {"idle", "fork", "promote", "ok", "error"}]
  BY <1>1 DEF PoolTypeOK
<1>7. PoolTypeOK' /\ Owed' = Owed
  BY <1>1, <1>5, <1>6 DEF PoolTypeOK, Owed, Places
<1>8. Apart'
  BY <1>1 DEF PodInv, Apart
<1>9. /\ \A i \in DOMAIN pool : pool[i].pod \in Pods
      /\ \A k \in DOMAIN doomed : doomed[k] \in Pods
      /\ \A r \in Replenishers : rpod[r] \in Pods \cup {None}
      /\ \A a \in Acquirers : apod[a] \in Pods \cup {None}
  BY <1>1, PodsTyped
<1>10. PodsExist'
  BY <1>1, <1>3, <1>5, <1>9 DEF PodInv, PodsExist
<1>11. ReplenishesOwe' /\ AcquiresHold'
  BY <1>1, <1>2, <1>3, <1>4, <1>5, <1>6, <1>9 DEF PodInv, ReplenishesOwe, AcquiresHold
<1>12. OwedFits'
  BY <1>1, <1>7 DEF PoolInv, OwedFits, Places
<1> QED BY <1>7, <1>8, <1>10, <1>11, <1>12 DEF PoolInv, PodInv

LEMMA AcquireErrorKeeps ==
  ASSUME PoolInv, NEW c \in Acquirers, AcquireError(c)
  PROVE  PoolInv'
<1>1. /\ PoolTypeOK /\ PodInv /\ apc' = [apc EXCEPT ![c] = "error"]
      /\ apod' = [apod EXCEPT ![c] = None]
      /\ UNCHANGED <<now, pool, pods, owner, rpc, left, rpod, doomed>>
  BY DEF PoolInv, AcquireError, replenishVars
<1>2. /\ apod'[c] = None /\ apc'[c] = "error"
      /\ \A b \in Acquirers : b # c => apod'[b] = apod[b] /\ apc'[b] = apc[b]
  BY <1>1 DEF PoolTypeOK
<1>3. PoolTypeOK' /\ Owed' = Owed
  BY <1>1 DEF PoolTypeOK, Owed, Places
<1>4. \A i \in DOMAIN pool : pool[i].pod # None
  BY <1>1, PodsTyped, WarmPoolAssumption
<1>5. Apart'
  BY <1>1, <1>2, <1>4 DEF PodInv, Apart
<1>6. PodsExist' /\ ReplenishesOwe' /\ AcquiresHold'
  BY <1>1, <1>2 DEF PodInv, PodsExist, ReplenishesOwe, AcquiresHold
<1>7. OwedFits'
  BY <1>1, <1>3 DEF PoolInv, OwedFits, Places
<1> QED BY <1>3, <1>5, <1>6, <1>7 DEF PoolInv, PodInv

-----------------------------------------------------------------------------
(* Replenish and ScaleDown. *)

LEMMA ReplenishKeeps ==
  ASSUME PoolInv, NEW r \in Replenishers, NEW t \in Targets, Replenish(r, t)
  PROVE  PoolInv'
<1> DEFINE n == Capped(t) - Len(pool)
<1>1. /\ PoolTypeOK /\ PodInv /\ rpc[r] = "idle" /\ rpc' = [rpc EXCEPT ![r] = "fork"]
      /\ left' = [left EXCEPT ![r] = n] /\ Len(pool) < Capped(t)
      /\ UNCHANGED <<now, pool, pods, owner, apc, apod, rpod, doomed>>
  BY DEF PoolInv, Replenish, acquireVars
<1>2. pool \in Seq(Pooled) /\ Len(pool) \in Nat /\ left \in [Replenishers -> 0..MaxPerKey]
  BY <1>1 DEF PoolTypeOK
<1>3. Capped(t) \in Nat /\ Capped(t) <= MaxPerKey /\ MaxPerKey \in Nat
  BY WarmPoolAssumption DEF Capped
<1>4. n \in 0..MaxPerKey /\ n > 0 /\ Len(pool) + n <= MaxPerKey
  BY <1>1, <1>2, <1>3
<1> HIDE DEF n
<1>5. /\ rpc'[r] = "fork" /\ left'[r] = n
      /\ \A s \in Replenishers : s # r => rpc'[s] = rpc[s] /\ left'[s] = left[s]
      /\ left' \in [Replenishers -> 0..MaxPerKey]
      /\ rpc' \in [Replenishers -> {"idle", "fork", "append"}]
  BY <1>1, <1>2, <1>4 DEF PoolTypeOK
<1>6. PoolTypeOK'
  BY <1>1, <1>5 DEF PoolTypeOK
<1>7. Apart' /\ PodsExist' /\ AcquiresHold'
  BY <1>1 DEF PodInv, Apart, PodsExist, AcquiresHold
<1>8. ReplenishesOwe'
  BY <1>1, <1>4, <1>5 DEF PodInv, ReplenishesOwe
<1>9. OwedFits'
  BY <1>1, <1>2, <1>4, OwedStarts
<1> QED BY <1>6, <1>7, <1>8, <1>9 DEF PoolInv, PodInv

LEMMA ReplenishForkKeeps ==
  ASSUME PoolInv, NEW r \in Replenishers, ReplenishFork(r)
  PROVE  PoolInv'
<1>1. PICK p \in Pods : Fork(p) /\ rpod' = [rpod EXCEPT ![r] = p]
  BY DEF ReplenishFork
<1>2. /\ PoolTypeOK /\ PodInv /\ rpc[r] = "fork" /\ rpc' = [rpc EXCEPT ![r] = "append"]
      /\ UNCHANGED <<now, pool, owner, apc, apod, left, doomed>>
  BY DEF PoolInv, ReplenishFork, acquireVars
<1>3. /\ pods[p] = "none" /\ pods'[p] = "forked"
      /\ \A q \in Pods : q # p => pods'[q] = pods[q]
      /\ pods' \in [Pods -> {"none", "forked", "promoted", "destroyed"}]
  BY <1>1, <1>2 DEF Fork, PoolTypeOK
<1>4. /\ \A i \in DOMAIN pool : pool[i].pod # p
      /\ \A a \in Acquirers : apod[a] # p
      /\ \A s \in Replenishers : rpod[s] # p
      /\ \A k \in DOMAIN doomed : doomed[k] # p
      /\ p # None
  BY <1>2, <1>3, ForkedIsNew
<1>5. /\ rpod'[r] = p /\ rpc'[r] = "append"
      /\ \A s \in Replenishers : s # r => rpod'[s] = rpod[s] /\ rpc'[s] = rpc[s]
  BY <1>1, <1>2 DEF PoolTypeOK
<1>6. PoolTypeOK' /\ Owed' = Owed
  BY <1>1, <1>2, <1>3 DEF PoolTypeOK, Owed, Places
<1>7. Apart'
  BY <1>2, <1>4, <1>5 DEF PodInv, Apart
<1>8. /\ \A i \in DOMAIN pool : pool[i].pod \in Pods
      /\ \A k \in DOMAIN doomed : doomed[k] \in Pods
      /\ \A s \in Replenishers : rpod[s] \in Pods \cup {None}
      /\ \A a \in Acquirers : apod[a] \in Pods \cup {None}
  BY <1>2, PodsTyped
<1>9. PodsExist'
  BY <1>2, <1>3, <1>4, <1>5, <1>8 DEF PodInv, PodsExist
<1>10. ReplenishesOwe' /\ AcquiresHold'
  BY <1>2, <1>3, <1>4, <1>5, <1>8 DEF PodInv, ReplenishesOwe, AcquiresHold
<1>11. OwedFits'
  BY <1>2, <1>6 DEF PoolInv, OwedFits, Places
<1> QED BY <1>6, <1>7, <1>9, <1>10, <1>11 DEF PoolInv, PodInv

LEMMA ReplenishErrorKeeps ==
  ASSUME PoolInv, NEW r \in Replenishers, ReplenishError(r)
  PROVE  PoolInv'
<1>1. /\ PoolTypeOK /\ PodInv /\ rpc[r] = "fork" /\ rpc' = [rpc EXCEPT ![r] = "idle"]
      /\ left' = [left EXCEPT ![r] = 0]
      /\ UNCHANGED <<now, pool, pods, owner, apc, apod, rpod, doomed>>
  BY DEF PoolInv, ReplenishError, acquireVars
<1>2. /\ left \in [Replenishers -> 0..MaxPerKey] /\ MaxPerKey \in Nat
      /\ Len(pool) \in Nat /\ Len(pool') = Len(pool)
  BY <1>1, WarmPoolAssumption DEF PoolTypeOK
<1>3. /\ rpc'[r] = "idle" /\ left'[r] = 0
      /\ \A s \in Replenishers : s # r => rpc'[s] = rpc[s] /\ left'[s] = left[s]
      /\ left' \in [Replenishers -> 0..MaxPerKey]
      /\ rpc' \in [Replenishers -> {"idle", "fork", "append"}]
  BY <1>1, <1>2 DEF PoolTypeOK
<1>4. PoolTypeOK'
  BY <1>1, <1>3 DEF PoolTypeOK
<1>5. Apart' /\ PodsExist' /\ AcquiresHold'
  BY <1>1 DEF PodInv, Apart, PodsExist, AcquiresHold
<1>6. ReplenishesOwe'
  BY <1>1, <1>3 DEF PodInv, ReplenishesOwe
<1>7. Owed' \subseteq Owed
  <2>1. ASSUME NEW s \in Replenishers, NEW i \in 1..MaxPerKey, i <= left'[s]
        PROVE  i <= left[s]
    BY <1>2, <1>3, <2>1
  <2> QED BY <2>1 DEF Owed, Places
<1>8. OwedFits'
  BY <1>2, <1>7, OwedShrinks DEF PoolInv
<1> QED BY <1>4, <1>5, <1>6, <1>8 DEF PoolInv, PodInv

LEMMA ReplenishAppendKeeps ==
  ASSUME PoolInv, NEW r \in Replenishers, ReplenishAppend(r)
  PROVE  PoolInv'
<1> DEFINE p == rpod[r]
           e == [pod |-> p, forkedAt |-> now]
           next == IF left[r] = 1 THEN "idle" ELSE "fork"
<1>1. /\ PoolTypeOK /\ PodInv /\ rpc[r] = "append" /\ rpc' = [rpc EXCEPT ![r] = next]
      /\ pool' = Append(pool, e) /\ rpod' = [rpod EXCEPT ![r] = None]
      /\ left' = [left EXCEPT ![r] = @ - 1]
      /\ UNCHANGED <<now, pods, owner, apc, apod, doomed>>
  BY DEF PoolInv, ReplenishAppend, acquireVars
<1>2. /\ left \in [Replenishers -> 0..MaxPerKey] /\ MaxPerKey \in Nat /\ left[r] > 0
      /\ pool \in Seq(Pooled) /\ Len(pool) \in Nat
  BY <1>1, WarmPoolAssumption DEF PoolTypeOK, PodInv, ReplenishesOwe
<1>3. p \in Pods /\ p # None /\ pods[p] = "forked"
  BY <1>1, PodsTyped DEF PodInv, ReplenishesOwe, PodsExist
<1>4. /\ \A i \in DOMAIN pool : pool[i].pod # p
      /\ \A a \in Acquirers : apod[a] # p
      /\ \A s \in Replenishers : s # r => rpod[s] # p
      /\ \A k \in DOMAIN doomed : doomed[k] # p
  BY <1>1, <1>3 DEF PodInv, Apart
<1>5. next \in {"idle", "fork"} /\ (next = "idle" <=> left[r] - 1 = 0)
  BY <1>2
<1> HIDE DEF p, next
<1>6. e \in Pooled /\ e.pod = p
  BY <1>1, <1>3 DEF Pooled, PoolTypeOK
<1> HIDE DEF e
<1>7. /\ pool' \in Seq(Pooled) /\ Len(pool') = Len(pool) + 1
      /\ DOMAIN pool = 1..Len(pool) /\ DOMAIN pool' = 1..(Len(pool) + 1)
      /\ pool'[Len(pool) + 1] = e
      /\ \A i \in DOMAIN pool : pool'[i] = pool[i]
  BY <1>1, <1>2, <1>6
<1>8. /\ rpc'[r] = next /\ left'[r] = left[r] - 1 /\ rpod'[r] = None
      /\ \A s \in Replenishers : s # r => rpc'[s] = rpc[s] /\ left'[s] = left[s] /\ rpod'[s] = rpod[s]
      /\ left' \in [Replenishers -> 0..MaxPerKey]
      /\ rpc' \in [Replenishers -> {"idle", "fork", "append"}]
      /\ rpod' \in [Replenishers -> Pods \cup {None}]
  BY <1>1, <1>2, <1>5 DEF PoolTypeOK
<1>9. PoolTypeOK'
  BY <1>1, <1>7, <1>8 DEF PoolTypeOK
<1>10. \A i \in DOMAIN pool' : i \in DOMAIN pool \/ (i = Len(pool) + 1 /\ pool'[i].pod = p)
  BY <1>2, <1>6, <1>7
<1>11. \A i \in DOMAIN pool' : pool'[i].pod # None
  BY <1>3, <1>7, <1>10, <1>1, PodsTyped, WarmPoolAssumption
<1>12. Apart'
  <2>1. \A i, j \in DOMAIN pool' : pool'[i].pod = pool'[j].pod => i = j
    BY <1>1, <1>4, <1>7, <1>10 DEF PodInv, Apart
  <2>2. ASSUME NEW i \in DOMAIN pool'
        PROVE  /\ \A a \in Acquirers : apod[a] # pool'[i].pod
               /\ \A s \in Replenishers : rpod'[s] # pool'[i].pod
               /\ \A k \in DOMAIN doomed : doomed[k] # pool'[i].pod
    <3>1. CASE i \in DOMAIN pool
      BY <1>1, <1>7, <1>8, <1>11, <3>1 DEF PodInv, Apart
    <3>2. CASE i \notin DOMAIN pool
      BY <1>4, <1>8, <1>10, <1>11, <3>2
    <3> QED BY <3>1, <3>2
  <2>3. \A a \in Acquirers : apod[a] # None => \A s \in Replenishers : rpod'[s] # apod[a]
    BY <1>1, <1>8 DEF PodInv, Apart
  <2>4. \A s \in Replenishers : rpod'[s] # None =>
          /\ \A q \in Replenishers : rpod'[q] = rpod'[s] => q = s
          /\ \A k \in DOMAIN doomed : doomed[k] # rpod'[s]
    BY <1>1, <1>8 DEF PodInv, Apart
  <2> QED BY <1>1, <2>1, <2>2, <2>3, <2>4 DEF PodInv, Apart
<1>13. PodsExist'
  BY <1>1, <1>3, <1>7, <1>8, <1>10 DEF PodInv, PodsExist
<1>14. ReplenishesOwe' /\ AcquiresHold'
  BY <1>1, <1>2, <1>5, <1>8 DEF PodInv, ReplenishesOwe, AcquiresHold
<1>15. OwedFits'
  BY <1>1, <1>2, <1>7, OwedIsPaid DEF PoolInv
<1> QED BY <1>9, <1>12, <1>13, <1>14, <1>15 DEF PoolInv, PodInv

LEMMA ScaleDownKeeps ==
  ASSUME PoolInv, ScaleDown
  PROVE  PoolInv'
<1> DEFINE stale == {i \in DOMAIN pool : Stale(pool[i])}
           kept == DOMAIN pool \ stale
<1>1. PICK g \in InOrder(stale) : doomed' = [i \in DOMAIN g |-> pool[g[i]].pod]
  BY DEF ScaleDown
<1>2. PICK f \in InOrder(kept) : pool' = [i \in DOMAIN f |-> pool[f[i]]]
  BY DEF ScaleDown
<1>3. /\ PoolTypeOK /\ PodInv /\ UNCHANGED <<now, pods, owner, apc, apod, rpc, left, rpod>>
      /\ pool \in Seq(Pooled) /\ Len(pool) \in Nat /\ DOMAIN pool = 1..Len(pool)
  BY DEF PoolInv, PoolTypeOK, ScaleDown, acquireVars, replenishVars
<1>4. /\ IsFiniteSet(stale) /\ Cardinality(stale) \in Nat
      /\ IsFiniteSet(kept) /\ Cardinality(kept) \in Nat /\ Cardinality(kept) <= Len(pool)
  <2>1. IsFiniteSet(DOMAIN pool) /\ Cardinality(DOMAIN pool) = Len(pool)
    BY <1>3, FS_Interval
  <2> QED BY <2>1, FS_Subset, FS_CardinalityType
<1>5. stale \subseteq DOMAIN pool /\ kept \subseteq DOMAIN pool /\ stale \cap kept = {}
  OBVIOUS
<1> HIDE DEF stale, kept
<1>6. /\ DOMAIN g = 1..Cardinality(stale) /\ \A i \in DOMAIN g : g[i] \in stale
      /\ DOMAIN f = 1..Cardinality(kept) /\ \A i \in DOMAIN f : f[i] \in kept
      /\ \A i, j \in DOMAIN f : i < j => f[i] < f[j]
  BY DEF InOrder
<1>7. \A i, j \in DOMAIN f : f[i] = f[j] => i = j
  BY <1>3, <1>4, <1>5, <1>6
<1>8. /\ \A i \in DOMAIN pool : pool[i] \in Pooled /\ pool[i].pod \in Pods
  BY <1>3, PodsTyped
<1>9. /\ DOMAIN pool' = 1..Cardinality(kept) /\ pool' \in Seq(Pooled)
      /\ Len(pool') = Cardinality(kept)
      /\ \A i \in DOMAIN pool' : i \in DOMAIN f /\ f[i] \in DOMAIN pool /\ pool'[i] = pool[f[i]]
  <2> DEFINE n == Cardinality(kept)
  <2>1. n \in Nat /\ DOMAIN f = 1..n /\ pool' = [i \in 1..n |-> pool[f[i]]]
    BY <1>2, <1>4, <1>6
  <2>2. \A i \in 1..n : f[i] \in DOMAIN pool /\ pool[f[i]] \in Pooled
    BY <1>5, <1>6, <1>8, <2>1
  <2> HIDE DEF n
  <2>3. pool' \in [1..n -> Pooled]
    BY <2>1, <2>2
  <2>4. pool' \in Seq(Pooled) /\ Len(pool') = n
    BY <2>1, <2>3
  <2>5. \A i \in 1..n : pool'[i] = pool[f[i]]
    BY <2>1
  <2> QED BY <2>1, <2>2, <2>3, <2>4, <2>5 DEF n
<1>10. /\ DOMAIN doomed' = 1..Cardinality(stale) /\ doomed' \in Seq(Pods)
       /\ \A k \in DOMAIN doomed' : g[k] \in stale /\ g[k] \in DOMAIN pool /\ doomed'[k] = pool[g[k]].pod
  <2> DEFINE n == Cardinality(stale)
  <2>1. n \in Nat /\ DOMAIN g = 1..n /\ doomed' = [i \in 1..n |-> pool[g[i]].pod]
    BY <1>1, <1>4, <1>6
  <2>2. \A i \in 1..n : g[i] \in stale /\ g[i] \in DOMAIN pool /\ pool[g[i]].pod \in Pods
    BY <1>5, <1>6, <1>8, <2>1
  <2> HIDE DEF n
  <2>3. doomed' \in [1..n -> Pods]
    BY <2>1, <2>2
  <2>4. doomed' \in Seq(Pods)
    BY <2>1, <2>3
  <2>5. \A i \in 1..n : doomed'[i] = pool[g[i]].pod
    BY <2>1
  <2> QED BY <2>1, <2>2, <2>3, <2>4, <2>5 DEF n
<1>11. PoolTypeOK' /\ Owed' = Owed
  BY <1>3, <1>9, <1>10 DEF PoolTypeOK, Owed, Places
<1>12. \A i, j \in DOMAIN pool : pool[i].pod = pool[j].pod => i = j
  BY <1>3 DEF PodInv, Apart
<1>13. Apart'
  <2>1. \A i, j \in DOMAIN pool' : pool'[i].pod = pool'[j].pod => i = j
    BY <1>7, <1>9, <1>12
  <2>2. \A i \in DOMAIN pool', k \in DOMAIN doomed' : doomed'[k] # pool'[i].pod
    BY <1>5, <1>6, <1>9, <1>10, <1>12
  <2>3. \A i \in DOMAIN pool' :
          /\ \A a \in Acquirers : apod[a] # pool'[i].pod
          /\ \A r \in Replenishers : rpod[r] # pool'[i].pod
    BY <1>3, <1>9 DEF PodInv, Apart
  <2>4. /\ \A a \in Acquirers, k \in DOMAIN doomed' : doomed'[k] # apod[a]
        /\ \A r \in Replenishers, k \in DOMAIN doomed' : doomed'[k] # rpod[r]
    BY <1>3, <1>10 DEF PodInv, Apart
  <2> QED BY <1>3, <2>1, <2>2, <2>3, <2>4 DEF PodInv, Apart
<1>14. PodsExist'
  <2>1. /\ \A i \in DOMAIN pool : pods[pool[i].pod] = "forked"
        /\ \A r \in Replenishers : rpod[r] # None => pods[rpod[r]] = "forked"
        /\ \A a \in Acquirers : apod[a] # None => pods[apod[a]] # "none"
    BY <1>3 DEF PodInv, PodsExist
  <2>2. \A i \in DOMAIN pool' : pods[pool'[i].pod] = "forked"
    BY <1>9, <2>1
  <2>3. \A k \in DOMAIN doomed' : pods[doomed'[k]] # "none"
    BY <1>10, <2>1
  <2> QED BY <1>3, <2>1, <2>2, <2>3 DEF PodsExist
<1>15. ReplenishesOwe' /\ AcquiresHold'
  BY <1>3 DEF PodInv, ReplenishesOwe, AcquiresHold
<1>16. OwedFits'
  BY <1>3, <1>4, <1>9, <1>11, OwedShrinks DEF PoolInv
<1> QED BY <1>11, <1>13, <1>14, <1>15, <1>16 DEF PoolInv, PodInv

LEMMA DestroyKeeps ==
  ASSUME PoolInv, Destroy
  PROVE  PoolInv'
<1> DEFINE p == doomed[1]
<1>1. /\ PoolTypeOK /\ PodInv /\ doomed \in Seq(Pods) /\ doomed # <<>>
      /\ UNCHANGED <<now, pool, owner, apc, apod, rpc, left, rpod>>
  BY DEF PoolInv, PoolTypeOK, Destroy, acquireVars, replenishVars
<1>2. Head(doomed) = p /\ 1 \in DOMAIN doomed /\ p \in Pods
  BY <1>1
<1>3. pods' = [pods EXCEPT ![p] = "destroyed"] /\ doomed' = Tail(doomed)
  BY <1>2 DEF Destroy
<1>4. /\ \A i \in DOMAIN pool : pool[i].pod # p
      /\ \A a \in Acquirers : apod[a] # p
      /\ \A r \in Replenishers : rpod[r] # p
  BY <1>1, <1>2, WarmPoolAssumption DEF PodInv, Apart
<1> HIDE DEF p
<1>5. /\ doomed' \in Seq(Pods)
      /\ \A k \in DOMAIN doomed' : k + 1 \in DOMAIN doomed /\ doomed'[k] = doomed[k + 1]
  BY <1>1, <1>3
<1>6. /\ pods'[p] = "destroyed" /\ \A q \in Pods : q # p => pods'[q] = pods[q]
      /\ pods' \in [Pods -> {"none", "forked", "promoted", "destroyed"}]
  BY <1>1, <1>2, <1>3 DEF PoolTypeOK
<1>7. PoolTypeOK' /\ Owed' = Owed
  BY <1>1, <1>5, <1>6 DEF PoolTypeOK, Owed, Places
<1>8. Apart'
  BY <1>1, <1>5 DEF PodInv, Apart
<1>9. /\ \A i \in DOMAIN pool : pool[i].pod \in Pods
      /\ \A k \in DOMAIN doomed : doomed[k] \in Pods
      /\ \A r \in Replenishers : rpod[r] \in Pods \cup {None}
      /\ \A a \in Acquirers : apod[a] \in Pods \cup {None}
  BY <1>1, PodsTyped
<1>10. PodsExist'
  BY <1>1, <1>4, <1>5, <1>6, <1>9 DEF PodInv, PodsExist
<1>11. ReplenishesOwe' /\ AcquiresHold'
  BY <1>1, <1>4, <1>6, <1>9 DEF PodInv, ReplenishesOwe, AcquiresHold
<1>12. OwedFits'
  BY <1>1, <1>7 DEF PoolInv, OwedFits, Places
<1> QED BY <1>7, <1>8, <1>10, <1>11, <1>12 DEF PoolInv, PodInv

LEMMA DestroyErrorKeeps ==
  ASSUME PoolInv, DestroyError
  PROVE  PoolInv'
<1>1. /\ PoolTypeOK /\ PodInv /\ doomed' = <<>>
      /\ UNCHANGED <<now, pool, pods, owner, apc, apod, rpc, left, rpod>>
  BY DEF PoolInv, DestroyError, acquireVars, replenishVars
<1>2. doomed' \in Seq(Pods) /\ DOMAIN doomed' = {}
  BY <1>1
<1>3. PoolTypeOK' /\ Owed' = Owed
  BY <1>1, <1>2 DEF PoolTypeOK, Owed, Places
<1>4. PodInv'
  BY <1>1, <1>2 DEF PodInv, Apart, PodsExist, ReplenishesOwe, AcquiresHold
<1>5. OwedFits'
  BY <1>1, <1>3 DEF PoolInv, OwedFits, Places
<1> QED BY <1>3, <1>4, <1>5 DEF PoolInv

LEMMA PoolInvInit == PoolInit => PoolInv
<1> SUFFICES ASSUME PoolInit PROVE PoolInv
  OBVIOUS
<1>1. /\ pool = <<>> /\ doomed = <<>> /\ DOMAIN pool = {} /\ DOMAIN doomed = {} /\ Len(pool) = 0
      /\ MaxPerKey \in Nat
  BY WarmPoolAssumption DEF PoolInit
<1>2. PoolTypeOK
  BY <1>1, WarmPoolAssumption DEF PoolInit, PoolTypeOK
<1>3. PodInv
  BY <1>1 DEF PoolInit, PodInv, Apart, PodsExist, ReplenishesOwe, AcquiresHold
<1>4. IsFiniteSet(Owed) /\ Cardinality(Owed) <= Cardinality(Places)
  BY PlacesFinite, FS_Subset DEF Owed
<1>5. OwedFits
  BY <1>1, <1>4, PlacesFinite, FS_CardinalityType DEF OwedFits
<1> QED BY <1>2, <1>3, <1>5 DEF PoolInv

LEMMA PoolInvAcquire ==
  ASSUME PoolInv, NEW c \in Acquirers, AcquireStep(c)
  PROVE  PoolInv'
BY AcquireWarmKeeps, AcquireMissKeeps, AcquireColdKeeps, PromoteKeeps, AcquireErrorKeeps
   DEF AcquireStep

LEMMA PoolInvKeeping == PoolInv /\ PoolKeeping => PoolInv'
<1> SUFFICES ASSUME PoolInv, PoolKeeping PROVE PoolInv'
  OBVIOUS
<1>1. CASE Tick
  <2>1. now' \in 0..MaxTime
    BY <1>1, WarmPoolAssumption DEF Tick, PoolInv, PoolTypeOK
  <2> QED BY <1>1, <2>1, TickKeepsPool DEF Tick
<1>2. ASSUME NEW r \in Replenishers, NEW t \in Targets, Replenish(r, t) PROVE PoolInv'
  BY <1>2, ReplenishKeeps
<1>3. ASSUME NEW r \in Replenishers, ReplenishFork(r) \/ ReplenishError(r) \/ ReplenishAppend(r)
      PROVE  PoolInv'
  BY <1>3, ReplenishForkKeeps, ReplenishErrorKeeps, ReplenishAppendKeeps
<1>4. CASE ScaleDown \/ Destroy \/ DestroyError
  BY <1>4, ScaleDownKeeps, DestroyKeeps, DestroyErrorKeeps
<1> QED BY <1>1, <1>2, <1>3, <1>4 DEF PoolKeeping

-----------------------------------------------------------------------------
(* The stop hook and the resumer.  Their inductive invariant. *)

(* Backed, of any remote and any blob store. *)
BackedBy(m, rem, store) ==
  \A i \in DOMAIN m :
    /\ m[i].repo = Work[i]
    /\ ~m[i].uncommitted => m[i].repo \in rem
    /\ m[i].uncommitted => store[BlobKey(m[i].repo)] \in SameKey(m[i].repo)

(* A hook's state so far is backed, the loop is inside the work, and what  *)
(* is about to be saved is complete.                                       *)
HooksBacked ==
  \A h \in Hooks :
    /\ BackedBy(git[h], remote, blobs)
    /\ hpc[h] = "idle" => git[h] = <<>>
    /\ hpc[h] \in {"push", "upload"} => Len(git[h]) < Len(Work)
    /\ hpc[h] = "emit" => Complete(git[h])

ManifestBacked ==
  manifest # NoManifest => BackedBy(manifest, remote, blobs) /\ Complete(manifest)

(* The diffs that a resume is to fetch stay in the blob store. *)
ViewsBacked == \A c \in Acquirers : BackedBy(view[c], remote, blobs)

EndInv ==
  /\ EndTypeOK /\ HooksBacked /\ ManifestBacked /\ ViewsBacked /\ PlanIsSound

-----------------------------------------------------------------------------
(* Manifests. *)

LEMMA WorkFacts ==
  /\ Work \in Seq(Repos) /\ Len(Work) \in Nat /\ DOMAIN Work = 1..Len(Work)
  /\ \A i \in 1..Len(Work) : Work[i] \in Repos
  /\ \A r \in Repos : BlobKey(r) \in Keys /\ r \in SameKey(r)
<1>1. Work \in Seq(Repos)
  BY SessionEndAssumption
<1>2. Len(Work) \in Nat /\ DOMAIN Work = 1..Len(Work)
  BY <1>1
<1>3. \A i \in 1..Len(Work) : Work[i] \in Repos
  BY <1>1, <1>2
<1>4. \A r \in Repos : BlobKey(r) \in Keys /\ r \in SameKey(r)
  BY DEF Keys, SameKey
<1> QED BY <1>1, <1>2, <1>3, <1>4

LEMMA ManifestFacts ==
  ASSUME NEW m \in Manifests
  PROVE  /\ m \in Seq(GitState) /\ Len(m) \in Nat /\ Len(m) <= Len(Work)
         /\ DOMAIN m = 1..Len(m)
         /\ \A i \in DOMAIN m : m[i] \in GitState
         /\ \A i \in DOMAIN m : m[i].repo \in Repos /\ m[i].uncommitted \in BOOLEAN
<1>1. m \in Seq(GitState) /\ Len(m) <= Len(Work)
  BY DEF Manifests
<1>2. Len(m) \in Nat /\ DOMAIN m = 1..Len(m)
  BY <1>1
<1>3. \A i \in DOMAIN m : m[i] \in GitState
  BY <1>1, <1>2
<1>4. \A i \in DOMAIN m : m[i].repo \in Repos /\ m[i].uncommitted \in BOOLEAN
  BY <1>3 DEF GitState
<1> QED BY <1>1, <1>2, <1>3, <1>4

(* The empty manifest is backed by anything. *)
LEMMA EmptyManifest == <<>> \in Manifests /\ \A rem, store : BackedBy(<<>>, rem, store)
<1>1. <<>> \in Seq(GitState) /\ Len(<<>>) = 0 /\ DOMAIN <<>> = {}
  OBVIOUS
<1>2. <<>> \in Manifests
  BY <1>1, WorkFacts DEF Manifests
<1> QED BY <1>1, <1>2 DEF BackedBy

(* A manifest stays backed as long as no push and no diff is lost. *)
LEMMA BackedStays ==
  ASSUME NEW m \in Manifests, NEW rem, NEW rem2, NEW store, NEW store2,
         BackedBy(m, rem, store), rem \subseteq rem2,
         \A r \in Repos : store[BlobKey(r)] \in SameKey(r) => store2[BlobKey(r)] \in SameKey(r)
  PROVE  BackedBy(m, rem2, store2)
BY ManifestFacts DEF BackedBy

(* The loop adds the repository it is at. *)
LEMMA BackedGrows ==
  ASSUME NEW m \in Manifests, Len(m) < Len(Work), NEW u \in BOOLEAN,
         NEW rem, NEW store, BackedBy(m, rem, store),
         ~u => Work[Len(m) + 1] \in rem,
         u => store[BlobKey(Work[Len(m) + 1])] \in SameKey(Work[Len(m) + 1])
  PROVE  LET n == Append(m, [repo |-> Work[Len(m) + 1], uncommitted |-> u])
         IN  /\ n \in Manifests /\ Len(n) = Len(m) + 1
             /\ BackedBy(n, rem, store)
             /\ u \/ Len(n) = Len(Work) => Complete(n)
<1> DEFINE r == Work[Len(m) + 1]
           e == [repo |-> r, uncommitted |-> u]
           n == Append(m, e)
<1>1. /\ m \in Seq(GitState) /\ Len(m) \in Nat /\ Len(Work) \in Nat
      /\ DOMAIN m = 1..Len(m) /\ Len(m) + 1 \in 1..Len(Work)
  BY ManifestFacts, WorkFacts
<1>2. r \in Repos
  BY <1>1, WorkFacts
<1>3. e \in GitState /\ e.repo = r /\ e.uncommitted = u
  BY <1>2 DEF GitState
<1> HIDE DEF e
<1>4. /\ n \in Seq(GitState) /\ Len(n) = Len(m) + 1 /\ DOMAIN n = 1..(Len(m) + 1)
      /\ n[Len(m) + 1] = e /\ \A i \in DOMAIN m : n[i] = m[i]
  BY <1>1, <1>3
<1> HIDE DEF n
<1>5. n \in Manifests
  BY <1>1, <1>4 DEF Manifests
<1>6. BackedBy(n, rem, store)
  <2>1. ASSUME NEW i \in DOMAIN n
        PROVE  /\ n[i].repo = Work[i]
               /\ ~n[i].uncommitted => n[i].repo \in rem
               /\ n[i].uncommitted => store[BlobKey(n[i].repo)] \in SameKey(n[i].repo)
    <3>1. CASE i \in DOMAIN m
      BY <1>4, <3>1 DEF BackedBy
    <3>2. CASE i \notin DOMAIN m
      <4>1. i = Len(m) + 1
        BY <1>1, <1>4, <3>2
      <4> QED BY <1>3, <1>4, <4>1
    <3> QED BY <3>1, <3>2
  <2> QED BY <2>1 DEF BackedBy
<1>7. u \/ Len(n) = Len(Work) => Complete(n)
  <2>1. CASE u
    <3>1. n # <<>>
      BY <1>1, <1>4
    <3>2. n[Len(n)] = e
      BY <1>4
    <3>3. e.uncommitted
      BY <1>3, <2>1
    <3> QED BY <3>1, <3>2, <3>3 DEF Complete
  <2>2. CASE Len(n) = Len(Work)
    BY <1>1, <2>2 DEF Complete
  <2> QED BY <2>1, <2>2
<1> QED BY <1>4, <1>5, <1>6, <1>7 DEF n, e

-----------------------------------------------------------------------------
(* The stop hook's steps. *)

HookLabels == {"idle", "push", "upload", "emit", "done", "failed"}

(* A step of hook h to a label, with a manifest m that is backed, may save *)
(* m when it is complete.                                                  *)
LEMMA HookMoves ==
  ASSUME EndInv, NEW h \in Hooks, NEW m \in Manifests, NEW label \in HookLabels,
         hpc' = [hpc EXCEPT ![h] = label], git' = [git EXCEPT ![h] = m],
         graceOver' \in [Hooks -> BOOLEAN], late' \in [Hooks -> BOOLEAN],
         remote \subseteq remote', remote' \in SUBSET Repos,
         blobs' \in [Keys -> Repos \cup {None}],
         \A r \in Repos : blobs[BlobKey(r)] \in SameKey(r) => blobs'[BlobKey(r)] \in SameKey(r),
         BackedBy(m, remote', blobs'),
         label = "idle" => m = <<>>,
         label \in {"push", "upload"} => Len(m) < Len(Work),
         label = "emit" => Complete(m),
         manifest' = manifest \/ (manifest' = m /\ Complete(m)),
         UNCHANGED <<poolVars, resumeVars>>
  PROVE  EndInv'
<1>1. /\ hpc \in [Hooks -> HookLabels] /\ git \in [Hooks -> Manifests]
      /\ manifest \in Manifests \cup {NoManifest} /\ view \in [Acquirers -> Manifests]
      /\ EndTypeOK
  BY DEF EndInv, EndTypeOK, HookLabels
<1>2. /\ hpc'[h] = label /\ git'[h] = m
      /\ \A g \in Hooks : g # h => hpc'[g] = hpc[g] /\ git'[g] = git[g]
      /\ hpc' \in [Hooks -> HookLabels] /\ git' \in [Hooks -> Manifests]
  BY <1>1
<1>3. /\ UNCHANGED <<now, pool, pods, owner, apc, apod, rpc, left, rpod, doomed>>
      /\ UNCHANGED <<rs, view, warned, recovery>>
  BY DEF poolVars, resumeVars, acquireVars, replenishVars
<1>4. EndTypeOK'
  <2>1. PoolTypeOK'
    BY <1>1, <1>3 DEF EndTypeOK, PoolTypeOK
  <2>2. manifest' \in Manifests \cup {NoManifest}
    BY <1>1
  <2>3. /\ rs' \in [Acquirers -> {"idle", "verify", "acquire", "done", "failed"}]
        /\ view' \in [Acquirers -> Manifests]
        /\ warned' \in [Acquirers -> SUBSET Repos]
        /\ recovery' \in [Acquirers -> Repos \cup {None}]
    BY <1>1, <1>3 DEF EndTypeOK
  <2> QED BY <1>2, <2>1, <2>2, <2>3 DEF EndTypeOK, HookLabels
<1>5. HooksBacked'
  <2>1. ASSUME NEW g \in Hooks, g # h
        PROVE  BackedBy(git'[g], remote', blobs')
    <3>1. git[g] \in Manifests /\ BackedBy(git[g], remote, blobs) /\ git'[g] = git[g]
      BY <1>1, <1>2, <2>1 DEF EndInv, HooksBacked
    <3> QED BY <3>1, BackedStays
  <2> QED BY <1>2, <2>1 DEF EndInv, HooksBacked
<1>6. ManifestBacked'
  <2>1. CASE manifest' = manifest /\ manifest # NoManifest
    <3>1. manifest \in Manifests /\ BackedBy(manifest, remote, blobs) /\ Complete(manifest)
      BY <1>1, <2>1 DEF EndInv, ManifestBacked
    <3>2. BackedBy(manifest, remote', blobs')
      BY <3>1, BackedStays
    <3> QED BY <2>1, <3>1, <3>2 DEF ManifestBacked
  <2>2. CASE manifest' = manifest /\ manifest = NoManifest
    BY <2>2 DEF ManifestBacked
  <2>3. CASE manifest' = m /\ Complete(m)
    BY <2>3 DEF ManifestBacked
  <2> QED BY <2>1, <2>2, <2>3
<1>7. ViewsBacked'
  <2>1. ASSUME NEW c \in Acquirers
        PROVE  BackedBy(view'[c], remote', blobs')
    <3>1. view[c] \in Manifests /\ BackedBy(view[c], remote, blobs) /\ view'[c] = view[c]
      BY <1>1, <1>3 DEF EndInv, ViewsBacked
    <3> QED BY <3>1, BackedStays
  <2> QED BY <2>1 DEF ViewsBacked
<1>8. PlanIsSound'
  BY <1>3 DEF EndInv, PlanIsSound, Saved
<1> QED BY <1>4, <1>5, <1>6, <1>7, <1>8 DEF EndInv

(* Where a hook is before its step. *)
LEMMA HookAt ==
  ASSUME EndInv, NEW h \in Hooks
  PROVE  /\ git[h] \in Manifests /\ BackedBy(git[h], remote, blobs)
         /\ git' = git => git' = [git EXCEPT ![h] = git[h]]
         /\ graceOver \in [Hooks -> BOOLEAN] /\ late \in [Hooks -> BOOLEAN]
         /\ remote \in SUBSET Repos /\ blobs \in [Keys -> Repos \cup {None}]
         /\ hpc[h] = "idle" => git[h] = <<>>
         /\ hpc[h] \in {"push", "upload"} =>
              Len(git[h]) < Len(Work) /\ Current(h) = Work[Len(git[h]) + 1] /\ Current(h) \in Repos
         /\ hpc[h] = "emit" => Complete(git[h])
<1>1. git \in [Hooks -> Manifests] /\ git[h] \in Manifests
  BY DEF EndInv, EndTypeOK
<1>2. /\ BackedBy(git[h], remote, blobs) /\ (hpc[h] = "idle" => git[h] = <<>>)
      /\ hpc[h] \in {"push", "upload"} => Len(git[h]) < Len(Work)
      /\ hpc[h] = "emit" => Complete(git[h])
  BY DEF EndInv, HooksBacked
<1>3. Len(git[h]) \in Nat
  BY <1>1, ManifestFacts
<1>4. Len(git[h]) < Len(Work) => Work[Len(git[h]) + 1] \in Repos
  BY <1>3, WorkFacts
<1> QED BY <1>1, <1>2, <1>4 DEF EndInv, EndTypeOK, Current

LEMMA HookStartKeeps ==
  ASSUME EndInv, NEW h \in Hooks, HookStart(h)
  PROVE  EndInv'
<1> DEFINE label == After(0)
<1>1. /\ hpc[h] = "idle" /\ hpc' = [hpc EXCEPT ![h] = label]
      /\ UNCHANGED <<graceOver, late, git, remote, blobs, manifest, poolVars, resumeVars>>
  BY DEF HookStart
<1>2. git[h] = <<>> /\ git[h] \in Manifests /\ Len(<<>>) = 0
  BY <1>1, HookAt
<1>3. label \in HookLabels /\ label # "idle"
  BY DEF After, HookLabels
<1>4. label \in {"push", "upload"} => 0 < Len(Work)
  BY WorkFacts DEF After
<1>5. label = "emit" => Complete(git[h])
  BY <1>2, WorkFacts DEF After, Complete
<1> HIDE DEF label
<1> QED BY <1>1, <1>2, <1>3, <1>4, <1>5, HookAt, HookMoves

LEMMA GraceEndsKeeps ==
  ASSUME EndInv, NEW h \in Hooks, GraceEnds(h)
  PROVE  EndInv'
<1>1. /\ hpc[h] \in {"push", "upload"} /\ hpc' = [hpc EXCEPT ![h] = hpc[h]]
      /\ graceOver' \in [Hooks -> BOOLEAN]
      /\ UNCHANGED <<late, git, remote, blobs, manifest, poolVars, resumeVars>>
  BY DEF GraceEnds, EndInv, EndTypeOK
<1>2. hpc[h] \in HookLabels /\ hpc[h] # "idle" /\ hpc[h] # "emit"
  BY <1>1 DEF HookLabels
<1> QED BY <1>1, <1>2, HookAt, HookMoves

LEMMA CommitAndPushKeeps ==
  ASSUME EndInv, NEW h \in Hooks, CommitAndPush(h)
  PROVE  EndInv'
<1> DEFINE m == Append(git[h], [repo |-> Work[Len(git[h]) + 1], uncommitted |-> FALSE])
           label == After(Len(git[h]) + 1)
<1>1. /\ hpc[h] = "push" /\ hpc' = [hpc EXCEPT ![h] = label]
      /\ remote' = remote \cup {Current(h)}
      /\ UNCHANGED <<graceOver, late, blobs, manifest, poolVars, resumeVars>>
  BY DEF CommitAndPush
<1>2. git' = [git EXCEPT ![h] = m]
  BY DEF CommitAndPush, Record, Current
<1>3. /\ git[h] \in Manifests /\ Len(git[h]) < Len(Work) /\ Current(h) = Work[Len(git[h]) + 1]
      /\ Current(h) \in Repos /\ remote \in SUBSET Repos
      /\ BackedBy(git[h], remote, blobs)
  BY <1>1, HookAt
<1>4. remote \subseteq remote' /\ remote' \in SUBSET Repos /\ Work[Len(git[h]) + 1] \in remote'
  BY <1>1, <1>3
<1>5. BackedBy(git[h], remote', blobs')
  BY <1>1, <1>3, <1>4, BackedStays
<1>6. /\ m \in Manifests /\ Len(m) = Len(git[h]) + 1
      /\ BackedBy(m, remote', blobs')
      /\ Len(m) = Len(Work) => Complete(m)
  BY <1>3, <1>4, <1>5, BackedGrows
<1>7. Len(m) \in Nat /\ Len(m) <= Len(Work)
  BY <1>6, ManifestFacts
<1> HIDE DEF m
<1>8. /\ label \in HookLabels /\ label # "idle"
      /\ label \in {"push", "upload"} => Len(m) < Len(Work)
      /\ label = "emit" => Complete(m)
  <2>1. label = IF Len(m) = Len(Work) THEN "emit" ELSE "push"
    BY <1>6 DEF After
  <2>2. CASE Len(m) = Len(Work)
    BY <1>6, <2>1, <2>2 DEF HookLabels
  <2>3. CASE Len(m) # Len(Work)
    BY <1>7, <2>1, <2>3, WorkFacts DEF HookLabels
  <2> QED BY <2>2, <2>3
<1> HIDE DEF label
<1> QED BY <1>1, <1>2, <1>4, <1>6, <1>8, HookAt, HookMoves

LEMMA CommitAndPushErrorKeeps ==
  ASSUME EndInv, NEW h \in Hooks, CommitAndPushError(h)
  PROVE  EndInv'
<1>1. /\ hpc[h] = "push" /\ hpc' = [hpc EXCEPT ![h] = "upload"]
      /\ remote' \in {remote, remote \cup {Current(h)}}
      /\ UNCHANGED <<graceOver, git, blobs, manifest, poolVars, resumeVars>>
  BY DEF CommitAndPushError
<1>2. late' \in [Hooks -> BOOLEAN]
  BY DEF CommitAndPushError, EndInv, EndTypeOK
<1>3. remote \subseteq remote' /\ remote' \in SUBSET Repos
  BY <1>1, HookAt
<1>4. git[h] \in Manifests /\ BackedBy(git[h], remote', blobs') /\ Len(git[h]) < Len(Work)
  BY <1>1, <1>3, HookAt, BackedStays
<1>5. "upload" \in HookLabels
  BY DEF HookLabels
<1> QED BY <1>1, <1>2, <1>3, <1>4, <1>5, HookAt, HookMoves

(* An upload replaces a diff only by one of a repository with its key. *)
LEMMA UploadKeeps ==
  ASSUME EndInv, NEW h \in Hooks, Upload(h)
  PROVE  EndInv'
<1> DEFINE r == Work[Len(git[h]) + 1]
           m == Append(git[h], [repo |-> r, uncommitted |-> TRUE])
           label == AfterUpload(h)
<1>1. /\ hpc[h] = "upload" /\ hpc' = [hpc EXCEPT ![h] = label]
      /\ UNCHANGED <<graceOver, late, remote, manifest, poolVars, resumeVars>>
  BY DEF Upload
<1>2. git' = [git EXCEPT ![h] = m]
  BY DEF Upload, Record, Current
<1>3. /\ git[h] \in Manifests /\ Len(git[h]) < Len(Work) /\ r \in Repos
      /\ blobs \in [Keys -> Repos \cup {None}] /\ late \in [Hooks -> BOOLEAN]
      /\ BackedBy(git[h], remote, blobs)
      /\ blobs' = [blobs EXCEPT ![BlobKey(r)] = r]
  BY <1>1, HookAt DEF Upload
<1>4. /\ blobs' \in [Keys -> Repos \cup {None}] /\ blobs'[BlobKey(r)] \in SameKey(r)
      /\ \A q \in Repos : blobs[BlobKey(q)] \in SameKey(q) => blobs'[BlobKey(q)] \in SameKey(q)
  <2>1. BlobKey(r) \in Keys /\ r \in SameKey(r) /\ \A q \in Repos : BlobKey(q) \in Keys
    BY <1>3, WorkFacts
  <2> HIDE DEF r
  <2>2. /\ blobs' \in [Keys -> Repos \cup {None}] /\ blobs'[BlobKey(r)] = r
        /\ \A k \in Keys : k # BlobKey(r) => blobs'[k] = blobs[k]
    BY <1>3, <2>1
  <2>3. ASSUME NEW q \in Repos, blobs[BlobKey(q)] \in SameKey(q)
        PROVE  blobs'[BlobKey(q)] \in SameKey(q)
    <3>1. CASE BlobKey(q) = BlobKey(r)
      <4>1. r \in SameKey(q)
        BY <1>3, <3>1 DEF SameKey
      <4> QED BY <2>2, <3>1, <4>1
    <3>2. CASE BlobKey(q) # BlobKey(r)
      BY <2>1, <2>2, <2>3, <3>2
    <3> QED BY <3>1, <3>2
  <2> QED BY <2>1, <2>2, <2>3
<1>5. BackedBy(git[h], remote', blobs')
  BY <1>1, <1>3, <1>4, BackedStays
<1>6. /\ m \in Manifests /\ Len(m) = Len(git[h]) + 1
      /\ BackedBy(m, remote', blobs') /\ Complete(m)
  BY <1>3, <1>4, <1>5, BackedGrows
<1>7. Len(m) \in Nat /\ Len(m) <= Len(Work)
  BY <1>6, ManifestFacts
<1> HIDE DEF m
<1>8. /\ label \in HookLabels /\ label # "idle"
      /\ label \in {"push", "upload"} => Len(m) < Len(Work)
  <2>1. label = "emit" \/ (label = "push" /\ Len(m) # Len(Work))
    <3>1. After(Len(git[h]) + 1) = IF Len(m) = Len(Work) THEN "emit" ELSE "push"
      BY <1>6 DEF After
    <3> QED BY <3>1 DEF AfterUpload
  <2> QED BY <1>7, <2>1, WorkFacts DEF HookLabels
<1> HIDE DEF label
<1> QED BY <1>1, <1>2, <1>4, <1>6, <1>8, HookAt, HookMoves

LEMMA HookEndsKeeps ==
  ASSUME EndInv, NEW h \in Hooks,
         UploadError(h) \/ SaveManifest(h) \/ SaveManifestError(h)
  PROVE  EndInv'
<1>1. /\ hpc' = [hpc EXCEPT ![h] = "done"] \/ hpc' = [hpc EXCEPT ![h] = "failed"]
      /\ UNCHANGED <<graceOver, late, git, remote, blobs, poolVars, resumeVars>>
      /\ manifest' = manifest \/ (hpc[h] = "emit" /\ manifest' = git[h])
  BY DEF UploadError, SaveManifest, SaveManifestError
<1>2. manifest' = manifest \/ (manifest' = git[h] /\ Complete(git[h]))
  BY <1>1, HookAt
<1>3. "done" \in HookLabels /\ "failed" \in HookLabels
  BY DEF HookLabels
<1>4. CASE hpc' = [hpc EXCEPT ![h] = "done"]
  BY <1>1, <1>2, <1>3, <1>4, HookAt, HookMoves
<1>5. CASE hpc' = [hpc EXCEPT ![h] = "failed"]
  BY <1>1, <1>2, <1>3, <1>5, HookAt, HookMoves
<1> QED BY <1>1, <1>4, <1>5

-----------------------------------------------------------------------------
(* The resumer's steps. *)

(* The last index of a set of indices of a sequence. *)
LEMMA LastIndex ==
  ASSUME NEW n \in Nat, NEW S \in SUBSET (1..n), S # {}
  PROVE  \E i \in S : \A j \in S : j <= i
<1> DEFINE T == {n - v : v \in S}
           Less == OpToRel(<, Nat)
<1>1. T \subseteq Nat /\ T # {}
  <2>1. \A v \in S : v \in 1..n
    OBVIOUS
  <2>2. T \subseteq Nat
    BY <2>1
  <2>3. T # {}
    OBVIOUS
  <2> QED BY <2>2, <2>3
<1>2. IsWellFoundedOn(Less, Nat)
  BY NatLessThanWellFounded
<1>3. \E x \in T : \A y \in T : ~(<<y, x>> \in Less)
  <2> HIDE DEF T, Less
  <2> QED BY <1>1, <1>2, WFMin
<1>4. PICK x \in T : \A y \in T : ~(<<y, x>> \in Less)
  BY <1>3
<1>5. PICK i \in S : x = n - i
  OBVIOUS
<1>6. ASSUME NEW j \in S
      PROVE  j <= i
  <2>1. n - j \in T
    OBVIOUS
  <2>2. ~(<<n - j, n - i>> \in Less)
    BY <1>4, <1>5, <2>1
  <2>3. n - j \in Nat /\ n - i \in Nat
    OBVIOUS
  <2>4. ~(n - j < n - i)
    BY <2>2, <2>3 DEF OpToRel
  <2> QED BY <2>4
<1> QED BY <1>6

(* The diff in a plan is stored for a repository that its manifest calls   *)
(* uncommitted or for one with its key, or there is none.                  *)
LEMMA LastOfSaved ==
  ASSUME NEW m \in Manifests, BackedBy(m, remote, blobs), NEW fetched \in SUBSET Saved(m)
  PROVE  \/ LastOf(m, fetched) = None
         \/ fetched # {} /\ \E r \in Saved(m) : LastOf(m, fetched) \in SameKey(r)
<1> DEFINE at == {i \in DOMAIN m : m[i].repo \in fetched}
<1>1. CASE at = {}
  BY <1>1 DEF LastOf
<1>2. CASE at # {}
  <2> DEFINE k == CHOOSE i \in at : \A j \in at : j <= i
  <2>1. at \in SUBSET (1..Len(m)) /\ Len(m) \in Nat
    BY ManifestFacts
  <2>2. \E i \in at : \A j \in at : j <= i
    <3> HIDE DEF at
    <3> QED BY <1>2, <2>1, LastIndex
  <2>3. k \in at
    <3> HIDE DEF at
    <3> QED BY <2>2
  <2>4. LastOf(m, fetched) = blobs[BlobKey(m[k].repo)]
    BY <1>2 DEF LastOf
  <2>5. k \in DOMAIN m /\ m[k].repo \in Saved(m) /\ fetched # {}
    BY <2>3
  <2> HIDE DEF k
  <2>6. PICK i \in DOMAIN m : m[i].uncommitted /\ m[i].repo = m[k].repo
    BY <2>5 DEF Saved
  <2>7. blobs[BlobKey(m[i].repo)] \in SameKey(m[i].repo)
    BY <2>6 DEF BackedBy
  <2> QED BY <2>4, <2>5, <2>6, <2>7
<1> QED BY <1>1, <1>2

LEMMA SavedRepos ==
  ASSUME NEW m \in Manifests
  PROVE  Saved(m) \subseteq Repos /\ Pushed(m) \subseteq Repos
BY ManifestFacts DEF Saved, Pushed

RsLabels == {"idle", "verify", "acquire", "done", "failed"}

(* A step of a resume that leaves the hooks and the pool alone. *)
LEMMA ResumeMoves ==
  ASSUME EndInv, NEW c \in Acquirers, NEW label \in RsLabels, NEW m \in Manifests,
         NEW w \in SUBSET Repos, NEW d \in Repos \cup {None},
         rs' = [rs EXCEPT ![c] = label], view' = [view EXCEPT ![c] = m],
         warned' = [warned EXCEPT ![c] = w], recovery' = [recovery EXCEPT ![c] = d],
         BackedBy(m, remote, blobs),
         label = "done" =>
           /\ c \in WithDiffs => Saved(m) \subseteq w
           /\ d # None => c \in WithDiffs /\ \E r \in Saved(m) : d \in SameKey(r),
         UNCHANGED <<poolVars, hookVars>>
  PROVE  EndInv'
<1>1. /\ rs \in [Acquirers -> RsLabels] /\ view \in [Acquirers -> Manifests]
      /\ warned \in [Acquirers -> SUBSET Repos] /\ recovery \in [Acquirers -> Repos \cup {None}]
      /\ EndTypeOK
  BY DEF EndInv, EndTypeOK, RsLabels
<1>2. /\ rs'[c] = label /\ view'[c] = m /\ warned'[c] = w /\ recovery'[c] = d
      /\ \A b \in Acquirers : b # c =>
           rs'[b] = rs[b] /\ view'[b] = view[b] /\ warned'[b] = warned[b] /\ recovery'[b] = recovery[b]
      /\ rs' \in [Acquirers -> RsLabels] /\ view' \in [Acquirers -> Manifests]
      /\ warned' \in [Acquirers -> SUBSET Repos] /\ recovery' \in [Acquirers -> Repos \cup {None}]
  BY <1>1
<1>3. /\ UNCHANGED <<now, pool, pods, owner, apc, apod, rpc, left, rpod, doomed>>
      /\ UNCHANGED <<hpc, graceOver, late, git, remote, blobs, manifest>>
  BY DEF poolVars, hookVars, acquireVars, replenishVars
<1>4. EndTypeOK'
  <2>1. PoolTypeOK'
    BY <1>1, <1>3 DEF EndTypeOK, PoolTypeOK
  <2> QED BY <1>1, <1>2, <1>3, <2>1 DEF EndTypeOK, RsLabels
<1>5. HooksBacked' /\ ManifestBacked'
  BY <1>3 DEF EndInv, HooksBacked, ManifestBacked
<1>6. ViewsBacked'
  BY <1>2, <1>3 DEF EndInv, ViewsBacked
<1>7. PlanIsSound'
  BY <1>2 DEF EndInv, PlanIsSound, Saved
<1> QED BY <1>4, <1>5, <1>6, <1>7 DEF EndInv

LEMMA ResumeAt ==
  ASSUME EndInv, NEW c \in Acquirers
  PROVE  /\ view[c] \in Manifests /\ warned[c] \in SUBSET Repos /\ recovery[c] \in Repos \cup {None}
         /\ BackedBy(view[c], remote, blobs)
         /\ view' = view => view' = [view EXCEPT ![c] = view[c]]
         /\ warned' = warned => warned' = [warned EXCEPT ![c] = warned[c]]
         /\ recovery' = recovery => recovery' = [recovery EXCEPT ![c] = recovery[c]]
BY DEF EndInv, EndTypeOK, ViewsBacked

LEMMA ResumeStepKeeps ==
  ASSUME EndInv, NEW c \in Acquirers,
         \/ ResumeLookup(c) \/ ResumeRefused(c) \/ VerifyBranches(c)
         \/ ResumeForkError(c) \/ Hydrate(c)
  PROVE  EndInv'
<1>1. /\ view[c] \in Manifests /\ warned[c] \in SUBSET Repos /\ recovery[c] \in Repos \cup {None}
      /\ BackedBy(view[c], remote, blobs)
      /\ view' = view => view' = [view EXCEPT ![c] = view[c]]
      /\ warned' = warned => warned' = [warned EXCEPT ![c] = warned[c]]
      /\ recovery' = recovery => recovery' = [recovery EXCEPT ![c] = recovery[c]]
  BY ResumeAt
<1>2. RsLabels = {"idle", "verify", "acquire", "done", "failed"}
  BY DEF RsLabels
<1>3. CASE ResumeLookup(c)
  <2>1. manifest \in Manifests /\ BackedBy(manifest, remote, blobs)
    BY <1>3 DEF ResumeLookup, EndInv, EndTypeOK, ManifestBacked
  <2>2. /\ rs' = [rs EXCEPT ![c] = "verify"] /\ view' = [view EXCEPT ![c] = manifest]
        /\ UNCHANGED <<warned, recovery, poolVars, hookVars>>
    BY <1>3 DEF ResumeLookup
  <2>3. /\ warned' = [warned EXCEPT ![c] = warned[c]]
        /\ recovery' = [recovery EXCEPT ![c] = recovery[c]]
        /\ warned[c] \in SUBSET Repos /\ recovery[c] \in Repos \cup {None}
    BY <1>1, <2>2
  <2>4. "verify" \in RsLabels /\ "verify" # "done"
    BY <1>2
  <2> QED BY <2>1, <2>2, <2>3, <2>4, ResumeMoves
<1>4. CASE ResumeRefused(c) \/ ResumeForkError(c)
  <2>1. /\ rs' = [rs EXCEPT ![c] = "failed"]
        /\ UNCHANGED <<view, warned, recovery, poolVars, hookVars>>
    BY <1>4 DEF ResumeRefused, ResumeForkError
  <2> QED BY <1>1, <1>2, <2>1, ResumeMoves
<1>5. CASE VerifyBranches(c)
  <2>1. PICK troubled \in SUBSET Pushed(view[c]) : warned' = [warned EXCEPT ![c] = troubled]
    BY <1>5 DEF VerifyBranches
  <2>2. troubled \in SUBSET Repos
    BY <1>1, SavedRepos
  <2>3. /\ rs' = [rs EXCEPT ![c] = "acquire"]
        /\ UNCHANGED <<view, recovery, poolVars, hookVars>>
    BY <1>5 DEF VerifyBranches
  <2> QED BY <1>1, <1>2, <2>1, <2>2, <2>3, ResumeMoves
<1>6. CASE Hydrate(c)
  <2>1. PICK fetched \in SUBSET Fetches(c) :
          /\ recovery' = [recovery EXCEPT ![c] = LastOf(view[c], fetched)]
          /\ warned' = [warned EXCEPT ![c] = @ \cup Fetches(c)]
    BY <1>6 DEF Hydrate
  <2> DEFINE d == LastOf(view[c], fetched)
             w == warned[c] \cup Fetches(c)
  <2>2. /\ Fetches(c) \subseteq Saved(view[c]) /\ (c \in WithDiffs => Fetches(c) = Saved(view[c]))
        /\ c \notin WithDiffs => fetched = {}
    BY DEF Fetches
  <2>3. d = None \/ (c \in WithDiffs /\ \E r \in Saved(view[c]) : d \in SameKey(r))
    BY <1>1, <2>2, LastOfSaved
  <2>4. /\ d \in Repos \cup {None} /\ w \in SUBSET Repos
        /\ c \in WithDiffs => Saved(view[c]) \subseteq w
    BY <1>1, <2>2, <2>3, SavedRepos DEF SameKey
  <2>5. recovery' = [recovery EXCEPT ![c] = d] /\ warned' = [warned EXCEPT ![c] = w]
    BY <2>1
  <2>6. rs' = [rs EXCEPT ![c] = "done"] /\ UNCHANGED <<view, poolVars, hookVars>>
    BY <1>6 DEF Hydrate
  <2> HIDE DEF d, w
  <2> QED BY <1>1, <1>2, <2>3, <2>4, <2>5, <2>6, ResumeMoves
<1> QED BY <1>3, <1>4, <1>5, <1>6

LEMMA PoolMoves ==
  ASSUME EndInv, PoolTypeOK', UNCHANGED <<hookVars, resumeVars>>
  PROVE  EndInv'
<1>1. /\ UNCHANGED <<hpc, graceOver, late, git, remote, blobs, manifest>>
      /\ UNCHANGED <<rs, view, warned, recovery>>
  BY DEF hookVars, resumeVars
<1>2. EndTypeOK'
  BY <1>1 DEF EndInv, EndTypeOK
<1>3. HooksBacked' /\ ManifestBacked' /\ ViewsBacked'
  BY <1>1 DEF EndInv, HooksBacked, ManifestBacked, ViewsBacked
<1>4. PlanIsSound'
  BY <1>1 DEF EndInv, PlanIsSound, Saved
<1> QED BY <1>2, <1>3, <1>4 DEF EndInv

-----------------------------------------------------------------------------
(* The pool within the whole. *)

LEMMA PoolInvStep == PoolInv /\ [EndNext]_endVars => PoolInv'
<1> SUFFICES ASSUME PoolInv, [EndNext]_endVars PROVE PoolInv'
  OBVIOUS
<1>1. CASE UNCHANGED poolVars
  <2>1. /\ now' \in 0..MaxTime
        /\ UNCHANGED <<pool, pods, owner, acquireVars, replenishVars, doomed>>
    BY <1>1 DEF poolVars, PoolInv, PoolTypeOK
  <2> QED BY <2>1, TickKeepsPool
<1>2. ASSUME NEW h \in Hooks, HookStep(h) PROVE UNCHANGED poolVars
  BY <1>2 DEF HookStep, HookStart, GraceEnds, CommitAndPush, CommitAndPushError, Upload,
              UploadError, SaveManifest, SaveManifestError
<1>3. ASSUME NEW c \in Acquirers, ResumeStep(c) PROVE PoolInv'
  <2>1. CASE ResumeAcquire(c)
    BY <2>1, PoolInvAcquire DEF ResumeAcquire
  <2>2. CASE ResumeLookup(c) \/ ResumeRefused(c) \/ VerifyBranches(c) \/ ResumeForkError(c) \/ Hydrate(c)
    <3>1. UNCHANGED poolVars
      BY <2>2 DEF ResumeLookup, ResumeRefused, VerifyBranches, ResumeForkError, Hydrate
    <3> QED BY <1>1, <3>1
  <2> QED BY <1>3, <2>1, <2>2 DEF ResumeStep
<1>4. CASE PoolStep
  BY <1>4, PoolInvKeeping DEF PoolStep
<1>5. CASE UNCHANGED endVars
  BY <1>1, <1>5 DEF endVars
<1> QED BY <1>1, <1>2, <1>3, <1>4, <1>5 DEF EndNext

LEMMA PoolInvariance == EndSpec => []PoolInv
<1>1. EndInit => PoolInv
  BY PoolInvInit DEF EndInit
<1> QED BY <1>1, PoolInvStep, PTL DEF EndSpec

LEMMA EndInvInit == EndInit => EndInv
<1> SUFFICES ASSUME EndInit PROVE EndInv
  OBVIOUS
<1>1. PoolTypeOK
  BY PoolInvInit DEF EndInit, PoolInv
<1>2. EndTypeOK
  BY <1>1, EmptyManifest DEF EndInit, EndTypeOK
<1>3. HooksBacked
  BY EmptyManifest DEF EndInit, HooksBacked
<1>4. ManifestBacked /\ ViewsBacked
  BY EmptyManifest DEF EndInit, ManifestBacked, ViewsBacked
<1>5. PlanIsSound
  BY DEF EndInit, PlanIsSound
<1> QED BY <1>2, <1>3, <1>4, <1>5 DEF EndInv

LEMMA EndInvStep ==
  ASSUME EndInv, PoolInv, [EndNext]_endVars
  PROVE  EndInv'
<1>1. PoolTypeOK'
  BY PoolInvStep DEF PoolInv
<1>2. ASSUME NEW h \in Hooks, HookStep(h) PROVE EndInv'
  BY <1>2, HookStartKeeps, GraceEndsKeeps, CommitAndPushKeeps, CommitAndPushErrorKeeps,
     UploadKeeps, HookEndsKeeps DEF HookStep
<1>3. ASSUME NEW c \in Acquirers, ResumeStep(c) PROVE EndInv'
  BY <1>1, <1>3, PoolMoves, ResumeStepKeeps DEF ResumeStep, ResumeAcquire
<1>4. CASE PoolStep
  BY <1>1, <1>4, PoolMoves DEF PoolStep
<1>5. CASE UNCHANGED endVars
  BY <1>1, <1>5, PoolMoves DEF endVars
<1> QED BY <1>2, <1>3, <1>4, <1>5 DEF EndNext

LEMMA EndInvariance == EndSpec => []EndInv
<1>1. EndInv /\ PoolInv /\ [EndNext]_endVars => EndInv'
  BY EndInvStep
<1> QED BY <1>1, EndInvInit, PoolInvariance, PTL DEF EndSpec

-----------------------------------------------------------------------------
(* Theorems about the pool, the hook and the resumer. *)

(* A pod is in one place at a time, what is pooled has been neither        *)
(* promoted nor destroyed, and what an Acquire returned is promoted to its *)
(* session, for any number of Acquire and Replenish calls beside ScaleDown *)
(* (pool.go): the mutex is released before every call of the Forker, but   *)
(* whoever takes a pod out of the pool keeps it.                           *)
THEOREM PodsStayApart == EndSpec => []OnePlace
<1>1. PoolInv => OnePlace
  <2> SUFFICES ASSUME PoolInv PROVE OnePlace
    OBVIOUS
  <2>1. \A i, j \in DOMAIN pool : pool[i].pod = pool[j].pod => i = j
    BY DEF PoolInv, PodInv, Apart
  <2>2. \A a, b \in Acquirers : apod[a] = apod[b] => a = b \/ apod[a] = None
    BY DEF PoolInv, PodInv, Apart
  <2>3. {pool[i].pod : i \in DOMAIN pool} \cap
          (({apod[a] : a \in Acquirers} \ {None}) \cup ({rpod[r] : r \in Replenishers} \ {None})
             \cup {doomed[i] : i \in DOMAIN doomed}) = {}
    BY DEF PoolInv, PodInv, Apart
  <2>4. ({apod[a] : a \in Acquirers} \ {None}) \cap
          (({rpod[r] : r \in Replenishers} \ {None}) \cup {doomed[i] : i \in DOMAIN doomed}) = {}
    BY DEF PoolInv, PodInv, Apart
  <2>5. \A p \in {pool[i].pod : i \in DOMAIN pool} : pods[p] = "forked"
    BY DEF PoolInv, PodInv, PodsExist
  <2>6. \A a \in Acquirers : apc[a] = "ok" =>
          apod[a] # None /\ pods[apod[a]] = "promoted" /\ owner[apod[a]] = a
    BY DEF PoolInv, PodInv, AcquiresHold
  <2> QED BY <2>1, <2>2, <2>3, <2>4, <2>5, <2>6 DEF OnePlace
<1> QED BY <1>1, PoolInvariance, PTL

(* Concurrent Replenish calls exceed the per-key cap by no more than one   *)
(* cap for each further caller: a call owes at most the cap less what was  *)
(* pooled when it started, and every pod it appends was owed.              *)
THEOREM PoolStaysBounded == EndSpec => []PoolBounded
<1>1. PoolInv => PoolBounded
  <2> SUFFICES ASSUME PoolInv PROVE PoolBounded
    OBVIOUS
  <2>1. IsFiniteSet(Owed) /\ Cardinality(Owed) \in Nat
    BY PlacesFinite, FS_Subset, FS_CardinalityType DEF Owed
  <2>2. Len(pool) \in Nat
    BY DEF PoolInv, PoolTypeOK
  <2>3. Len(pool) <= Cardinality(Places)
    BY <2>1, <2>2, PlacesFinite DEF PoolInv, OwedFits
  <2> QED BY <2>3, PlacesFinite DEF PoolBounded
<1> QED BY <1>1, PoolInvariance, PTL

(* The stored manifest can be resumed from as far as it goes, for any      *)
(* number of overlapping hooks and repositories, also where sanitize gives *)
(* two of them one blob key, and whatever pushes, uploads and saves fail   *)
(* (hook.go Run, emit, sanitize).                                          *)
THEOREM ManifestsRecover == EndSpec => []ManifestRecoverable
<1>1. EndInv => ManifestRecoverable
  BY DEF EndInv, ManifestBacked, ManifestRecoverable, Backed, BackedBy, Pushed, Saved
<1> QED BY <1>1, EndInvariance, PTL

(* A plan hides no uncommitted work of its manifest from a Resumer with a  *)
(* DiffFetcher, and its diff is one stored for that work, for any number   *)
(* of concurrent resumes and hooks (resume.go).                            *)
THEOREM PlansAreSound == EndSpec => []PlanIsSound
<1>1. EndInv => PlanIsSound
  BY DEF EndInv
<1> QED BY <1>1, EndInvariance, PTL

=============================================================================
