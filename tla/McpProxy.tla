------------------------------- MODULE McpProxy -------------------------------
(***************************************************************************)
(* Connections to MCP servers (internal/mcpproxy/proxy.go): one per user   *)
(* and server, dialled outside the manager's mutex and cached until        *)
(* CloseAll.  Calls run at the same time.  A call of a tool first lists    *)
(* the tools that the caller may see, then looks for its connection again. *)
(*                                                                         *)
(* The name of a server or a tool is the sequence of its parts between     *)
(* "__", so that namespaced names, and their ambiguity, are what they are  *)
(* in the code.                                                            *)
(***************************************************************************)
EXTENDS Integers, Sequences

CONSTANTS
  Calls,        \* concurrent calls
  Users,        \* callers (of one organisation)
  Servers,      \* names of MCP servers
  Tools,        \* bare names of tools
  Grants,       \* Authz.Grants: user -> set of scopes <<server, tool>>
  NoSession,    \* no connection
  MaxDials      \* bound on the connections ever dialled

ASSUME McpProxyAssumption ==
  /\ MaxDials \in Nat
  /\ NoSession \notin 1..MaxDials
  /\ Grants \in [Users -> SUBSET (Servers \X Tools)]

VARIABLES
  conns,    \* Manager.conns: <<user, server>> -> session
  dialled,  \* the sessions so far: sequence of [user, server, open]
  allowed,  \* the servers that the org patterns let "mcp.call" through to
  pc,       \* call -> next step
  req,      \* call -> [user, server, tool]: its arguments; tool <<>> if it only lists
  sess,     \* call -> the session it holds
  listed    \* call -> its tool was found visible

vars == <<conns, dialled, allowed, pc, req, sess, listed>>

(* Namespace and its inverse, which takes the first part for the server.   *)
Namespace(server, tool) == server \o tool

SplitNamespace(name) ==
  IF Len(name) < 2 THEN [ok |-> FALSE, server |-> <<>>, tool |-> <<>>]
  ELSE [ok |-> TRUE, server |-> <<Head(name)>>, tool |-> Tail(name)]

Names == {Namespace(s, t) : s \in Servers, t \in Tools}

ConnKeys == Users \X Servers
Labels == {"idle", "lookup", "dial", "store", "list", "rpc"}
Requests == [user : Users, server : Servers,
             tool : {SplitNamespace(n).tool : n \in Names} \cup {<<>>}]
NoRequest == [user |-> "none", server |-> <<>>, tool |-> <<>>]

Sessions == 1..Len(dialled)

TypeOK ==
  /\ conns \in [ConnKeys -> 1..MaxDials \cup {NoSession}]
  /\ dialled \in Seq([user : Users, server : Servers, open : BOOLEAN])
  /\ Len(dialled) <= MaxDials
  /\ allowed \subseteq Servers
  /\ pc \in [Calls -> Labels]
  /\ req \in [Calls -> Requests \cup {NoRequest}]
  /\ sess \in [Calls -> 1..MaxDials \cup {NoSession}]
  /\ listed \in [Calls -> BOOLEAN]

Init ==
  /\ conns = [k \in ConnKeys |-> NoSession]
  /\ dialled = <<>>
  /\ allowed = {}
  /\ pc = [c \in Calls |-> "idle"]
  /\ req = [c \in Calls |-> NoRequest]
  /\ sess = [c \in Calls |-> NoSession]
  /\ listed = [c \in Calls |-> FALSE]

-----------------------------------------------------------------------------
(* connKey of a call. *)
connKey_ByServer(c) == <<CHOOSE u \in Users : TRUE, req[c].server>>

connKey(c) == <<req[c].user, req[c].server>>

(* policy.Can for "mcp.call": the org patterns and the caller's grants.    *)
OrgAllows(server) == server \in allowed

Can(user, server, tool) == OrgAllows(server) /\ <<server, tool>> \in Grants[user]

Goto(c, label) == pc' = [pc EXCEPT ![c] = label]

Return(c) ==
  /\ Goto(c, "idle")
  /\ req' = [req EXCEPT ![c] = NoRequest]
  /\ sess' = [sess EXCEPT ![c] = NoSession]
  /\ listed' = [listed EXCEPT ![c] = FALSE]

Close(s) == [dialled EXCEPT ![s].open = FALSE]

-----------------------------------------------------------------------------
(* A run asks for the tools it may see. *)
ExposedTools(c) ==
  /\ pc[c] = "idle"
  /\ \E u \in Users, s \in Servers :
       req' = [req EXCEPT ![c] = [user |-> u, server |-> s, tool |-> <<>>]]
  /\ Goto(c, "lookup")
  /\ UNCHANGED <<conns, dialled, allowed, sess, listed>>

(* A run calls a tool by its namespaced name; a name that does not split   *)
(* into the server it is sent to is refused at once.                       *)
Call(c) ==
  /\ pc[c] = "idle"
  /\ \E u \in Users, s \in Servers, n \in Names :
       LET split == SplitNamespace(n)
       IN /\ split.ok /\ split.server = s
          /\ req' = [req EXCEPT ![c] = [user |-> u, server |-> s, tool |-> split.tool]]
  /\ Goto(c, "lookup")
  /\ UNCHANGED <<conns, dialled, allowed, sess, listed>>

(* sessionFor: a cached connection, or a dial without the mutex.  It is    *)
(* called before the tools are listed and again before the tool is called. *)
Lookup(c) ==
  /\ pc[c] = "lookup"
  /\ IF conns[connKey(c)] = NoSession
     THEN Goto(c, "dial") /\ UNCHANGED sess
     ELSE /\ sess' = [sess EXCEPT ![c] = conns[connKey(c)]]
          /\ Goto(c, IF listed[c] THEN "rpc" ELSE "list")
  /\ UNCHANGED <<conns, dialled, allowed, req, listed>>

Dial(c) ==
  /\ pc[c] = "dial"
  /\ Len(dialled) < MaxDials
  /\ dialled' = Append(dialled, [user |-> req[c].user, server |-> req[c].server, open |-> TRUE])
  /\ sess' = [sess EXCEPT ![c] = Len(dialled) + 1]
  /\ Goto(c, "store")
  /\ UNCHANGED <<conns, allowed, req, listed>>

(* Another dial may have been faster: its connection is used, and the new  *)
(* one is closed.                                                          *)
Store_Overwrites(c) ==
  /\ pc[c] = "store"
  /\ conns' = [conns EXCEPT ![connKey(c)] = sess[c]]
  /\ Goto(c, IF listed[c] THEN "rpc" ELSE "list")
  /\ UNCHANGED <<dialled, allowed, req, sess, listed>>

Store(c) ==
  /\ pc[c] = "store"
  /\ IF conns[connKey(c)] # NoSession
     THEN /\ dialled' = Close(sess[c])
          /\ sess' = [sess EXCEPT ![c] = conns[connKey(c)]]
          /\ UNCHANGED conns
     ELSE /\ conns' = [conns EXCEPT ![connKey(c)] = sess[c]]
          /\ UNCHANGED <<dialled, sess>>
  /\ Goto(c, IF listed[c] THEN "rpc" ELSE "list")
  /\ UNCHANGED <<allowed, req, listed>>

(* ListTools: what the server offers, cut down to what the caller may use. *)
(* Call goes on if its tool is among them.                                 *)
ListTools(c) ==
  /\ pc[c] = "list"
  /\ dialled[sess[c]].open
  /\ req[c].tool # <<>>
  /\ Can(req[c].user, req[c].server, req[c].tool)
  /\ listed' = [listed EXCEPT ![c] = TRUE]
  /\ Goto(c, "lookup")
  /\ UNCHANGED <<conns, dialled, allowed, req, sess>>

(* The end of a call: the list or the result, an unknown tool, a failed    *)
(* dial or RPC (on a closed connection, or by the timeout), a result that  *)
(* is too large or no JSON.  The connection stays cached.                  *)
Ends(c) ==
  /\ pc[c] \in {"dial", "list", "rpc"}
  /\ Return(c)
  /\ UNCHANGED <<conns, dialled, allowed>>

(* CloseAll, at the end of a session, under the mutex. *)
CloseAll ==
  /\ \E k \in ConnKeys : conns[k] # NoSession
  /\ dialled' = [s \in Sessions |->
                   IF \E k \in ConnKeys : conns[k] = s
                   THEN [dialled[s] EXCEPT !.open = FALSE] ELSE dialled[s]]
  /\ conns' = [k \in ConnKeys |-> NoSession]
  /\ UNCHANGED <<allowed, pc, req, sess, listed>>

SetOrgPatterns ==
  /\ \E S \in SUBSET Servers : S # allowed /\ allowed' = S
  /\ UNCHANGED <<conns, dialled, pc, req, sess, listed>>

Next ==
  \/ \E c \in Calls :
       \/ ExposedTools(c) \/ Call(c) \/ Lookup(c) \/ Dial(c) \/ Store(c)
       \/ ListTools(c) \/ Ends(c)
  \/ CloseAll
  \/ SetOrgPatterns

Spec == Init /\ [][Next]_vars

-----------------------------------------------------------------------------
(* Properties. *)

(* No connection is lost: every open one is cached under the user and      *)
(* server it was dialled for, where CloseAll will find it, or in the hands *)
(* of the one call that is about to cache it, however dials and CloseAll   *)
(* overlap (proxy.go 71-102).                                              *)
ConnectionsAccounted ==
  \A s \in Sessions : dialled[s].open =>
    \/ conns[<<dialled[s].user, dialled[s].server>>] = s
    \/ \E c \in Calls : pc[c] = "store" /\ sess[c] = s

(* Users never share a connection: whatever a call lists or calls goes     *)
(* over a connection dialled for its own user and server, and a tool is    *)
(* called only with a scope for that tool on that server, although the     *)
(* connection may have been replaced since the tools were listed           *)
(* (proxy.go 1-4, 80-102, 138-168).                                        *)
CallsStayWithUser ==
  \A c \in Calls :
    /\ pc[c] \in {"store", "list", "rpc"} =>
         dialled[sess[c]].user = req[c].user /\ dialled[sess[c]].server = req[c].server
    /\ pc[c] = "rpc" => <<req[c].server, req[c].tool>> \in Grants[req[c].user]

=============================================================================
