----------------------------- MODULE McpHarness ------------------------------
(***************************************************************************)
(* The Harness (harness.go) and its MCP clients (mcp/client.go): calls of  *)
(* InitMCPClients, which open a session with each server, discover its     *)
(* tools and register them all or none; Close, which ends the sessions;    *)
(* and, at the same time, RegisterTool and CreateAgentWithTools.           *)
(*                                                                         *)
(* A step is a critical section, or a request with its answer; a session   *)
(* is a number.  The wire format of MCP is left out, and so are servers    *)
(* without sessions.                                                       *)
(***************************************************************************)
EXTENDS Naturals, Sequences, SequencesExt, FiniteSets

CONSTANTS
    Clients,   \* the MCP clients in the order of their names
    ToolsOf,   \* the tools of each server
    Discovered,\* the tools of all servers, one server after the other
    Inits,     \* calls of InitMCPClients
    Closers,   \* calls of Harness.Close
    Users,     \* calls of RegisterTool
    UserTool,  \* the tool of each
    Makers,    \* calls of CreateAgentWithTools, all for one name
    MakerTool, \* the tool of each
    None

Names == ToSet(Clients)
Tools == ToSet(Discovered) \cup {UserTool[u] : u \in Users}

ASSUME McpAssumption ==
    /\ Clients \in Seq(Names) /\ IsInjective(Clients) /\ Clients # <<>>
    /\ Discovered \in Seq(Tools) /\ ToSet(Discovered) = UNION {ToolsOf[c] : c \in Names}
    /\ \A m \in Makers : MakerTool[m] \in Tools
    /\ IsFiniteSet(Inits)
    /\ Inits \cap (Closers \cup Users \cup Makers) = {} /\ Closers \cap (Users \cup Makers) = {}
    /\ Users \cap Makers = {} /\ None \notin Inits \cup Users \cup Makers

VARIABLES
    pc,           \* where each call stands
    at,           \* the index of the client that it is at
    held,         \* the session that it has at hand
    registered,   \* the tools that a call of InitMCPClients has registered
    locked,       \* Client.initializeMu: its holder
    session,      \* Client.sessionID
    initialized,  \* Client.initialized
    open,         \* external: the sessions that each server has open
    issued,       \* number of sessions that it has opened
    tools,        \* Registry.tools: who registered each
    agent,        \* Harness.agents: who made the agent of the name
    overlapped,   \* history: clients that were closed during an Initialize
    dropped       \* history: sessions that a failed request left to the server

call == <<pc, at, held, registered>>
client == <<locked, session, initialized>>
server == <<open, issued>>
history == <<overlapped, dropped>>
vars == <<call, client, server, tools, agent, history>>

Callers == Inits \cup Closers \cup Users \cup Makers

\* Sessions by which the counter of a server is bounded.
MaxSessions == Cardinality(Inits)

Session == 0..MaxSessions  \* 0: none

Places == {"idle", "initialize", "send", "install", "notify", "declare", "list", "discover",
           "register", "rollback", "read", "clear", "delete", "checked", "ok", "failed"}

TypeOK ==
    /\ pc \in [Callers -> Places]
    /\ at \in [Callers -> DOMAIN Clients]
    /\ held \in [Callers -> Session]
    /\ registered \in [Inits -> Seq(Tools)]
    /\ locked \in [Names -> Inits \cup {None}]
    /\ session \in [Names -> Session] /\ initialized \in [Names -> BOOLEAN]
    /\ open \in [Names -> SUBSET Session] /\ issued \in [Names -> Session]
    /\ tools \in [Tools -> Inits \cup Users \cup {None}]
    /\ agent \in Makers \cup {None}
    /\ overlapped \subseteq Names /\ dropped \in [Names -> SUBSET Session]

Init ==
    /\ pc = [p \in Callers |-> "idle"]
    /\ at = [p \in Callers |-> 1]
    /\ held = [p \in Callers |-> 0]
    /\ registered = [i \in Inits |-> <<>>]
    /\ locked = [c \in Names |-> None]
    /\ session = [c \in Names |-> 0]
    /\ initialized = [c \in Names |-> FALSE]
    /\ open = [c \in Names |-> {}] /\ issued = [c \in Names |-> 0]
    /\ tools = [x \in Tools |-> None]
    /\ agent = None
    /\ overlapped = {} /\ dropped = [c \in Names |-> {}]

At(p) == Clients[at[p]]

Goes(p, here, there) == pc[p] = here /\ pc' = [pc EXCEPT ![p] = there]

\* On to the next client, if there is one.
Advances(p, here, again, after) ==
    IF at[p] < Len(Clients)
    THEN Goes(p, here, again) /\ at' = [at EXCEPT ![p] = @ + 1]
    ELSE Goes(p, here, after) /\ UNCHANGED at

-----------------------------------------------------------------------------
(* Client.Initialize *)

Start(i) ==
    /\ Goes(i, "idle", "initialize")
    /\ UNCHANGED <<at, held, registered, client, server, tools, agent, history>>

\* A plausible bug: a second Initialize does not look whether it is needed.
InitializedInVain(c) == FALSE

Needless(c) == initialized[c]

\* initializeMu is held until Initialize returns.
Lock(i) ==
    /\ pc[i] = "initialize" /\ locked[At(i)] = None
    /\ \/ /\ Needless(At(i))
          /\ Goes(i, "initialize", "list")
          /\ UNCHANGED <<locked, overlapped>>
       \/ /\ ~Needless(At(i))
          /\ Goes(i, "initialize", "send")
          /\ locked' = [locked EXCEPT ![At(i)] = i]
          /\ overlapped' = IF \E p \in Closers : pc[p] = "clear" /\ At(p) = At(i)
                           THEN overlapped \cup {At(i)} ELSE overlapped
    /\ UNCHANGED <<at, held, registered, session, initialized, server, tools, agent, dropped>>

Fails(i, here) == Goes(i, here, "failed") /\ locked' = [locked EXCEPT ![At(i)] = None]

\* The server answers the request, and opens a session for it.
Opens(c) ==
    /\ issued[c] < MaxSessions
    /\ issued' = [issued EXCEPT ![c] = @ + 1]
    /\ open' = [open EXCEPT ![c] = @ \cup {issued'[c]}]

SendInitialize(i) ==
    /\ Goes(i, "send", "install")
    /\ Opens(At(i))
    /\ held' = [held EXCEPT ![i] = issued'[At(i)]]
    /\ UNCHANGED <<at, registered, client, tools, agent, history>>

\* Its answer is of no use: it is cut off, malformed, for another request, an
\* error, or of an unknown version.  The session stays with the server.
AnswerUseless(i) ==
    /\ Fails(i, "send")
    /\ Opens(At(i))
    /\ dropped' = [dropped EXCEPT ![At(i)] = @ \cup {issued'[At(i)]}]
    /\ UNCHANGED <<at, held, registered, session, initialized, tools, agent, overlapped>>

\* The server is not reached.
Unreached(i) ==
    /\ Fails(i, "send")
    /\ UNCHANGED <<at, held, registered, session, initialized, server, tools, agent, history>>

Install(i) ==
    /\ Goes(i, "install", "notify")
    /\ session' = [session EXCEPT ![At(i)] = held[i]]
    /\ UNCHANGED <<at, held, registered, locked, initialized, server, tools, agent, history>>

Notified(i) ==
    /\ Goes(i, "notify", "declare")
    /\ UNCHANGED <<at, held, registered, client, server, tools, agent, history>>

Cleared(c) == session' = [session EXCEPT ![c] = 0] /\ initialized' = [initialized EXCEPT ![c] = FALSE]

\* The session is forgotten, and the server is not told.
NotNotified(i) ==
    /\ Fails(i, "notify")
    /\ Cleared(At(i))
    /\ dropped' = [dropped EXCEPT ![At(i)] = @ \cup {held[i]}]
    /\ UNCHANGED <<at, held, registered, server, tools, agent, overlapped>>

Declare(i) ==
    /\ Goes(i, "declare", "list")
    /\ initialized' = [initialized EXCEPT ![At(i)] = TRUE]
    /\ locked' = [locked EXCEPT ![At(i)] = None]
    /\ UNCHANGED <<at, held, registered, session, server, tools, agent, history>>

-----------------------------------------------------------------------------
(* Harness.InitMCPClients *)

\* ListTools of an initialized client succeeds, or fails.
List(i) ==
    /\ \/ initialized[At(i)] /\ Goes(i, "list", "discover")
       \/ Goes(i, "list", "failed")
    /\ UNCHANGED <<at, held, registered, client, server, tools, agent, history>>

\* The tools of the client are not registered yet; on to the next client.
Discover(i) ==
    /\ IF \E x \in ToolsOf[At(i)] : tools[x] # None
       THEN Goes(i, "discover", "failed") /\ UNCHANGED at
       ELSE Advances(i, "discover", "initialize", "register")
    /\ UNCHANGED <<held, registered, client, server, tools, agent, history>>

\* Registry.Register for the next tool.
Register(i) ==
    /\ pc[i] = "register"
    /\ IF Len(registered[i]) = Len(Discovered)
       THEN Goes(i, "register", "ok") /\ UNCHANGED <<registered, tools>>
       ELSE LET x == Discovered[Len(registered[i]) + 1] IN
            IF tools[x] # None
            THEN Goes(i, "register", "rollback") /\ UNCHANGED <<registered, tools>>
            ELSE /\ tools' = [tools EXCEPT ![x] = i]
                 /\ registered' = [registered EXCEPT ![i] = Append(@, x)]
                 /\ UNCHANGED pc
    /\ UNCHANGED <<at, held, client, server, agent, history>>

\* A plausible bug: no tool is unregistered.
NoRollback(i) ==
    /\ Goes(i, "rollback", "failed")
    /\ UNCHANGED <<at, held, registered, client, server, tools, agent, history>>

\* A plausible bug: all discovered tools are unregistered.
RollbackAll(i) ==
    /\ Goes(i, "rollback", "failed")
    /\ tools' = [x \in Tools |-> IF x \in ToSet(Discovered) THEN None ELSE tools[x]]
    /\ registered' = [registered EXCEPT ![i] = <<>>]
    /\ UNCHANGED <<at, held, client, server, agent, history>>

\* Registry.Unregister for the first of those that it has registered.
Rollback(i) ==
    /\ pc[i] = "rollback"
    /\ IF registered[i] = <<>>
       THEN Goes(i, "rollback", "failed") /\ UNCHANGED <<registered, tools>>
       ELSE /\ tools' = [tools EXCEPT ![Head(registered[i])] = None]
            /\ registered' = [registered EXCEPT ![i] = Tail(@)]
            /\ UNCHANGED pc
    /\ UNCHANGED <<at, held, client, server, agent, history>>

-----------------------------------------------------------------------------
(* Harness.Close: Client.Close for each client *)

Overlaps(c) == overlapped' = IF locked[c] # None THEN overlapped \cup {c} ELSE overlapped

StartClose(p) ==
    /\ Goes(p, "idle", "read")
    /\ UNCHANGED <<at, held, registered, client, server, tools, agent, history>>

ReadState(p) ==
    /\ Goes(p, "read", "clear")
    /\ held' = [held EXCEPT ![p] = session[At(p)]]
    /\ Overlaps(At(p))
    /\ UNCHANGED <<at, registered, client, server, tools, agent, dropped>>

Clear(p) ==
    /\ Goes(p, "clear", "delete")
    /\ Cleared(At(p))
    /\ Overlaps(At(p))
    /\ UNCHANGED <<at, held, registered, locked, server, tools, agent, dropped>>

NextClient(p) == Advances(p, "delete", "read", "ok")

\* The DELETE of the session that was read, if there was one.
Delete(p) ==
    /\ NextClient(p)
    /\ open' = [open EXCEPT ![At(p)] = @ \ {held[p]}]
    /\ UNCHANGED <<held, registered, client, issued, tools, agent, history>>

\* It fails, or the server does not allow it.
NotDeleted(p) ==
    /\ held[p] # 0
    /\ NextClient(p)
    /\ dropped' = [dropped EXCEPT ![At(p)] = @ \cup {held[p]}]
    /\ UNCHANGED <<held, registered, client, server, tools, agent, overlapped>>

-----------------------------------------------------------------------------
(* RegisterTool and CreateAgentWithTools *)

RegisterTool(u) ==
    /\ IF tools[UserTool[u]] = None
       THEN Goes(u, "idle", "ok") /\ tools' = [tools EXCEPT ![UserTool[u]] = u]
       ELSE Goes(u, "idle", "failed") /\ UNCHANGED tools
    /\ UNCHANGED <<at, held, registered, client, server, agent, history>>

CheckTools(m) ==
    /\ Goes(m, "idle", IF tools[MakerTool[m]] # None THEN "checked" ELSE "failed")
    /\ UNCHANGED <<at, held, registered, client, server, tools, agent, history>>

\* The name is looked up and taken under the lock of the Harness.
RegisterAgent(m) ==
    /\ IF agent = None
       THEN Goes(m, "checked", "ok") /\ agent' = m
       ELSE Goes(m, "checked", "failed") /\ UNCHANGED agent
    /\ UNCHANGED <<at, held, registered, client, server, tools, history>>

-----------------------------------------------------------------------------

Next ==
    \/ \E i \in Inits :
        \/ Start(i) \/ Lock(i) \/ SendInitialize(i) \/ AnswerUseless(i) \/ Unreached(i) \/ Install(i)
        \/ Notified(i) \/ NotNotified(i) \/ Declare(i) \/ List(i) \/ Discover(i) \/ Register(i) \/ Rollback(i)
    \/ \E p \in Closers : StartClose(p) \/ ReadState(p) \/ Clear(p) \/ Delete(p) \/ NotDeleted(p)
    \/ \E u \in Users : RegisterTool(u)
    \/ \E m \in Makers : CheckTools(m) \/ RegisterAgent(m)

Spec == Init /\ [][Next]_vars

-----------------------------------------------------------------------------
(* Properties *)

\* The sessions of client c that some call has at hand.
InHand(c) ==
    {held[p] : p \in {q \in Inits : pc[q] \in {"install", "notify"} /\ At(q) = c}
                        \cup {q \in Closers : pc[q] \in {"clear", "delete"} /\ At(q) = c}}

\* Comment of Client.Close (mcp/client.go:429): it "terminates a stateful
\* Streamable HTTP session when the server issued one".  A session that a
\* server keeps open is known to its client, which can end it, unless a request
\* about it failed; and a client that says it is initialized has an open one.
\* Both may fail for a client that is closed while it is being initialized.
SessionKept ==
    \A c \in Names \ overlapped :
        /\ open[c] \subseteq {session[c]} \cup InHand(c) \cup dropped[c]
        /\ initialized[c] => session[c] \in open[c]

\* InitMCPClients registers the tools of all clients, or none: whatever other
\* calls register in the meantime.
AllOrNothing ==
    \A i \in Inits :
        /\ pc[i] = "ok" => \A x \in ToSet(Discovered) : tools[x] = i
        /\ pc[i] = "failed" => \A x \in Tools : tools[x] # i

\* What a call has registered with success stays: the rollback of another call
\* does not remove it, and no other agent takes the name.
RegistrationsStay ==
    [][/\ \A x \in Tools : tools[x] # None /\ pc[tools[x]] = "ok" => tools'[x] = tools[x]
       /\ agent # None => agent' = agent]_vars

=============================================================================
