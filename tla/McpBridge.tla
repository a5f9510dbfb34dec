------------------------------ MODULE McpBridge ------------------------------
(***************************************************************************)
(* The MCP servers of a session: bootstrapMCP (mcp/bridge.ts) connects     *)
(* them one after the other and asks each for its tools before the program *)
(* starts; afterwards the tools of a server are called by the agent loop,  *)
(* several at a time, each under the tool timeout of the loop.             *)
(*                                                                         *)
(* tools/mcp.ts keeps one pendingResolve per server and gives it whatever  *)
(* answer comes next.  A call is "initialize", "list" or a member of       *)
(* Calls; an answer is the call it answers.                                *)
(***************************************************************************)
EXTENDS Naturals, Sequences, FiniteSets

CONSTANTS
  Servers,  \* the enabled servers, a sequence
  Calls     \* calls of tools the loop makes

Names == {Servers[i] : i \in DOMAIN Servers}

ASSUME McpAssumption ==
  "initialize" \notin Calls /\ "list" \notin Calls /\ Servers \in Seq(Names)

Nobody == "nobody"
Startup == {"initialize", "list"}

VARIABLES
  at,        \* which server bootstrapMCP is at; beyond the last: the program runs
  step,      \* what it waits for: "spawn", "initialize" or "list"
  up,        \* servers that run
  slot,      \* pendingResolve of each server: the call it belongs to
  todo,      \* calls a server has not answered
  answered,  \* answers a server wrote that the client has not read
  connected, \* servers whose state says connected
  failed,    \* servers reported as failed
  tools,     \* what the tools of each server were read from
  state,     \* each call of the loop: "idle", "running" or what it ended with
  target     \* the server each call of the loop goes to

mcpVars == <<at, step, up, slot, todo, answered, connected, failed, tools, state, target>>

McpTypeOK ==
  /\ at \in 1..Len(Servers) + 1 /\ step \in {"spawn", "initialize", "list"}
  /\ up \subseteq Names /\ connected \subseteq Names /\ failed \subseteq Names
  /\ slot \in [Names -> Startup \cup Calls \cup {Nobody}]
  /\ todo \in [Names -> SUBSET (Startup \cup Calls)]
  /\ answered \in [Names -> SUBSET (Startup \cup Calls)]
  /\ tools \in [Names -> Startup \cup Calls \cup {Nobody}]
  /\ state \in [Calls -> Startup \cup Calls \cup {"idle", "running", "timed out"}]
  /\ target \in [Calls -> Names]

McpInit ==
  /\ at = 1 /\ step = "spawn" /\ up = {} /\ connected = {} /\ failed = {}
  /\ slot = [s \in Names |-> Nobody] /\ todo = [s \in Names |-> {}]
  /\ answered = [s \in Names |-> {}] /\ tools = [s \in Names |-> Nobody]
  /\ state = [c \in Calls |-> "idle"] /\ target \in [Calls -> Names]

-----------------------------------------------------------------------------
Starting == at <= Len(Servers)
Current == Servers[at]

\* _send: the call takes the slot, whoever held it.  What is written to a server that
\* has gone is never answered.
McpSend(s, call) ==
  /\ slot' = [slot EXCEPT ![s] = call]
  /\ todo' = IF s \in up THEN [todo EXCEPT ![s] = @ \cup {call}] ELSE todo

NextServer == at' = at + 1 /\ step' = "spawn"

GiveUp ==
  /\ failed' = failed \cup {Current} /\ NextServer
  /\ UNCHANGED <<slot, todo>>

Connect(ok) ==
  /\ Starting /\ step = "spawn"
  /\ \/ /\ ok /\ up' = up \cup {Current} /\ step' = "initialize" /\ at' = at
        /\ slot' = [slot EXCEPT ![Current] = "initialize"]
        /\ todo' = [todo EXCEPT ![Current] = @ \cup {"initialize"}]
        /\ UNCHANGED failed
     \/ /\ ~ok /\ failed' = failed \cup {Current} /\ NextServer
        /\ UNCHANGED <<slot, todo, up>>
  /\ UNCHANGED <<answered, connected, tools, state, target>>

\* withTimeout around connect(); the server is left running and its answer may still come.
ConnectTimesOut ==
  /\ Starting /\ step = "initialize"
  /\ GiveUp
  /\ UNCHANGED <<up, answered, connected, tools, state, target>>

Released(s) == [slot EXCEPT ![s] = Nobody]

(* What an answer means to the call that holds the slot of server s. *)

InitializeResolved(s, refused) ==
  /\ slot[s] = "initialize"
  /\ connected' = IF refused THEN connected \ {s} ELSE connected \cup {s}
  /\ \/ /\ ~(Starting /\ step = "initialize" /\ Current = s)    \* connect() was given up
        /\ slot' = Released(s)
        /\ UNCHANGED <<at, step, todo, failed>>
     \/ /\ Starting /\ step = "initialize" /\ Current = s /\ refused
        /\ slot' = Released(s)
        /\ failed' = failed \cup {s} /\ NextServer
        /\ UNCHANGED todo
     \/ /\ Starting /\ step = "initialize" /\ Current = s /\ ~refused
        /\ McpSend(s, "list")
        /\ step' = "list" /\ UNCHANGED <<at, failed>>
  /\ UNCHANGED <<tools, state>>

\* A refusal lists no tools.
ListResolved(s, a, refused) ==
  /\ slot[s] = "list"
  /\ slot' = Released(s) /\ tools' = IF refused THEN tools ELSE [tools EXCEPT ![s] = a]
  /\ NextServer
  /\ UNCHANGED <<todo, connected, failed, state>>

\* The promise of a call that timed out is settled as well, and nobody looks.
CallResolved(s, a) ==
  /\ slot[s] \in Calls
  /\ slot' = Released(s)
  /\ state' = IF state[slot[s]] = "running" THEN [state EXCEPT ![slot[s]] = a] ELSE state
  /\ UNCHANGED <<at, step, todo, connected, failed, tools>>

Unasked(s) ==
  /\ slot[s] = Nobody
  /\ UNCHANGED <<at, step, slot, todo, connected, failed, tools, state>>

\* An answer is read: the holder of the slot gets it, whatever it answers.
McpRead(s, a, refused) ==
  /\ a \in answered[s] /\ (refused => a \in Startup)
  /\ answered' = [answered EXCEPT ![s] = @ \ {a}]
  /\ \/ InitializeResolved(s, refused)
     \/ ListResolved(s, a, refused)
     \/ CallResolved(s, a)
     \/ Unasked(s)
  /\ UNCHANGED <<up, target>>

-----------------------------------------------------------------------------
(* The servers and the agent loop *)

McpAnswer(s, a) ==
  /\ s \in up /\ a \in todo[s]
  /\ todo' = [todo EXCEPT ![s] = @ \ {a}]
  /\ answered' = [answered EXCEPT ![s] = @ \cup {a}]
  /\ UNCHANGED <<at, step, up, slot, connected, failed, tools, state, target>>

\* The handlers of "exit" and "error" know nothing of the call that waits.
McpExit(s) ==
  /\ s \in up
  /\ up' = up \ {s} /\ connected' = connected \ {s}
  /\ todo' = [todo EXCEPT ![s] = {}]
  /\ UNCHANGED <<at, step, slot, answered, failed, tools, state, target>>

CallTool(c) ==
  /\ ~Starting /\ state[c] = "idle" /\ tools[target[c]] # Nobody
  /\ state' = [state EXCEPT ![c] = "running"]
  /\ McpSend(target[c], c)
  /\ UNCHANGED <<at, step, up, answered, connected, failed, tools, target>>

\* withToolTimeout of the loop: the call is given up, the slot is not.
CallTimesOut(c) ==
  /\ state[c] = "running"
  /\ state' = [state EXCEPT ![c] = "timed out"]
  /\ UNCHANGED <<at, step, up, slot, todo, answered, connected, failed, tools, target>>

McpNext ==
  \/ ConnectTimesOut \/ \E ok \in BOOLEAN : Connect(ok)
  \/ \E s \in Names : McpExit(s)
  \/ \E s \in Names : \E a \in todo[s] : McpAnswer(s, a)
  \/ \E s \in Names : \E a \in answered[s], refused \in BOOLEAN : McpRead(s, a, refused)
  \/ \E c \in Calls : CallTool(c) \/ CallTimesOut(c)

\* The program's own steps and a server that runs go on; a server may end at any time.
McpFairness ==
  /\ WF_mcpVars(ConnectTimesOut) /\ WF_mcpVars(\E ok \in BOOLEAN : Connect(ok))
  /\ WF_mcpVars(\E s \in Names : \E a \in todo[s] : McpAnswer(s, a))
  /\ WF_mcpVars(\E s \in Names : \E a \in answered[s], refused \in BOOLEAN :
                   McpRead(s, a, refused))

-----------------------------------------------------------------------------
\* "Crash of one doesn't affect others or the main loop": whatever the servers do, the
\* program gets to start.
StartupEnds == <>(at > Len(Servers))
=============================================================================
