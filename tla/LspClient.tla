------------------------------ MODULE LspClient ------------------------------
(***************************************************************************)
(* The language server client of lsp/client.ts: the server process it      *)
(* starts, restarts and forgets, the requests it has in flight, each with  *)
(* its own timer, and the files it believes the server has open.           *)
(*                                                                         *)
(* A process is the number of its spawn.  What a request says is its kind: *)
(* "initialize", "open" (trackFile, which remembers the file once the      *)
(* answer is there) and "ask" (every other request, the notifications      *)
(* included: they are sent with an id and wait for an answer too).         *)
(* Operations carry the prefix Lsp so that the module can be explored next *)
(* to McpBridge.                                                           *)
(***************************************************************************)
EXTENDS Naturals, FiniteSets

CONSTANTS
  Files,       \* files the tools read
  MaxAttempts, \* 3: maxReconnectAttempts
  MaxStarts,   \* bound on the processes started
  MaxRequests  \* bound on the requests sent

ASSUME LspAssumption ==
  MaxAttempts \in Nat /\ MaxStarts \in Nat \ {0} /\ MaxRequests \in Nat \ {0}

NoProc == 0
NoFile == "no file"
Ids == 1..MaxRequests
Requests == [id : Ids, to : 1..MaxStarts, kind : {"initialize", "open", "ask"},
             file : Files \cup {NoFile}]

VARIABLES
  proc,      \* this.proc
  live,      \* processes that run, known to the client or not
  starts,    \* processes started
  reqId,     \* id of the last request
  pending,   \* requests the client waits for
  clocks,    \* ids whose 15 s timer runs
  waiting,   \* ids whose caller waits
  asked,     \* requests at a server
  wire,      \* answers a server wrote that the client has not read
  opened,    \* pairs of a process and a file it answered to have opened
  openFiles, \* this.openFiles
  ready,     \* this.initialized
  attempts,  \* this.reconnectAttempts
  reconnects, \* reconnect timers that run
  buffer,    \* what this.buffer holds: nothing, half a message, or one it cannot get past
  closing    \* shutdown(): "no", "soon" while the 500 ms run, "done"

lspVars == <<proc, live, starts, reqId, pending, clocks, waiting, asked, wire,
             opened, openFiles, ready, attempts, reconnects, buffer, closing>>

LspTypeOK ==
  /\ proc \in 0..MaxStarts /\ live \subseteq 1..MaxStarts
  /\ starts \in 0..MaxStarts
  /\ reqId \in 0..MaxRequests
  /\ pending \subseteq Requests /\ asked \subseteq Requests /\ wire \subseteq Requests
  /\ clocks \subseteq Ids /\ waiting \subseteq Ids
  /\ opened \subseteq (1..MaxStarts) \X Files /\ openFiles \subseteq Files
  /\ ready \in BOOLEAN /\ attempts \in 0..MaxAttempts /\ reconnects \in Nat
  /\ buffer \in {"empty", "torn", "stuck"} /\ closing \in {"no", "soon", "done"}

LspInit ==
  /\ proc = NoProc /\ live = {} /\ starts = 0 /\ reqId = 0
  /\ pending = {} /\ clocks = {} /\ waiting = {} /\ asked = {} /\ wire = {}
  /\ opened = {} /\ openFiles = {} /\ ready = FALSE /\ attempts = 0
  /\ reconnects = 0 /\ buffer = "empty" /\ closing = "no"

-----------------------------------------------------------------------------
IsAvailable == ready /\ proc \in live

Request(id, to, kind, file) == [id |-> id, to |-> to, kind |-> kind, file |-> file]

\* The request with the next id goes out and its timer starts.
Send(to, kind, file) ==
  LET r == Request(reqId + 1, to, kind, file) IN
  /\ reqId' = reqId + 1
  /\ pending' = pending \cup {r}
  /\ clocks' = clocks \cup {r.id}
  /\ waiting' = waiting \cup {r.id}
  /\ asked' = asked \cup {r}

Forgotten == {}

\* Mutant: the callers of the requests that are dropped are not told.
Untold == waiting
Told == {}

\* cleanup(): the handle goes, the process does not, and every request is rejected.
Cleanup ==
  /\ proc' = NoProc /\ ready' = FALSE
  /\ openFiles' = Forgotten
  /\ pending' = {} /\ clocks' = {} /\ waiting' = Told

\* start() with no server running: a process that comes up is asked to initialize,
\* one that cannot be started is cleaned up at once.
Spawn(up) ==
  /\ starts < MaxStarts /\ reqId < MaxRequests
  /\ starts' = starts + 1
  /\ \/ /\ up
        /\ proc' = starts + 1 /\ live' = live \cup {starts + 1}
        /\ Send(starts + 1, "initialize", NoFile)
        /\ UNCHANGED <<openFiles, ready>>
     \/ /\ ~up
        /\ Cleanup
        /\ UNCHANGED <<live, reqId, asked>>

LspStart(up) ==
  /\ proc \notin live
  /\ Spawn(up)

Boot ==
  /\ starts = 0
  /\ \E up \in BOOLEAN : LspStart(up)
  /\ UNCHANGED <<wire, opened, attempts, reconnects, buffer, closing>>

\* A reconnect timer: at least a second, so never before the cleanup of a shutdown
\* that it was set after.
Reconnect ==
  /\ reconnects > 0 /\ closing # "soon"
  /\ reconnects' = reconnects - 1
  /\ \/ \E up \in BOOLEAN : LspStart(up)
     \/ /\ proc \in live
        /\ UNCHANGED <<proc, live, starts, reqId, pending, clocks, waiting, asked,
                       openFiles, ready>>
  /\ UNCHANGED <<wire, opened, attempts, buffer, closing>>

TrackFile(f) ==
  /\ IsAvailable /\ f \notin openFiles /\ reqId < MaxRequests
  /\ Send(proc, "open", f)
  /\ UNCHANGED <<proc, live, starts, wire, opened, openFiles, ready, attempts,
                 reconnects, buffer, closing>>

\* hover, definition, references, notifyChange and refreshDiagnostics
AskServer ==
  /\ IsAvailable /\ reqId < MaxRequests
  /\ Send(proc, "ask", NoFile)
  /\ UNCHANGED <<proc, live, starts, wire, opened, openFiles, ready, attempts,
                 reconnects, buffer, closing>>

-----------------------------------------------------------------------------
(* The server *)

Answer(r) ==
  /\ r \in asked /\ r.to \in live
  /\ asked' = asked \ {r} /\ wire' = wire \cup {r}
  /\ opened' = IF r.kind = "open" THEN opened \cup {<<r.to, r.file>>} ELSE opened
  /\ UNCHANGED <<proc, live, starts, reqId, pending, clocks, waiting, openFiles,
                 ready, attempts, reconnects, buffer, closing>>

Retries(code) == code # 0 /\ attempts < MaxAttempts

\* A process ends, in the middle of a message or not.  The handler cleans up whichever
\* server is current; answers already written can still be read.
Exit(p, code, torn) ==
  /\ p \in live
  /\ live' = live \ {p}
  /\ Cleanup
  /\ IF Retries(code)
       THEN /\ attempts' = IF attempts < MaxAttempts THEN attempts + 1 ELSE attempts
            /\ reconnects' = reconnects + 1
       ELSE UNCHANGED <<attempts, reconnects>>
  /\ asked' = {r \in asked : r.to # p}
  /\ buffer' = IF torn /\ buffer = "empty" THEN "torn" ELSE buffer
  /\ UNCHANGED <<starts, reqId, wire, opened, closing>>

-----------------------------------------------------------------------------
(* Reading *)

Resolve(r) ==
  /\ pending' = pending \ {r} /\ clocks' = clocks \ {r.id} /\ waiting' = waiting \ {r.id}
  /\ openFiles' = IF r.kind = "open" THEN openFiles \cup {r.file} ELSE openFiles

\* The answer to initialize: the client is ready and says so, with one more request.
Initialized(r) ==
  /\ r.kind = "initialize" /\ reqId < MaxRequests
  /\ LET n == Request(reqId + 1, proc, "ask", NoFile) IN
     /\ reqId' = n.id /\ pending' = (pending \ {r}) \cup {n}
     /\ clocks' = (clocks \ {r.id}) \cup {n.id}
     /\ waiting' = (waiting \ {r.id}) \cup {n.id}
     /\ asked' = asked \cup {n}
  /\ ready' = TRUE /\ attempts' = 0
  /\ UNCHANGED <<proc, openFiles>>

\* Mutant: a server that refuses to initialize is tried again at once.
TriedAgain == reconnects + 1
GivenUp == reconnects

\* initialize was refused, or its timer fired: cleanup(), with the process left running.
NotInitialized ==
  /\ Cleanup
  /\ reconnects' = GivenUp

Read(r, refused) ==
  /\ r \in wire /\ buffer = "empty"
  /\ wire' = wire \ {r}
  /\ \/ /\ r \in pending
        /\ \/ refused /\ r.kind = "initialize" /\ NotInitialized
              /\ UNCHANGED <<reqId, asked, attempts>>
           \/ ~refused /\ Initialized(r) /\ UNCHANGED reconnects
           \/ ~refused /\ r.kind # "initialize" /\ Resolve(r)
              /\ UNCHANGED <<proc, ready, reqId, asked, attempts, reconnects>>
     \/ /\ r \notin pending /\ ~refused
        /\ UNCHANGED <<proc, ready, reqId, pending, clocks, waiting, asked, openFiles,
                       attempts, reconnects>>
  /\ UNCHANGED <<live, starts, opened, buffer, closing>>

\* What follows half a message is taken for its rest, and the buffer no longer starts
\* with a header: nothing is read any more.
ReadPastTear(r) ==
  /\ r \in wire /\ buffer # "empty"
  /\ wire' = wire \ {r} /\ buffer' = "stuck"
  /\ UNCHANGED <<proc, live, starts, reqId, pending, clocks, waiting, asked, opened,
                 openFiles, ready, attempts, reconnects, closing>>

\* A message whose bytes outnumber its characters: the length of the header is bytes,
\* the length of the buffer characters, so the message takes the start of the next.
ReadWide ==
  /\ live # {} /\ buffer = "empty"
  /\ buffer' = "torn"
  /\ UNCHANGED <<proc, live, starts, reqId, pending, clocks, waiting, asked, wire,
                 opened, openFiles, ready, attempts, reconnects, closing>>

TimeOut(r) ==
  /\ r \in pending /\ r.id \in clocks
  /\ \/ r.kind = "initialize" /\ NotInitialized
     \/ /\ r.kind # "initialize"
        /\ pending' = pending \ {r} /\ clocks' = clocks \ {r.id}
        /\ waiting' = waiting \ {r.id}
        /\ UNCHANGED <<proc, ready, openFiles, reconnects>>
  /\ UNCHANGED <<live, starts, reqId, asked, wire, opened, attempts, buffer, closing>>

\* shutdown(): "shutdown" and "exit" are one request here; nothing kills the process.
Shutdown ==
  /\ closing = "no" /\ starts > 0
  /\ IF proc = NoProc
       THEN closing' = "done" /\ UNCHANGED <<reqId, pending, clocks, waiting, asked>>
       ELSE /\ reqId < MaxRequests /\ closing' = "soon"
            /\ Send(proc, "ask", NoFile)
  /\ UNCHANGED <<proc, live, starts, wire, opened, openFiles, ready, attempts,
                 reconnects, buffer>>

ShutdownEnds ==
  /\ closing = "soon" /\ closing' = "done"
  /\ Cleanup
  /\ UNCHANGED <<live, starts, reqId, asked, wire, opened, attempts, reconnects,
                 buffer>>

LspNext ==
  \/ Boot \/ Reconnect \/ AskServer \/ Shutdown \/ ShutdownEnds \/ ReadWide
  \/ \E f \in Files : TrackFile(f)
  \/ \E r \in asked : Answer(r)
  \/ \E p \in live, code \in {0, 1}, torn \in BOOLEAN : Exit(p, code, torn)
  \/ \E r \in wire : ReadPastTear(r) \/ \E refused \in BOOLEAN : Read(r, refused)
  \/ \E r \in pending : TimeOut(r)

\* Timers fire: node runs what is due.  A server owes the client nothing.
LspFairness ==
  /\ WF_lspVars(\E r \in pending : TimeOut(r))
  /\ WF_lspVars(ShutdownEnds)

-----------------------------------------------------------------------------
\* Two language servers never run at once, although cleanup() forgets processes that
\* still run: every restart waits for the exit of the process before it. And a file
\* marked as open was opened by the server that is current: otherwise trackFile would
\* skip it and a server restarted since would never hear of it.
OneServerInStep ==
  /\ Cardinality(live) <= 1
  /\ \A f \in openFiles : <<proc, f>> \in opened

\* Every call of the client returns: answered, rejected or timed out.
LspCallsSettle == \A id \in Ids : id \in waiting ~> id \notin waiting

\* "Auto-reconnect if not explicitly shut down": no server is started afterwards.
ShutdownIsFinal == [][closing = "done" => starts' = starts]_lspVars
=============================================================================
