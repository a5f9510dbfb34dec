--------------------------- MODULE ServicesProofs ---------------------------
(***************************************************************************)
(* Proofs about what the program talks to: the language server client, the *)
(* MCP bridge, the stream of a provider, the choice of a model and the     *)
(* registry, for any number of files, servers, calls, restarts, providers  *)
(* and models.                                                             *)
(***************************************************************************)
EXTENDS MCServices, FiniteSetTheorems, WellFoundedInduction, TLAPS

----------------------------------------------------------------------------
(* The language server client.  A reconnect timer runs only while no       *)
(* process does, because only an exit sets one; and whoever the client     *)
(* knows runs, so that what it waits for was asked of that process.        *)

LspInv ==
  /\ proc \in Nat /\ live \subseteq Nat /\ starts \in Nat /\ reconnects \in Nat
  /\ live \subseteq 1..starts
  /\ live = {} \/ (reconnects = 0 /\ \E p \in live : live = {p})
  /\ reconnects \in {0, 1}
  /\ starts = 0 => reconnects = 0
  /\ proc # NoProc => proc \in live
  /\ pending # {} => proc # NoProc
  /\ openFiles # {} => proc # NoProc
  /\ \A r \in pending : r.to = proc
  /\ \A r \in wire : r.kind = "open" => <<r.to, r.file>> \in opened
  /\ \A f \in openFiles : <<proc, f>> \in opened

LEMMA LspInvInit == LspInit => LspInv
BY DEF LspInit, LspInv, NoProc

(* A start, from the program or from a timer, while no process runs.       *)
LEMMA LspSpawnKeeps ==
  ASSUME LspInv, NEW ok \in BOOLEAN, LspStart(ok), live = {},
         reconnects' = 0, UNCHANGED <<wire, opened>>
  PROVE  LspInv'
<1>1. CASE ok
  <2>1. /\ starts' = starts + 1 /\ proc' = starts + 1 /\ live' = {starts + 1}
        /\ openFiles' = openFiles
    BY <1>1 DEF LspStart, Spawn
  <2>2. proc = NoProc /\ pending = {} /\ openFiles = {}
    BY DEF LspInv
  <2>3. \A r \in pending' : r.to = proc'
    BY <2>1, <2>2, <1>1 DEF LspStart, Spawn, Send, Request
  <2> QED
    BY <2>1, <2>2, <2>3 DEF LspInv, NoProc
<1>2. CASE ~ok
  BY <1>2 DEF LspStart, Spawn, Cleanup, Forgotten, LspInv, NoProc
<1> QED
  BY <1>1, <1>2

(* Whatever forgets the process forgets what it was asked.                 *)
LEMMA LspCleanupKeeps ==
  ASSUME LspInv, Cleanup, live' \subseteq live, reconnects' \in {0, 1}, starts' = starts,
         live' # {} \/ starts = 0 => reconnects' = 0, opened' = opened, wire' \subseteq wire
  PROVE  LspInv'
<1>1. live' = {} \/ (reconnects' = 0 /\ \E p \in live' : live' = {p})
  BY DEF LspInv
<1>2. proc' = 0 /\ pending' = {} /\ openFiles' = {}
  BY DEF Cleanup, Forgotten, NoProc
<1> QED
  BY <1>1, <1>2 DEF LspInv, NoProc

LEMMA LspSendKeeps ==
  ASSUME LspInv, NEW kind, NEW f, Send(proc, kind, f), proc # NoProc,
         UNCHANGED <<proc, live, starts, wire, opened, openFiles, reconnects>>
  PROVE  LspInv'
<1>1. pending' = pending \cup {[id |-> reqId + 1, to |-> proc, kind |-> kind, file |-> f]}
  BY DEF Send, Request
<1> QED
  BY <1>1 DEF LspInv

LEMMA LspInvNext == ASSUME LspInv, [LspNext]_lspVars PROVE LspInv'
<1>1. CASE Boot
  <2>1. PICK ok \in BOOLEAN : LspStart(ok)
    BY <1>1 DEF Boot
  <2>2. live = {}
    BY <1>1 DEF Boot, LspInv
  <2>3. reconnects' = 0
    BY <1>1 DEF Boot, LspInv
  <2> QED
    BY <1>1, <2>1, <2>2, <2>3, LspSpawnKeeps DEF Boot
<1>2. CASE Reconnect
  <2>1. live = {} /\ reconnects' = 0
    BY <1>2 DEF Reconnect, LspInv
  <2>2. CASE \E ok \in BOOLEAN : LspStart(ok)
    BY <1>2, <2>1, <2>2, LspSpawnKeeps DEF Reconnect
  <2>3. CASE UNCHANGED <<proc, live, starts, pending, openFiles>>
    BY <1>2, <2>1, <2>3 DEF Reconnect, LspInv
  <2> QED
    BY <1>2, <2>2, <2>3 DEF Reconnect
<1>3. CASE AskServer
  BY <1>3, LspSendKeeps DEF AskServer, IsAvailable, LspInv, NoProc
<1>4. ASSUME NEW f \in Files, TrackFile(f) PROVE LspInv'
  <2>1. proc # NoProc
    BY <1>4 DEF TrackFile, IsAvailable, LspInv, NoProc
  <2> QED
    BY <1>4, <2>1, LspSendKeeps DEF TrackFile
<1>5. ASSUME NEW r \in asked, Answer(r) PROVE LspInv'
  BY <1>5 DEF Answer, LspInv
<1>6. ASSUME NEW p \in live, NEW code \in {0, 1}, NEW torn \in BOOLEAN, Exit(p, code, torn)
      PROVE LspInv'
  <2>1. live' = {} /\ reconnects = 0
    BY <1>6 DEF Exit, LspInv
  <2>2. reconnects' \in {0, 1} /\ starts # 0
    BY <1>6, <2>1 DEF Exit, LspInv
  <2> QED
    BY <1>6, <2>1, <2>2, LspCleanupKeeps DEF Exit
<1>7. ASSUME NEW r \in wire, NEW refused \in BOOLEAN, Read(r, refused) PROVE LspInv'
  <2>1. wire' \subseteq wire /\ UNCHANGED <<live, starts, opened>>
    BY <1>7 DEF Read
  <2>2. CASE NotInitialized
    BY <2>1, <2>2, LspCleanupKeeps DEF NotInitialized, GivenUp, LspInv
  <2>3. CASE r \in pending /\ Initialized(r) /\ UNCHANGED reconnects
    BY <2>1, <2>3 DEF Initialized, Request, LspInv
  <2>4. CASE r \in pending /\ Resolve(r) /\ UNCHANGED <<proc, reconnects>>
    BY <2>1, <2>4 DEF Resolve, LspInv
  <2>5. CASE UNCHANGED <<proc, pending, openFiles, reconnects>>
    BY <2>1, <2>5 DEF LspInv
  <2> QED
    BY <1>7, <2>2, <2>3, <2>4, <2>5 DEF Read
<1>8. ASSUME NEW r \in wire, ReadPastTear(r) PROVE LspInv'
  BY <1>8 DEF ReadPastTear, LspInv
<1>9. CASE ReadWide
  BY <1>9 DEF ReadWide, LspInv
<1>10. ASSUME NEW r \in pending, TimeOut(r) PROVE LspInv'
  <2>1. CASE NotInitialized
    BY <1>10, <2>1, LspCleanupKeeps DEF TimeOut, NotInitialized, GivenUp, LspInv
  <2>2. CASE pending' \subseteq pending /\ UNCHANGED <<proc, openFiles, reconnects>>
    BY <1>10, <2>2 DEF TimeOut, LspInv
  <2> QED
    BY <1>10, <2>1, <2>2 DEF TimeOut
<1>11. CASE Shutdown
  <2>1. CASE proc = NoProc
    BY <1>11, <2>1 DEF Shutdown, LspInv
  <2>2. CASE proc # NoProc
    BY <1>11, <2>2, LspSendKeeps DEF Shutdown
  <2> QED
    BY <2>1, <2>2
<1>12. CASE ShutdownEnds
  BY <1>12, LspCleanupKeeps DEF ShutdownEnds, LspInv
<1>13. CASE UNCHANGED lspVars
  BY <1>13 DEF lspVars, LspInv
<1> QED
  BY <1>1, <1>2, <1>3, <1>4, <1>5, <1>6, <1>7, <1>8, <1>9, <1>10, <1>11, <1>12, <1>13
  DEF LspNext

(* Two language servers never run at once, and a file the client counts as *)
(* open was opened by the server it talks to (lsp/client.ts).              *)
THEOREM LspServers == LspInit /\ [][LspNext]_lspVars => []OneServerInStep
<1>1. LspInv => OneServerInStep
  <2> SUFFICES ASSUME LspInv PROVE OneServerInStep
    OBVIOUS
  <2>1. CASE live = {}
    BY <2>1, FS_EmptySet DEF LspInv, OneServerInStep
  <2>2. CASE \E p \in live : live = {p}
    <3>1. PICK p \in live : live = {p}
      BY <2>2
    <3>2. Cardinality(live) = 1
      BY <3>1, FS_Singleton
    <3> QED
      BY <3>2 DEF LspInv, OneServerInStep
  <2> QED
    BY <2>1, <2>2 DEF LspInv
<1> QED
  BY LspInvInit, LspInvNext, <1>1, PTL

(* The types: a request to open a file names one.                          *)
LspTyped ==
  /\ LspTypeOK
  /\ \A r \in pending \cup asked : r.kind = "open" => r.file \in Files

LEMMA LspTypedInit == LspInit => LspTyped
<1>1. LspInit => ready \in BOOLEAN
  BY DEF LspInit
<1> QED
  BY <1>1, LspAssumption DEF LspInit, LspTyped, LspTypeOK, NoProc

LEMMA LspCleanupTyped ==
  Cleanup => /\ proc' \in 0..MaxStarts /\ ready' \in BOOLEAN /\ openFiles' \subseteq Files
             /\ pending' = {} /\ clocks' = {} /\ waiting' = {}
<1>1. Cleanup => ready' \in BOOLEAN
  BY DEF Cleanup
<1>2. Cleanup => proc' = 0 /\ openFiles' = {} /\ pending' = {} /\ clocks' = {} /\ waiting' = {}
  BY DEF Cleanup, Forgotten, Told, NoProc
<1> QED
  BY <1>1, <1>2, LspAssumption

LEMMA LspSendTyped ==
  ASSUME LspTyped, NEW to \in 1..MaxStarts, NEW kind \in {"initialize", "open", "ask"},
         NEW f \in Files \cup {NoFile}, kind = "open" => f \in Files,
         Send(to, kind, f), reqId < MaxRequests
  PROVE  /\ reqId' \in 0..MaxRequests
         /\ pending' \subseteq Requests /\ asked' \subseteq Requests
         /\ clocks' \subseteq Ids /\ waiting' \subseteq Ids
         /\ \A r \in pending' \cup asked' : r.kind = "open" => r.file \in Files
<1> DEFINE r == [id |-> reqId + 1, to |-> to, kind |-> kind, file |-> f]
<1>1. reqId + 1 \in Ids /\ reqId + 1 \in 0..MaxRequests
  BY LspAssumption DEF LspTyped, LspTypeOK, Ids
<1>2. r \in Requests
  BY <1>1 DEF Requests
<1>3. /\ reqId' = reqId + 1 /\ pending' = pending \cup {r} /\ asked' = asked \cup {r}
      /\ clocks' = clocks \cup {reqId + 1} /\ waiting' = waiting \cup {reqId + 1}
  BY DEF Send, Request
<1>4. r.kind = "open" => r.file \in Files
  OBVIOUS
<1> HIDE DEF r
<1> QED
  BY <1>1, <1>2, <1>3, <1>4 DEF LspTyped, LspTypeOK

LEMMA LspStartTyped ==
  ASSUME LspTyped, NEW ok \in BOOLEAN, LspStart(ok), reconnects' \in Nat,
         UNCHANGED <<wire, opened, attempts, buffer, closing>>
  PROVE  LspTyped'
<1>1. starts' \in 0..MaxStarts /\ starts + 1 \in 1..MaxStarts /\ reqId < MaxRequests
  BY LspAssumption DEF LspTyped, LspTypeOK, LspStart, Spawn
<1>2. CASE ok
  <2>1. Send(starts + 1, "initialize", NoFile)
    BY <1>2 DEF LspStart, Spawn
  <2> QED
    BY <1>1, <1>2, <2>1, LspSendTyped, LspAssumption
    DEF LspStart, Spawn, LspTyped, LspTypeOK
<1>3. CASE ~ok
  BY <1>1, <1>3, LspCleanupTyped DEF LspStart, Spawn, LspTyped, LspTypeOK
<1> QED
  BY <1>2, <1>3

LEMMA LspTypedNext == ASSUME LspInv, LspTyped, [LspNext]_lspVars PROVE LspTyped'
<1> USE LspAssumption
<1>0. proc # NoProc => proc \in 1..MaxStarts
  BY DEF LspTyped, LspTypeOK, NoProc
<1>1. CASE Boot
  BY <1>1, LspStartTyped DEF Boot, LspTyped, LspTypeOK
<1>2. CASE Reconnect
  <2>1. reconnects' \in Nat
    BY <1>2 DEF Reconnect, LspTyped, LspTypeOK
  <2>2. CASE \E ok \in BOOLEAN : LspStart(ok)
    BY <1>2, <2>1, <2>2, LspStartTyped DEF Reconnect
  <2>3. CASE UNCHANGED <<proc, live, starts, reqId, pending, clocks, waiting, asked,
                         openFiles, ready>>
    BY <1>2, <2>1, <2>3 DEF Reconnect, LspTyped, LspTypeOK
  <2> QED
    BY <1>2, <2>2, <2>3 DEF Reconnect
<1>3. CASE AskServer
  <2>1. proc \in 1..MaxStarts
    BY <1>0, <1>3 DEF AskServer, IsAvailable, LspInv, LspTyped, LspTypeOK
  <2> QED
    BY <1>3, <2>1, LspSendTyped DEF AskServer, LspTyped, LspTypeOK
<1>4. ASSUME NEW f \in Files, TrackFile(f) PROVE LspTyped'
  <2>1. proc \in 1..MaxStarts
    BY <1>0, <1>4 DEF TrackFile, IsAvailable, LspInv, LspTyped, LspTypeOK
  <2> QED
    BY <1>4, <2>1, LspSendTyped DEF TrackFile, LspTyped, LspTypeOK
<1>5. ASSUME NEW r \in asked, Answer(r) PROVE LspTyped'
  <2>1. r.to \in 1..MaxStarts
    BY DEF LspTyped, LspTypeOK, Requests
  <2> QED
    BY <1>5, <2>1 DEF Answer, LspTyped, LspTypeOK
<1>6. ASSUME NEW p \in live, NEW code \in {0, 1}, NEW torn \in BOOLEAN, Exit(p, code, torn)
      PROVE LspTyped'
  <2>1. attempts' \in 0..MaxAttempts /\ reconnects' \in Nat
    BY <1>6 DEF Exit, Retries, LspTyped, LspTypeOK
  <2> QED
    BY <1>6, <2>1, LspCleanupTyped DEF Exit, LspTyped, LspTypeOK
<1>7. ASSUME NEW r \in wire, NEW refused \in BOOLEAN, Read(r, refused) PROVE LspTyped'
  <2>1. UNCHANGED <<live, starts, opened, buffer, closing>> /\ wire' \subseteq wire
    BY <1>7 DEF Read
  <2>2. CASE NotInitialized /\ UNCHANGED <<reqId, asked, attempts>>
    BY <2>1, <2>2, LspCleanupTyped DEF NotInitialized, GivenUp, LspTyped, LspTypeOK
  <2>3. CASE r \in pending /\ Initialized(r) /\ UNCHANGED reconnects
    <3> DEFINE n == [id |-> reqId + 1, to |-> proc, kind |-> "ask", file |-> NoFile]
    <3>1. n \in Requests /\ n.kind # "open" /\ reqId + 1 \in Ids /\ reqId + 1 \in 0..MaxRequests
      BY <1>0, <2>3 DEF Initialized, LspInv, LspTyped, LspTypeOK, Requests, Ids
    <3>2. /\ reqId' = reqId + 1 /\ pending' = (pending \ {r}) \cup {n}
          /\ clocks' = (clocks \ {r.id}) \cup {reqId + 1}
          /\ waiting' = (waiting \ {r.id}) \cup {reqId + 1}
          /\ asked' = asked \cup {n} /\ ready' = TRUE /\ attempts' = 0
          /\ proc' = proc /\ openFiles' = openFiles
      BY <2>3 DEF Initialized, Request
    <3> HIDE DEF n
    <3> QED
      BY <2>1, <2>3, <3>1, <3>2 DEF LspTyped, LspTypeOK
  <2>4. CASE /\ r \in pending /\ Resolve(r)
             /\ UNCHANGED <<proc, ready, reqId, asked, attempts, reconnects>>
    BY <2>1, <2>4 DEF Resolve, LspTyped, LspTypeOK
  <2>5. CASE UNCHANGED <<proc, ready, reqId, pending, clocks, waiting, asked, openFiles,
                         attempts, reconnects>>
    BY <2>1, <2>5 DEF LspTyped, LspTypeOK
  <2> QED
    BY <1>7, <2>2, <2>3, <2>4, <2>5 DEF Read
<1>8. ASSUME NEW r \in wire, ReadPastTear(r) PROVE LspTyped'
  BY <1>8 DEF ReadPastTear, LspTyped, LspTypeOK
<1>9. CASE ReadWide
  BY <1>9 DEF ReadWide, LspTyped, LspTypeOK
<1>10. ASSUME NEW r \in pending, TimeOut(r) PROVE LspTyped'
  <2>1. CASE NotInitialized
    BY <1>10, <2>1, LspCleanupTyped
    DEF TimeOut, NotInitialized, GivenUp, LspTyped, LspTypeOK
  <2>2. CASE /\ pending' \subseteq pending /\ clocks' \subseteq clocks
             /\ waiting' \subseteq waiting /\ UNCHANGED <<proc, ready, openFiles, reconnects>>
    BY <1>10, <2>2 DEF TimeOut, LspTyped, LspTypeOK
  <2> QED
    BY <1>10, <2>1, <2>2 DEF TimeOut
<1>11. CASE Shutdown
  <2>1. CASE proc = NoProc
    BY <1>11, <2>1 DEF Shutdown, LspTyped, LspTypeOK
  <2>2. CASE proc # NoProc
    BY <1>0, <1>11, <2>2, LspSendTyped DEF Shutdown, LspTyped, LspTypeOK
  <2> QED
    BY <2>1, <2>2
<1>12. CASE ShutdownEnds
  BY <1>12, LspCleanupTyped DEF ShutdownEnds, LspTyped, LspTypeOK
<1>13. CASE UNCHANGED lspVars
  BY <1>13 DEF lspVars, LspTyped, LspTypeOK
<1> QED
  BY <1>1, <1>2, <1>3, <1>4, <1>5, <1>6, <1>7, <1>8, <1>9, <1>10, <1>11, <1>12, <1>13
  DEF LspNext

(* The variables of the client keep their types.                           *)
THEOREM LspTypes == LspInit /\ [][LspNext]_lspVars => []LspTypeOK
<1>1. LspTyped => LspTypeOK
  BY DEF LspTyped
<1> QED
  BY LspInvInit, LspInvNext, LspTypedInit, LspTypedNext, <1>1, PTL

----------------------------------------------------------------------------
(* The MCP bridge.  A server that is asked for its tools is the one the    *)
(* startup is at, so that reading the list moves on by one server.         *)

McpTyped ==
  /\ McpTypeOK
  /\ \A s \in Names : slot[s] = "list" => Starting /\ Current = s /\ step = "list"

LEMMA McpTypedInit == McpInit => McpTyped
BY McpAssumption DEF McpInit, McpTyped, McpTypeOK, Startup, Nobody

LEMMA McpCurrent ==
  ASSUME McpTypeOK, Starting PROVE Current \in Names /\ at + 1 \in 1..Len(Servers) + 1
<1>1. Servers \in Seq(Names)
  BY McpAssumption
<1> DEFINE n == Len(Servers)
<1>2. n \in Nat /\ DOMAIN Servers = 1..n
  BY <1>1
<1>3. at \in 1..n + 1 /\ at <= n
  BY DEF McpTypeOK, Starting
<1> HIDE DEF n
<1>4. at \in DOMAIN Servers /\ at + 1 \in 1..n + 1
  BY <1>2, <1>3
<1> QED
  BY <1>4 DEF Names, Current, n

LEMMA McpTypedNext == ASSUME McpTyped, [McpNext]_mcpVars PROVE McpTyped'
<1> USE McpAssumption DEF McpTyped, McpTypeOK
<1>0. Starting => Current \in Names /\ at + 1 \in 1..Len(Servers) + 1
  BY McpCurrent
<1>1. CASE ConnectTimesOut
  <2>1. /\ Starting /\ step = "initialize" /\ failed' = failed \cup {Current}
        /\ at' = at + 1 /\ step' = "spawn"
        /\ UNCHANGED <<slot, todo, up, answered, connected, tools, state, target>>
    BY <1>1 DEF ConnectTimesOut, GiveUp, NextServer
  <2>2. \A s \in Names : slot[s] # "list"
    BY <2>1
  <2>3. failed' \subseteq Names /\ at' \in 1..Len(Servers) + 1
    BY <1>0, <2>1
  <2> QED
    BY <2>1, <2>2, <2>3
<1>2. ASSUME NEW ok \in BOOLEAN, Connect(ok) PROVE McpTyped'
  <2>1. CASE ok
    <3>1. /\ Starting /\ step = "spawn" /\ step' = "initialize" /\ at' = at
          /\ up' = up \cup {Current}
          /\ slot' = [slot EXCEPT ![Current] = "initialize"]
          /\ todo' = [todo EXCEPT ![Current] = @ \cup {"initialize"}]
          /\ UNCHANGED <<failed, answered, connected, tools, state, target>>
      BY <1>2, <2>1 DEF Connect
    <3>2. \A s \in Names : slot[s] # "list"
      BY <3>1
    <3>3. Current \in Names
      BY <1>0, <3>1
    <3>4. /\ slot' \in [Names -> Startup \cup Calls \cup {Nobody}]
          /\ \A s \in Names : slot'[s] # "list"
      BY <3>1, <3>2, <3>3 DEF Startup
    <3>5. todo' \in [Names -> SUBSET (Startup \cup Calls)] /\ up' \subseteq Names
      BY <3>1, <3>3 DEF Startup
    <3> QED
      BY <3>1, <3>4, <3>5
  <2>2. CASE ~ok
    <3>1. /\ Starting /\ step = "spawn" /\ failed' = failed \cup {Current}
          /\ at' = at + 1 /\ step' = "spawn"
          /\ UNCHANGED <<slot, todo, up, answered, connected, tools, state, target>>
      BY <1>2, <2>2 DEF Connect, NextServer
    <3>2. \A s \in Names : slot[s] # "list"
      BY <3>1
    <3>3. failed' \subseteq Names /\ at' \in 1..Len(Servers) + 1
      BY <1>0, <3>1
    <3> QED
      BY <3>1, <3>2, <3>3
  <2> QED
    BY <2>1, <2>2
<1>3. ASSUME NEW s \in Names, McpExit(s) PROVE McpTyped'
  <2>1. up' \subseteq Names /\ connected' \subseteq Names
    BY <1>3 DEF McpExit
  <2>2. todo' \in [Names -> SUBSET (Startup \cup Calls)]
    BY <1>3 DEF McpExit
  <2>3. UNCHANGED <<at, step, slot, answered, failed, tools, state, target>>
    BY <1>3 DEF McpExit
  <2>4. (Starting <=> Starting') /\ Current' = Current
    BY <2>3 DEF Starting, Current
  <2>5. \A t \in Names : slot'[t] = "list" => Starting' /\ Current' = t /\ step' = "list"
    BY <2>3, <2>4
  <2> QED
    BY <2>1, <2>2, <2>3, <2>5
<1>4. ASSUME NEW s \in Names, NEW a \in todo[s], McpAnswer(s, a) PROVE McpTyped'
  <2>1. a \in Startup \cup Calls
    OBVIOUS
  <2>2. /\ todo' \in [Names -> SUBSET (Startup \cup Calls)]
        /\ answered' \in [Names -> SUBSET (Startup \cup Calls)]
    BY <1>4, <2>1 DEF McpAnswer
  <2>3. UNCHANGED <<at, step, up, slot, connected, failed, tools, state, target>>
    BY <1>4 DEF McpAnswer
  <2>4. (Starting <=> Starting') /\ Current' = Current
    BY <2>3 DEF Starting, Current
  <2>5. \A t \in Names : slot'[t] = "list" => Starting' /\ Current' = t /\ step' = "list"
    BY <2>3, <2>4
  <2> QED
    BY <2>2, <2>3, <2>5
<1>5. ASSUME NEW s \in Names, NEW a \in answered[s], NEW refused \in BOOLEAN,
             McpRead(s, a, refused)
      PROVE McpTyped'
  <2>1. /\ answered' \in [Names -> SUBSET (Startup \cup Calls)]
        /\ UNCHANGED <<up, target>> /\ a \in Startup \cup Calls
    BY <1>5 DEF McpRead
  <2>2. /\ Released(s) \in [Names -> Startup \cup Calls \cup {Nobody}]
        /\ \A t \in Names : Released(s)[t] = "list" => slot[t] = "list" /\ t # s
    BY DEF Released, Nobody
  <2>3. CASE InitializeResolved(s, refused)
    <3>1. connected' \subseteq Names /\ UNCHANGED <<tools, state>> /\ slot[s] = "initialize"
      BY <2>3 DEF InitializeResolved
    <3>2. CASE slot' = Released(s) /\ UNCHANGED <<at, step, todo, failed>>
      BY <2>1, <2>2, <3>1, <3>2 DEF Starting, Current
    <3>3. CASE /\ Starting /\ step = "initialize" /\ slot' = Released(s)
               /\ failed' = failed \cup {s} /\ NextServer /\ UNCHANGED todo
      BY <1>0, <2>1, <2>2, <3>1, <3>3 DEF NextServer
    <3>4. CASE /\ Starting /\ step = "initialize" /\ Current = s /\ McpSend(s, "list")
               /\ step' = "list" /\ UNCHANGED <<at, failed>>
      <4>1. /\ slot' \in [Names -> Startup \cup Calls \cup {Nobody}]
            /\ \A t \in Names : slot'[t] = "list" => t = s
            /\ todo' \in [Names -> SUBSET (Startup \cup Calls)]
        BY <3>4 DEF McpSend, Startup
      <4> QED
        BY <2>1, <3>1, <3>4, <4>1 DEF Starting, Current
    <3> QED
      BY <2>3, <3>2, <3>3, <3>4 DEF InitializeResolved
  <2>4. CASE ListResolved(s, a, refused)
    <3>1. Starting /\ Current = s /\ tools' \in [Names -> Startup \cup Calls \cup {Nobody}]
      BY <2>1, <2>4 DEF ListResolved
    <3> QED
      BY <1>0, <2>1, <2>2, <2>4, <3>1 DEF ListResolved, NextServer
  <2>5. CASE CallResolved(s, a)
    <3>1. state' \in [Calls -> Startup \cup Calls \cup {"idle", "running", "timed out"}]
      BY <2>1, <2>5 DEF CallResolved
    <3> QED
      BY <2>1, <2>2, <2>5, <3>1 DEF CallResolved, Starting, Current
  <2>6. CASE Unasked(s)
    BY <2>1, <2>6 DEF Unasked, Starting, Current
  <2> QED
    BY <1>5, <2>3, <2>4, <2>5, <2>6 DEF McpRead
<1>6. ASSUME NEW c \in Calls, CallTool(c) PROVE McpTyped'
  <2>1. /\ slot' \in [Names -> Startup \cup Calls \cup {Nobody}]
        /\ \A t \in Names : slot'[t] = "list" => slot[t] = "list"
        /\ todo' \in [Names -> SUBSET (Startup \cup Calls)]
    BY <1>6 DEF CallTool, McpSend
  <2> QED
    BY <1>6, <2>1 DEF CallTool, Starting, Current
<1>7. ASSUME NEW c \in Calls, CallTimesOut(c) PROVE McpTyped'
  BY <1>7 DEF CallTimesOut, Starting, Current
<1>8. CASE UNCHANGED mcpVars
  BY <1>8 DEF mcpVars, Starting, Current
<1> QED
  BY <1>1, <1>2, <1>3, <1>4, <1>5, <1>6, <1>7, <1>8 DEF McpNext

(* The variables of the bridge keep their types: with any list of servers  *)
(* the startup stays in it or ends, and what a server's tools are read     *)
(* from is an answer of that server, not always the one to the question.   *)
THEOREM McpTypes == McpInit /\ [][McpNext]_mcpVars => []McpTypeOK
<1>1. McpTyped => McpTypeOK
  BY DEF McpTyped
<1> QED
  BY McpTypedInit, McpTypedNext, <1>1, PTL
-----------------------------------------------------------------------------
(* The stream of a provider.  While a stream may be retried nothing of it  *)
(* was said with the messages dialect, so what was said is of the last     *)
(* attempt; and a relay that repeats itself is kept as it is.              *)

ToolBlock == [sent : Seq(Pieces), kept : Seq(Pieces)]

KeptAsSent(calls) == \A i \in DOMAIN calls : calls[i].kept = calls[i].sent

SaidOnce ==
  dialect = "messages" =>
    /\ \A a \in 0..MaxRetries : texts[a] > 0 => a = attempt
    /\ phase \in {"connecting", "streaming", "sleeping"} /\ ~unsafe
         => \A a \in 0..MaxRetries : texts[a] = 0

StreamInv ==
  /\ dialect \in {"messages", "chat"}
  /\ relay = "snapshots" => dialect = "chat"
  /\ attempt \in 0..MaxRetries /\ texts \in [0..MaxRetries -> Nat]
  /\ unsafe \in BOOLEAN
  /\ phase \in {"connecting", "streaming", "sleeping", "answered", "stopped"}
  /\ phase = "sleeping" => ~unsafe /\ attempt < MaxRetries
  /\ batch \in Seq(ToolBlock)
  /\ relay = "snapshots" => KeptAsSent(batch)
  /\ SaidOnce
  /\ phase = "answered" => handed = batch

LEMMA StreamInvInit ==
  /\ StreamInit => StreamInv
  /\ NoRequest => StreamInv
<1>1. 0 \in 0..MaxRetries /\ [a \in 0..MaxRetries |-> 0] \in [0..MaxRetries -> Nat]
  BY StreamAssumption
<1>2. <<>> \in Seq(ToolBlock) /\ KeptAsSent(<<>>)
  BY DEF KeptAsSent
<1>3. texts = [a \in 0..MaxRetries |-> 0] => \A a \in 0..MaxRetries : texts[a] = 0
  OBVIOUS
<1>4. ASSUME StreamInit PROVE StreamInv
  <2>1. SaidOnce
    BY <1>3, <1>4 DEF StreamInit, SaidOnce
  <2>2. dialect \in {"messages", "chat"} /\ (relay = "snapshots" => dialect = "chat")
    BY <1>4 DEF StreamInit
  <2>3. attempt \in 0..MaxRetries /\ texts \in [0..MaxRetries -> Nat]
    BY <1>1, <1>4 DEF StreamInit
  <2> QED
    BY <1>2, <1>4, <2>1, <2>2, <2>3 DEF StreamInit, StreamInv
<1>5. NoRequest => StreamInv
  BY <1>1, <1>2, <1>3 DEF NoRequest, StreamInv, SaidOnce
<1> QED
  BY <1>4, <1>5

(* mergeStreamedField: a longer piece that begins with all there is so far *)
(* takes its place.                                                        *)
LEMMA SnapshotTakesPlace ==
  ASSUME NEW s \in Seq(Pieces), NEW p \in Pieces
  PROVE  Merged(s, Append(s, p)) = Append(s, p)
<1> DEFINE t == Append(s, p)
<1>1. t \in Seq(Pieces) /\ Len(t) = Len(s) + 1 /\ Len(s) \in Nat
  OBVIOUS
<1>2. Len(Reverse(t)) = Len(t) /\ Len(Reverse(s)) = Len(s)
  BY <1>1 DEF Reverse
<1>3. ~IsSuffix(t, s)
  BY <1>1, <1>2 DEF IsSuffix, IsPrefix
<1>4. SubSeq(t, 1, Len(s)) = s /\ SubSeq(s, 1, Len(s)) = s
  OBVIOUS
<1>5. IsPrefix(s, t)
  BY <1>1, <1>4 DEF IsPrefix
<1> QED
  BY <1>3, <1>5 DEF Merged

(* Where no call is broken, all of them are handed over, in their order.   *)
LEMMA NothingBroken ==
  ASSUME batch \in Seq(ToolBlock)
  PROVE  Without({}) = batch
<1> DEFINE n == Len(batch)
           upTo(i) == {j \in 1..n : j <= i}
<1>1. n \in Nat /\ DOMAIN batch = 1..n /\ DOMAIN batch \ {} = 1..n
  OBVIOUS
<1>2. Cardinality(1..n) = n
  BY <1>1, FS_Interval
<1>3. ASSUME NEW i \in 1..n PROVE Cardinality(upTo(i)) = i
  <2>1. upTo(i) = 1..i
    BY <1>1, <1>3
  <2>2. Cardinality(1..i) = i
    BY <1>1, <1>3, FS_Interval
  <2> QED
    BY <2>1, <2>2
<1>4. ASSUME NEW k \in 1..n PROVE Nth(1..n, k) = k
  <2>1. \A i \in 1..n : Cardinality(upTo(i)) = k <=> i = k
    BY <1>3
  <2>2. Nth(1..n, k) = CHOOSE i \in 1..n : Cardinality(upTo(i)) = k
    BY DEF Nth
  <2> HIDE DEF upTo
  <2> QED
    BY <2>1, <2>2
<1>5. Without({}) = [k \in 1..Cardinality(DOMAIN batch \ {}) |-> batch[Nth(DOMAIN batch \ {}, k)]]
  BY DEF Without
<1>6. Without({}) = [k \in 1..n |-> batch[k]]
  BY <1>1, <1>2, <1>4, <1>5
<1> QED
  BY <1>1, <1>6

LEMMA AskingAgainKeeps ==
  ASSUME StreamInv, NEW may, AsksAgain(may)
  PROVE  StreamInv'
<1>1. /\ <<>> \in Seq(ToolBlock) /\ KeptAsSent(<<>>)
      /\ 0 \in 0..MaxRetries /\ [a \in 0..MaxRetries |-> 0] \in [0..MaxRetries -> Nat]
  BY StreamAssumption DEF KeptAsSent
<1>2. batch' = <<>> /\ unsafe' = FALSE /\ UNCHANGED <<dialect, relay, handed>>
  BY DEF AsksAgain
<1>3. CASE may /\ turn < MaxTurns
  <2>1. phase' = "connecting" /\ attempt' = 0 /\ texts' = [a \in 0..MaxRetries |-> 0]
    BY <1>3 DEF AsksAgain
  <2>2. \A a \in 0..MaxRetries : texts'[a] = 0
    BY <2>1
  <2>3. SaidOnce'
    BY <2>2 DEF SaidOnce
  <2> QED
    BY <1>1, <1>2, <2>1, <2>3 DEF StreamInv
<1>4. CASE ~(may /\ turn < MaxTurns)
  BY <1>1, <1>2, <1>4 DEF AsksAgain, StreamInv, SaidOnce
<1> QED
  BY <1>3, <1>4

LEMMA ArgumentsKeep ==
  ASSUME StreamInv, NEW i \in 1..MaxToolCalls, NEW p \in Pieces, SendsArguments(i, p)
  PROVE  StreamInv'
<1>0. batch \in Seq(ToolBlock) /\ i \in DOMAIN batch
  BY DEF StreamInv, SendsArguments
<1>a. batch[i] \in ToolBlock
  BY <1>0
<1>1. /\ batch \in Seq(ToolBlock) /\ i \in DOMAIN batch /\ batch[i] \in ToolBlock
      /\ batch[i].sent \in Seq(Pieces) /\ batch[i].kept \in Seq(Pieces)
  BY <1>0, <1>a DEF ToolBlock
<1> DEFINE sent == Append(batch[i].sent, p)
           incoming == IF relay = "snapshots" THEN sent ELSE <<p>>
           kept == Kept(batch[i].kept, incoming)
<1>2. sent \in Seq(Pieces) /\ incoming \in Seq(Pieces)
  BY <1>1
<1>3. kept \in Seq(Pieces)
  BY <1>1, <1>2 DEF Kept, Merged
<1>4. relay = "snapshots" => kept = sent
  <2> SUFFICES ASSUME relay = "snapshots" PROVE kept = sent
    OBVIOUS
  <2>1. dialect = "chat" /\ batch[i].kept = batch[i].sent
    BY <1>1 DEF StreamInv, KeptAsSent
  <2>2. kept = Merged(batch[i].sent, sent)
    BY <2>1 DEF Kept
  <2> QED
    BY <1>1, <2>2, SnapshotTakesPlace
<1>5. batch' = [batch EXCEPT ![i] = [sent |-> sent, kept |-> kept]]
  BY DEF SendsArguments
<1> HIDE DEF sent, incoming, kept
<1>6. batch' \in Seq(ToolBlock)
  <2>1. [sent |-> sent, kept |-> kept] \in ToolBlock
    BY <1>2, <1>3 DEF ToolBlock
  <2> QED
    BY <1>1, <1>5, <2>1
<1>7. relay = "snapshots" => KeptAsSent(batch')
  BY <1>1, <1>4, <1>5 DEF StreamInv, KeptAsSent
<1>8. phase = "streaming" /\ UNCHANGED <<dialect, relay, attempt, phase, texts, unsafe, handed>>
  BY DEF SendsArguments
<1> QED
  BY <1>6, <1>7, <1>8 DEF StreamInv, SaidOnce

LEMMA StreamInvNext == ASSUME StreamInv, [StreamNext]_streamVars PROVE StreamInv'
<1>1. CASE Opens
  BY <1>1 DEF Opens, StreamInv, SaidOnce
<1>2. CASE SendsText
  <2>1. texts' = [texts EXCEPT ![attempt] = @ + 1] /\ texts' \in [0..MaxRetries -> Nat]
    BY <1>2 DEF SendsText, StreamInv
  <2>2. unsafe' \in BOOLEAN /\ (dialect = "messages" => unsafe')
    BY <1>2 DEF SendsText, Marks, StreamInv
  <2>3. SaidOnce'
    BY <1>2, <2>1, <2>2 DEF SendsText, StreamInv, SaidOnce
  <2> QED
    BY <1>2, <2>1, <2>2, <2>3 DEF SendsText, StreamInv
<1>3. CASE Wakes
  <2>1. <<>> \in Seq(ToolBlock) /\ KeptAsSent(<<>>)
    BY DEF KeptAsSent
  <2>2. attempt' \in 0..MaxRetries
    BY <1>3, StreamAssumption DEF Wakes, StreamInv
  <2>3. SaidOnce'
    BY <1>3 DEF Wakes, StreamInv, SaidOnce
  <2> QED
    BY <1>3, <2>1, <2>2, <2>3 DEF Wakes, StreamInv
<1>4. CASE IdleTimeout
  BY <1>4, AskingAgainKeeps DEF IdleTimeout
<1>5. ASSUME NEW p \in Pieces, SendsCall(p) PROVE StreamInv'
  <2> DEFINE c == [sent |-> <<p>>, kept |-> <<p>>]
  <2>1. c \in ToolBlock /\ c.kept = c.sent
    BY DEF ToolBlock
  <2>2. batch' = Append(batch, c) /\ batch \in Seq(ToolBlock)
    BY <1>5 DEF SendsCall, StreamInv
  <2> HIDE DEF c
  <2>3. batch' \in Seq(ToolBlock) /\ (KeptAsSent(batch) => KeptAsSent(batch'))
    BY <2>1, <2>2 DEF KeptAsSent
  <2>4. unsafe' \in BOOLEAN /\ (unsafe => unsafe')
    BY <1>5 DEF SendsCall, StreamInv
  <2>5. SaidOnce'
    BY <1>5, <2>4 DEF SendsCall, StreamInv, SaidOnce
  <2> QED
    BY <1>5, <2>3, <2>4, <2>5 DEF SendsCall, StreamInv
<1>6. ASSUME NEW i \in 1..MaxToolCalls, NEW p \in Pieces, SendsArguments(i, p)
      PROVE  StreamInv'
  BY <1>6, ArgumentsKeep
<1>10. ASSUME NEW i \in 1..MaxToolCalls, NEW p \in Pieces, ReplacesCall(i, p)
       PROVE  StreamInv'
  <2> DEFINE c == [sent |-> <<p>>, kept |-> <<p>>]
  <2>1. c \in ToolBlock /\ c.kept = c.sent
    BY DEF ToolBlock
  <2>2. batch' = [batch EXCEPT ![i] = c] /\ batch \in Seq(ToolBlock) /\ i \in DOMAIN batch
    BY <1>10 DEF ReplacesCall, StreamInv
  <2> HIDE DEF c
  <2>3. batch' \in Seq(ToolBlock) /\ (KeptAsSent(batch) => KeptAsSent(batch'))
    BY <2>1, <2>2 DEF KeptAsSent
  <2> QED
    BY <1>10, <2>3 DEF ReplacesCall, StreamInv, SaidOnce
<1>7. ASSUME NEW e \in Errors, Throws(e) PROVE StreamInv'
  <2>1. CASE Retryable(e) /\ ~unsafe /\ attempt < MaxRetries
    BY <1>7, <2>1 DEF Throws, StreamInv, SaidOnce
  <2>2. CASE ~(Retryable(e) /\ ~unsafe /\ attempt < MaxRetries)
    <3>1. AsksAgain(MayAskAgain(e))
      BY <1>7, <2>2 DEF Throws
    <3> QED
      BY <3>1, AskingAgainKeeps
  <2> QED
    BY <2>1, <2>2
<1>8. ASSUME NEW how \in Endings, NEW broken \in SUBSET (1..MaxToolCalls), Ends(how, broken)
      PROVE  StreamInv'
  <2>1. CASE Accepted(how, broken)
    <3>1. handed' = Without({}) /\ phase' = "answered"
          /\ UNCHANGED <<dialect, relay, turn, attempt, batch, texts, unsafe>>
      BY <1>8, <2>1 DEF Ends, Accepted
    <3>2. handed' = batch
      BY <3>1, NothingBroken DEF StreamInv
    <3> QED
      BY <3>1, <3>2 DEF StreamInv, SaidOnce
  <2>2. CASE ~Accepted(how, broken)
    <3>1. AsksAgain(TRUE)
      BY <1>8, <2>2 DEF Ends
    <3> QED
      BY <3>1, AskingAgainKeeps
  <2> QED
    BY <2>1, <2>2
<1>9. CASE UNCHANGED streamVars
  BY <1>9 DEF streamVars, StreamInv, SaidOnce
<1> QED
  BY <1>1, <1>2, <1>3, <1>4, <1>5, <1>6, <1>7, <1>8, <1>9, <1>10 DEF StreamNext

LEMMA WholeFromInv == StreamInv => AnswerIsWhole
<1> SUFFICES ASSUME StreamInv PROVE AnswerIsWhole
  OBVIOUS
<1>1. phase = "answered" =>
        /\ Len(handed) = Len(batch)
        /\ relay = "snapshots" => \A i \in DOMAIN handed : handed[i].kept = handed[i].sent
  BY DEF StreamInv, KeptAsSent
<1>2. ASSUME dialect = "messages"
      PROVE  Cardinality({a \in DOMAIN texts : texts[a] > 0}) <= 1
  <2> DEFINE said == {a \in DOMAIN texts : texts[a] > 0}
  <2>1. said \subseteq {attempt}
    BY <1>2 DEF StreamInv, SaidOnce
  <2>2. IsFiniteSet({attempt}) /\ Cardinality({attempt}) = 1
    BY FS_Singleton
  <2> HIDE DEF said
  <2>3. Cardinality(said) <= 1
    BY <2>1, <2>2, FS_Subset
  <2> QED
    BY <2>3 DEF said
<1> QED
  BY <1>1, <1>2 DEF AnswerIsWhole

(* The loop is given one answer, whole, whatever is sent in pieces, retried *)
(* or repeated (provider/openai.ts, deepseek.ts, retry.ts).                *)
THEOREM AnswersAreWhole == Spec => []AnswerIsWhole
<1>1. Init => StreamInv
  BY StreamInvInit DEF Init
<1>2. StreamInv /\ [Next]_services => StreamInv'
  <2>1. [Next]_services => [StreamNext]_streamVars
    BY DEF Next, services, streamVars
  <2> QED
    BY <2>1, StreamInvNext
<1> QED
  BY <1>1, <1>2, WholeFromInv, PTL DEF Spec
-----------------------------------------------------------------------------
(* A set of natural numbers that has a member has a least one.             *)
LEMMA LeastPlace ==
  ASSUME NEW S \in SUBSET Nat, S # {}
  PROVE  \E x \in S : \A y \in S : x <= y
<1> DEFINE below == {p \in Nat \X Nat : p[1] < p[2]}
<1>1. IsWellFoundedOn(below, Nat)
  BY NatLessThanWellFounded, Zenon DEF OpToRel
<1>2. \A x, y \in Nat : y < x => <<y, x>> \in below
  OBVIOUS
<1> HIDE DEF below
<1>3. PICK x \in S : \A y \in S : ~ (<<y, x>> \in below)
  BY <1>1, WFMin
<1>4. \A y \in S : ~ (y < x)
  BY <1>2, <1>3
<1> QED
  BY <1>3, <1>4

(* The first and the last of some places of a list are among them.         *)
LEMMA PlacesHaveEnds ==
  ASSUME NEW n \in Nat, NEW S \in SUBSET (1..n), S # {}
  PROVE  Min(S) \in S /\ Max(S) \in S
<1>1. \E x \in S : \A y \in S : x <= y
  BY LeastPlace
<1>2. \E x \in S : \A y \in S : x >= y
  <2> DEFINE T == {n - i : i \in S}
  <2>2. \A y \in S : n - y \in T
    OBVIOUS
  <2>1. T \subseteq Nat /\ T # {}
    <3>1. \A i \in S : n - i \in Nat
      OBVIOUS
    <3> QED
      BY <2>2, <3>1
  <2>3. \A t \in T : \E i \in S : t = n - i
    OBVIOUS
  <2> HIDE DEF T
  <2>4. PICK t \in T : \A u \in T : t <= u
    BY <2>1, LeastPlace
  <2>5. PICK x \in S : t = n - x
    BY <2>3
  <2>6. \A y \in S : n - x <= n - y
    BY <2>2, <2>4, <2>5
  <2>7. \A y \in S : x >= y
    BY <2>6
  <2> QED
    BY <2>7
<1> QED
  BY <1>1, <1>2 DEF Min, Max

(* registerModel: who has a model at last offers it, and a model that      *)
(* somebody offers is had.                                                 *)
LEMMA LastOffers ==
  ASSUME NEW pairs, NEW m
  PROVE  /\ LastToOffer(pairs, m) # None =>
              LastToOffer(pairs, m) \in Providers /\ <<LastToOffer(pairs, m), m>> \in pairs
         /\ \A p \in Providers : <<p, m>> \in pairs => LastToOffer(pairs, m) # None
<1> DEFINE offering == {i \in DOMAIN Catalog : <<Catalog[i], m>> \in pairs}
<1>1. /\ Catalog \in Seq(Providers) /\ None \notin Providers
      /\ DOMAIN Catalog = 1..Len(Catalog) /\ Len(Catalog) \in Nat
  BY SetupAssumption
<1>2. LastToOffer(pairs, m) = IF offering = {} THEN None ELSE Catalog[Max(offering)]
  BY DEF LastToOffer
<1>3. offering # {} => Max(offering) \in offering
  BY <1>1, PlacesHaveEnds
<1>4. \A p \in Providers : \E i \in DOMAIN Catalog : Catalog[i] = p
  BY DEF Providers, ToSet
<1>5. offering # {} => LastToOffer(pairs, m) \in Providers /\ <<LastToOffer(pairs, m), m>> \in pairs
  <2> SUFFICES ASSUME offering # {} PROVE LastToOffer(pairs, m) \in Providers
                                         /\ <<LastToOffer(pairs, m), m>> \in pairs
    OBVIOUS
  <2>1. PICK k \in offering : LastToOffer(pairs, m) = Catalog[k]
    BY <1>2, <1>3
  <2>2. k \in DOMAIN Catalog /\ <<Catalog[k], m>> \in pairs
    OBVIOUS
  <2> QED
    BY <1>1, <2>1, <2>2
<1>6. \A p \in Providers : <<p, m>> \in pairs => offering # {}
  BY <1>4
<1> QED
  <2>1. ASSUME LastToOffer(pairs, m) # None PROVE offering # {}
    BY <1>2, <2>1
  <2>2. ASSUME NEW p \in Providers, <<p, m>> \in pairs PROVE LastToOffer(pairs, m) # None
    BY <1>1, <1>5, <1>6, <2>2
  <2> QED
    BY <1>5, <2>1, <2>2

-----------------------------------------------------------------------------
(* The chosen model.  Whoever has a model in the registry offers it, and   *)
(* the session's model is one that somebody has: without that the helpers  *)
(* would have no provider to look for a cheap model at.                    *)

SetupInv ==
  /\ file = [choice |-> file.choice, offers |-> file.offers, readable |-> file.readable]
  /\ file.choice \in BuiltIn \cup file.offers
  /\ file.offers \subseteq Providers \X Models
  /\ offers \subseteq Providers \X Models
  /\ DOMAIN owner = Models
  /\ \A m \in Models : owner[m] # None => owner[m] \in Providers /\ <<owner[m], m>> \in offers
  /\ session \in Models /\ owner[session] # None
  /\ ChoiceIsUsed
  /\ ~spoilt => file.readable /\ file.choice = picked

LEMMA DefaultsAreBuiltIn ==
  /\ Defaults.choice = Default /\ Defaults.offers = {} /\ Defaults.readable = TRUE
  /\ Defaults = [choice |-> Defaults.choice, offers |-> Defaults.offers,
                 readable |-> Defaults.readable]
  /\ Default \in BuiltIn /\ BuiltIn \subseteq Providers \X Models
BY SetupAssumption DEF Defaults

LEMMA LoadedKeeps ==
  ASSUME SetupInv
  PROVE  /\ Loaded = [choice |-> Loaded.choice, offers |-> Loaded.offers,
                      readable |-> Loaded.readable]
         /\ Loaded.choice \in BuiltIn \cup Loaded.offers
         /\ Loaded.offers \subseteq Providers \X Models
         /\ ~spoilt => Loaded = file
BY DefaultsAreBuiltIn DEF SetupInv, Loaded

LEMMA SetupInvInit == SetupInit => SetupInv
<1> SUFFICES ASSUME SetupInit PROVE SetupInv
  OBVIOUS
<1>1. /\ file = Defaults /\ offers = BuiltIn /\ session = Default[2] /\ cheap = None
      /\ chosen = None /\ picked = Default /\ spoilt = FALSE
      /\ owner = [m \in Models |-> LastToOffer(BuiltIn, m)]
  BY DEF SetupInit
<1>2. Default = <<Default[1], Default[2]>> /\ Default[1] \in Providers /\ Default[2] \in Models
  BY DefaultsAreBuiltIn
<1>3. owner[session] # None
  <2>1. owner[session] = LastToOffer(BuiltIn, Default[2])
    BY <1>1, <1>2
  <2>2. <<Default[1], Default[2]>> \in BuiltIn
    BY <1>2, DefaultsAreBuiltIn
  <2> QED
    BY <1>2, <2>1, <2>2, LastOffers
<1>4. \A m \in Models : owner[m] # None => owner[m] \in Providers /\ <<owner[m], m>> \in offers
  BY <1>1, LastOffers
<1> QED
  BY <1>1, <1>2, <1>3, <1>4, DefaultsAreBuiltIn DEF SetupInv, ChoiceIsUsed

LEMMA ConfigureKeeps ==
  ASSUME SetupInv, NEW p \in Providers, NEW m \in Models,
         NEW withKey \in BOOLEAN, NEW custom \in BOOLEAN, NEW written \in BOOLEAN,
         ConfigureModel(p, m, withKey, custom, written)
  PROVE  SetupInv'
<1> DEFINE pairs == IF custom THEN offers \cup {<<p, m>>} ELSE offers
<1>1. /\ offers' = pairs /\ owner' = Reregistered(p, pairs) /\ session' = m
      /\ usable' = usable \cup {p} /\ cheap' = None /\ chosen' = <<p, m>>
  BY DEF ConfigureModel, ForgotCheap
<1>2. IF written THEN file' = Saved(p, m, pairs) /\ picked' = <<p, m>> /\ spoilt' = spoilt
                 ELSE spoilt' = TRUE /\ file' = file /\ picked' = picked
  BY DEF ConfigureModel
<1>3. offers \subseteq pairs /\ pairs \subseteq Providers \X Models
  BY DEF SetupInv
<1>4. <<p, m>> \in pairs
  BY SetupAssumption DEF ConfigureModel, SetupInv
<1>5. owner' = [x \in Models |-> IF <<p, x>> \in pairs THEN p ELSE owner[x]]
  BY <1>1 DEF Reregistered
<1> HIDE DEF pairs
<1>6. \A x \in Models : owner'[x] # None => owner'[x] \in Providers /\ <<owner'[x], x>> \in pairs
  BY <1>3, <1>5 DEF SetupInv
<1>7. owner'[m] = p /\ p # None
  BY <1>4, <1>5, SetupAssumption
<1>8. CASE written
  <2>1. /\ file' = [choice |-> <<p, m>>, readable |-> TRUE,
                    offers |-> Loaded.offers \cup {pair \in pairs : pair[1] = p}]
        /\ picked' = <<p, m>> /\ spoilt' = spoilt
    BY <1>2, <1>8 DEF Saved
  <2>2. /\ file'.choice = <<p, m>> /\ file'.readable = TRUE
        /\ file'.offers = Loaded.offers \cup {pair \in pairs : pair[1] = p}
        /\ file' = [choice |-> file'.choice, offers |-> file'.offers, readable |-> file'.readable]
    BY <2>1
  <2>3. file'.choice \in file'.offers /\ file'.offers \subseteq Providers \X Models
    BY <1>3, <1>4, <2>2, LoadedKeeps
  <2> QED
    BY <1>1, <1>3, <1>5, <1>6, <1>7, <2>1, <2>2, <2>3 DEF SetupInv, ChoiceIsUsed
<1>9. CASE ~written
  BY <1>1, <1>2, <1>3, <1>5, <1>6, <1>7, <1>9 DEF SetupInv, ChoiceIsUsed
<1> QED
  BY <1>8, <1>9

LEMMA RestartKeeps ==
  ASSUME SetupInv, NEW torn \in BOOLEAN, Restart(torn)
  PROVE  SetupInv'
<1> DEFINE pairs == BuiltIn \cup Loaded.offers
<1>1. /\ offers' = pairs /\ session' = Loaded.choice[2]
      /\ owner' = [x \in Models |-> LastToOffer(pairs, x)]
      /\ cheap' = None /\ chosen' = None /\ UNCHANGED <<file, picked, spoilt>>
  BY DEF Restart, Booted
<1>2. pairs \subseteq Providers \X Models /\ Loaded.choice \in pairs
  BY LoadedKeeps, DefaultsAreBuiltIn
<1> HIDE DEF pairs
<1>3. PICK p \in Providers, m \in Models : Loaded.choice = <<p, m>>
  BY <1>2
<1>4. session' = m /\ m \in Models /\ owner'[m] # None
  <2>1. session' = m /\ owner'[m] = LastToOffer(pairs, m) /\ <<p, m>> \in pairs
    BY <1>1, <1>2, <1>3
  <2> QED
    BY <2>1, LastOffers
<1>5. \A x \in Models : owner'[x] # None => owner'[x] \in Providers /\ <<owner'[x], x>> \in pairs
  BY <1>1, LastOffers
<1> QED
  BY <1>1, <1>2, <1>4, <1>5 DEF SetupInv, ChoiceIsUsed

(* getCheapModel: with a cheap model of the session's provider it is one.  *)
LEMMA CheapModelFits ==
  ASSUME SetupInv, \E i \in DOMAIN CheapFast : owner[CheapFast[i]] = owner[session]
  PROVE  owner[CheapModel] = owner[session]
<1> DEFINE any == {i \in DOMAIN CheapFast : owner[CheapFast[i]] # None}
           own == {i \in any : owner[CheapFast[i]] = owner[session]}
<1>1. DOMAIN CheapFast = 1..Len(CheapFast) /\ Len(CheapFast) \in Nat
  BY SetupAssumption
<1>2. own # {} /\ own \subseteq 1..Len(CheapFast)
  BY <1>1 DEF SetupInv
<1>3. Min(own) \in own
  BY <1>1, <1>2, PlacesHaveEnds
<1>4. CheapModel = CheapFast[Min(own)]
  BY <1>2 DEF CheapModel, Cheapest
<1> QED
  BY <1>3, <1>4

LEMMA SetupInvNext == ASSUME SetupInv, [SetupNext]_setupVars PROVE SetupInv'
<1>1. ASSUME NEW p \in Providers, NEW m \in Models,
             NEW withKey \in BOOLEAN, NEW custom \in BOOLEAN, NEW written \in BOOLEAN,
             ConfigureModel(p, m, withKey, custom, written)
      PROVE  SetupInv'
  BY <1>1, ConfigureKeeps
<1>2. ASSUME NEW torn \in BOOLEAN, Restart(torn) PROVE SetupInv'
  BY <1>2, RestartKeeps
<1>3. CASE ConfigureThinkingEffort
  BY <1>3, LoadedKeeps DEF ConfigureThinkingEffort, SetupInv, ChoiceIsUsed
<1>4. CASE EditFile
  <2>1. /\ file'.choice = file.choice /\ file'.offers = file.offers /\ spoilt' = TRUE
        /\ file' = [choice |-> file'.choice, offers |-> file'.offers, readable |-> file'.readable]
    BY <1>4 DEF EditFile, SetupInv
  <2> QED
    BY <1>4, <2>1 DEF EditFile, SetupInv, ChoiceIsUsed
<1>5. CASE SelectForPurpose
  BY <1>5, CheapModelFits DEF SelectForPurpose, SetupInv, ChoiceIsUsed
<1>6. CASE UNCHANGED setupVars
  BY <1>6 DEF setupVars, SetupInv, ChoiceIsUsed
<1> QED
  BY <1>1, <1>2, <1>3, <1>4, <1>5, <1>6 DEF SetupNext

LEMMA ChoiceFromInv == SetupInv => ChoiceHolds
<1> SUFFICES ASSUME SetupInv PROVE ChoiceSurvives
  BY DEF ChoiceHolds, SetupInv
<1> DEFINE pairs == BuiltIn \cup Loaded.offers
           others == {p \in Providers : <<p, picked[2]>> \in pairs} \ {picked[1]}
<1> SUFFICES ASSUME ~spoilt, others = {}
             PROVE  Loaded.choice = picked /\ LastToOffer(pairs, picked[2]) = picked[1]
  BY DEF ChoiceSurvives
<1>1. Loaded.choice = picked
  BY LoadedKeeps DEF SetupInv
<1>2. pairs \subseteq Providers \X Models /\ picked \in pairs
  BY <1>1, LoadedKeeps, DefaultsAreBuiltIn
<1>3. picked = <<picked[1], picked[2]>> /\ picked[1] \in Providers
  BY <1>2
<1> DEFINE last == LastToOffer(pairs, picked[2])
<1>4. last # None
  BY <1>2, <1>3, LastOffers
<1>5. last \in Providers /\ <<last, picked[2]>> \in pairs
  BY <1>4, LastOffers
<1> QED
  BY <1>1, <1>5

(* The model that was chosen is the one that is used, by the session, by   *)
(* its helpers and by the next start, for any providers that offer any     *)
(* models (runtime/bootstrap.ts, provider/registry.ts, router.ts).         *)
THEOREM ChoicesHold == Spec => []ChoiceHolds
<1>1. Init => SetupInv
  BY SetupInvInit DEF Init, NoKey
<1>2. SetupInv /\ [Next]_services => SetupInv'
  <2>1. [Next]_services => [SetupNext]_setupVars
    BY DEF Next, services, setupVars
  <2> QED
    BY <2>1, SetupInvNext
<1> QED
  BY <1>1, <1>2, ChoiceFromInv, PTL DEF Spec
-----------------------------------------------------------------------------
(* The registry.  A layer of the configuration says what a user wrote, the *)
(* merged one what is built in or was written; and only a running program  *)
(* has a request.                                                          *)

Written(config) == \A path \in DOMAIN config : <<path, config[path]>> \in Edits

BuiltOrWritten(config) ==
  /\ DOMAIN DefaultLayer \subseteq DOMAIN config
  /\ \A path \in DOMAIN config :
       \/ path \in DOMAIN DefaultLayer /\ config[path] = DefaultLayer[path]
       \/ <<path, config[path]>> \in Edits

RuntimeFits ==
  /\ BuiltOrWritten(runtime.config)
  /\ runtime.known = Registered(runtime.config)
  /\ runtime.session \in Models /\ runtime.known[runtime.session] # None

RegistryInv ==
  /\ DOMAIN layer = {"global", "project"}
  /\ \A f \in DOMAIN layer : layer[f] # None => Written(layer[f])
  /\ runtime # None => RuntimeFits
  /\ runtime = None => request = None
  /\ RequestFits

LEMMA RegistryInvInit == RegistryInit => RegistryInv
<1> SUFFICES ASSUME RegistryInit PROVE RegistryInv
  OBVIOUS
<1>1. DOMAIN layer = {"global", "project"} /\ \A f \in DOMAIN layer : layer[f] = <<>>
  BY DEF RegistryInit
<1>2. Written(<<>>)
  BY DEF Written
<1> QED
  BY <1>1, <1>2 DEF RegistryInit, RegistryInv, RequestFits

LEMMA EditKeeps ==
  ASSUME RegistryInv, NEW f \in DOMAIN layer, EditLayer(f)
  PROVE  RegistryInv'
<1>1. /\ UNCHANGED <<runtime, request>> /\ DOMAIN layer' = DOMAIN layer
      /\ \A g \in DOMAIN layer : g # f => layer'[g] = layer[g]
  BY DEF EditLayer, RegistryInv
<1>2. ASSUME NEW e \in Edits,
             layer' = [layer EXCEPT ![f] = IF @ = None THEN @ ELSE Override([path \in {e[1]} |-> e[2]], @)],
             layer[f] # None
      PROVE  Written(layer'[f])
  <2> DEFINE old == layer[f]  one == [path \in {e[1]} |-> e[2]]  new == Override(one, old)
  <2>1. layer'[f] = new
    BY <1>2 DEF RegistryInv
  <2>2. DOMAIN one = {e[1]} /\ one[e[1]] = e[2] /\ <<e[1], e[2]>> \in Edits
    BY RegistryAssumption
  <2>3. Written(old)
    BY <1>2 DEF RegistryInv
  <2> HIDE DEF one, old
  <2>4. /\ DOMAIN new = DOMAIN one \cup DOMAIN old
        /\ \A q \in DOMAIN new : new[q] = IF q \in DOMAIN one THEN one[q] ELSE old[q]
    BY DEF Override
  <2> HIDE DEF new
  <2> QED
    BY <2>1, <2>2, <2>3, <2>4 DEF Written
<1>3. layer'[f] # None => Written(layer'[f])
  <2>1. \/ \E e \in Edits :
             layer' = [layer EXCEPT ![f] = IF @ = None THEN @ ELSE Override([path \in {e[1]} |-> e[2]], @)]
        \/ layer' = [layer EXCEPT ![f] = None]
    BY DEF EditLayer
  <2>2. CASE layer' = [layer EXCEPT ![f] = None]
    BY <2>2 DEF RegistryInv
  <2>3. CASE layer[f] = None
    BY <2>1, <2>3 DEF RegistryInv
  <2> QED
    BY <1>2, <2>1, <2>2, <2>3
<1> QED
  BY <1>1, <1>3 DEF RegistryInv, RuntimeFits, RequestFits

(* deepMerge: what a layer says wins, nothing that is there is lost.       *)
LEMMA MergeKeeps ==
  ASSUME NEW base, NEW over, BuiltOrWritten(base), over # None => Written(over)
  PROVE  BuiltOrWritten(MergedWith(base, over))
<1>1. CASE over = None
  BY <1>1 DEF MergedWith
<1>2. CASE over # None
  <2> DEFINE new == Override(over, base)
  <2>1. MergedWith(base, over) = new
    BY <1>2 DEF MergedWith, DeepMerge
  <2>2. /\ DOMAIN new = DOMAIN over \cup DOMAIN base
        /\ \A q \in DOMAIN new : new[q] = IF q \in DOMAIN over THEN over[q] ELSE base[q]
    BY DEF Override
  <2> HIDE DEF new
  <2> QED
    BY <1>2, <2>1, <2>2 DEF BuiltOrWritten, Written
<1> QED
  BY <1>1, <1>2

LEMMA ConfigFits ==
  ASSUME RegistryInv, NEW loadProject
  PROVE  BuiltOrWritten(LoadConfig(loadProject))
<1>1. BuiltOrWritten(DefaultLayer)
  BY DEF BuiltOrWritten
<1>2. BuiltOrWritten(MergedWith(DefaultLayer, layer["global"]))
  BY <1>1, MergeKeeps DEF RegistryInv
<1>3. BuiltOrWritten(MergedWith(MergedWith(DefaultLayer, layer["global"]), layer["project"]))
  BY <1>2, MergeKeeps DEF RegistryInv
<1> QED
  BY <1>2, <1>3 DEF LoadConfig

(* The paths of the settings that are built in.                            *)
LEMMA BuiltInPaths ==
  /\ DefaultModel \in DOMAIN DefaultLayer /\ DefaultLayer[DefaultModel] = Default[2]
  /\ \A pair \in BuiltIn : ModelPath(pair[1], pair[2]) \in DOMAIN DefaultLayer
<1>1. DefaultModel # DefaultProvider
  BY DEF DefaultModel, DefaultProvider
<1> QED
  BY <1>1 DEF DefaultLayer

LEMMA CreateKeeps ==
  ASSUME RegistryInv, NEW loadProject, NEW given, NEW env, NEW allowMissing,
         CreateRuntime(loadProject, given, env, allowMissing)
  PROVE  RegistryInv'
<1> DEFINE config == LoadConfig(loadProject)
           known == Registered(config)
           configured == {p \in Providers : HasKey(config, p, given, env)} \cup NoKeyNeeded
           made == [config |-> config, configured |-> configured, known |-> known,
                    session |-> config[DefaultModel]]
           refused == \/ config[DefaultProvider] \notin configured /\ ~allowMissing
                      \/ known[config[DefaultModel]] = None
<1>1. BuiltOrWritten(config)
  BY ConfigFits
<1>2. runtime = None /\ UNCHANGED <<layer, request>>
  BY DEF CreateRuntime
<1>3. runtime' = None \/ (runtime' = made /\ known[config[DefaultModel]] # None)
  <2>1. runtime' = IF refused THEN None ELSE made
    BY DEF CreateRuntime
  <2>2. ~refused => known[config[DefaultModel]] # None
    OBVIOUS
  <2> HIDE DEF refused, made
  <2> QED
    BY <2>1, <2>2
<1> HIDE DEF config
<1>4. config[DefaultModel] \in Models
  <2>1. DefaultModel \in DOMAIN config
    BY <1>1, BuiltInPaths DEF BuiltOrWritten
  <2>2. CASE config[DefaultModel] = Default[2]
    BY <2>2, SetupAssumption
  <2>3. CASE <<DefaultModel, config[DefaultModel]>> \in Edits
    <3> DEFINE e == <<DefaultModel, config[DefaultModel]>>
    <3>1. e[1] = <<"models", "default">> /\ e[2] = config[DefaultModel]
      BY DEF DefaultModel
    <3> QED
      BY <2>3, <3>1, RegistryAssumption
  <2> QED
    BY <1>1, <2>1, <2>2, <2>3, BuiltInPaths DEF BuiltOrWritten
<1>5. ASSUME runtime' # None PROVE RuntimeFits'
  <2>1. runtime' = made /\ known[config[DefaultModel]] # None
    BY <1>3, <1>5
  <2>2. /\ runtime'.config = config /\ runtime'.known = known
        /\ runtime'.session = config[DefaultModel]
    BY <2>1
  <2> HIDE DEF made, known
  <2> QED
    BY <1>1, <1>4, <2>1, <2>2 DEF RuntimeFits, known
<1> QED
  BY <1>2, <1>5 DEF RegistryInv, RequestFits

(* A call goes to a model that somebody has, with the thinking it takes.   *)
LEMMA CallKeeps ==
  ASSUME RegistryInv, NEW m \in Models, NEW thought \in Budgets, NEW errors \in BOOLEAN,
         NEW maxTokens \in TokenLimits, NEW spared \in BOOLEAN,
         Call(m, thought, errors, maxTokens, spared)
  PROVE  RegistryInv'
<1> DEFINE model == SelectModel(m, spared)
           wanted == AdaptThinking(m, thought, errors)
           thinking == ThinkingFor(model, wanted, maxTokens)
<1>1. /\ runtime # None /\ runtime' = runtime /\ layer' = layer
      /\ request' = [model |-> model, provider |-> runtime.known[model],
                     limit |-> maxTokens, thinking |-> thinking,
                     tools |-> ToolSchema(runtime.known[model])]
  BY DEF Call
<1>2. RuntimeFits
  BY <1>1 DEF RegistryInv
<1>3. model \in Models /\ runtime.known[model] # None
  <2>1. CASE Known(m)
    BY <2>1 DEF SelectModel, Known
  <2>2. CASE ~Known(m) /\ spared /\ KnownFast # {}
    <3>1. CheapFast \in Seq(Models) /\ KnownFast \subseteq 1..Len(CheapFast) /\ Len(CheapFast) \in Nat
      BY SetupAssumption DEF KnownFast
    <3>2. Min(KnownFast) \in KnownFast
      BY <2>2, <3>1, PlacesHaveEnds
    <3>3. model = CheapFast[Min(KnownFast)]
      BY <2>2 DEF SelectModel, Cheapest
    <3> QED
      <4>1. Min(KnownFast) \in 1..Len(CheapFast) /\ Known(CheapFast[Min(KnownFast)])
        BY <3>1, <3>2 DEF KnownFast
      <4>2. CheapFast[Min(KnownFast)] \in Models
        BY <3>1, <4>1
      <4> QED
        BY <3>3, <4>1, <4>2 DEF Known
  <2>3. CASE ~Known(m) /\ ~(spared /\ KnownFast # {})
    BY <1>2, <2>3 DEF SelectModel, RuntimeFits
  <2> QED
    BY <2>1, <2>2, <2>3
<1>4. ModelPath(runtime.known[model], model) \in DOMAIN runtime.config
  <2> DEFINE pairs == ModelsOf(runtime.config)
  <2>1. runtime.known[model] = LastToOffer(pairs, model)
    BY <1>2, <1>3 DEF RuntimeFits, Registered
  <2>2. <<runtime.known[model], model>> \in pairs
    BY <1>3, <2>1, LastOffers
  <2>3. \A pair \in pairs : ModelPath(pair[1], pair[2]) \in DOMAIN runtime.config
    BY DEF ModelsOf
  <2> QED
    BY <2>2, <2>3
<1> HIDE DEF model
<1>5. wanted.budget \in Nat
  BY RegistryAssumption DEF AdaptThinking, NoThinking
<1> HIDE DEF wanted
<1>6. Thinks[model] = "no" => thinking.type = "none"
  BY DEF ThinkingFor, NoThinking
<1>7. Thinks[model] = "adaptive" => thinking.budget = 0
  BY DEF ThinkingFor, NoThinking
<1>8. runtime.known[model] = "anthropic" /\ thinking.type = "enabled"
        => thinking.budget < maxTokens
  BY <1>5, RegistryAssumption DEF ThinkingFor, NoThinking, Smaller
<1> HIDE DEF thinking
<1>9. RequestFits'
  BY <1>1, <1>4, <1>6, <1>7, <1>8 DEF RequestFits
<1> QED
  BY <1>1, <1>2, <1>9 DEF RegistryInv, RuntimeFits

LEMMA RegistryInvNext == ASSUME RegistryInv, [RegistryNext]_registryVars PROVE RegistryInv'
<1>1. ASSUME NEW f \in DOMAIN layer, EditLayer(f) PROVE RegistryInv'
  BY <1>1, EditKeeps
<1>2. ASSUME NEW ref, SetCredential(ref) \/ DeleteCredential(ref) PROVE RegistryInv'
  BY <1>2 DEF SetCredential, DeleteCredential, RegistryInv, RuntimeFits, RequestFits
<1>3. ASSUME NEW loadProject, NEW given, NEW env, NEW allowMissing,
             CreateRuntime(loadProject, given, env, allowMissing)
      PROVE  RegistryInv'
  BY <1>3, CreateKeeps
<1>4. CASE Leave
  BY <1>4 DEF Leave, RegistryInv, RequestFits
<1>5. CASE Answered
  BY <1>5 DEF Answered, RegistryInv, RuntimeFits, RequestFits
<1>6. ASSUME NEW m \in Models, NEW thought \in Budgets, NEW maxTokens \in TokenLimits,
             NEW errors \in BOOLEAN, NEW spared \in BOOLEAN,
             Call(m, thought, errors, maxTokens, spared)
      PROVE  RegistryInv'
  BY <1>6, CallKeeps
<1>7. CASE UNCHANGED registryVars
  BY <1>7 DEF registryVars, RegistryInv, RuntimeFits, RequestFits
<1> QED
  BY <1>1, <1>2, <1>3, <1>4, <1>5, <1>6, <1>7 DEF RegistryNext

----------------------------------------------------------------------------
(* The tools of a round.  Whatever the gates decide, a request is a part   *)
(* of what they hand on; in a cache-stable run they all hand on the same.  *)

StableOffer ==
  IF offerRun.notReady THEN OnlyReadonly(Offer(OfferTools, {})) ELSE Offer(OfferTools, {})

OfferInv ==
  /\ offerRun \in [stable : BOOLEAN, readonly : BOOLEAN, notReady : BOOLEAN]
  /\ offerRound \in Nat
  /\ OfferHolds
  /\ offerRun.stable /\ offerRound # 0 => offered = Sliced(StableOffer)

LEMMA OfferInvInit == OfferInit \/ NoRound => OfferInv
<1> SUFFICES ASSUME OfferInit \/ NoRound PROVE OfferInv
  OBVIOUS
<1>1. offerRound = 0 /\ offered = {} /\ changed = "nothing"
  BY DEF OfferInit, NoRound
<1>2. offerRun \in [stable : BOOLEAN, readonly : BOOLEAN, notReady : BOOLEAN]
  <2>1. CASE OfferInit
    BY <2>1 DEF OfferInit
  <2>2. CASE NoRound
    <3>1. offerRun = [stable |-> TRUE, readonly |-> FALSE, notReady |-> FALSE]
      BY <2>2 DEF NoRound
    <3> QED
      BY <3>1
  <2> QED
    BY <2>1, <2>2
<1>3. OfferHolds
  BY <1>1 DEF OfferHolds
<1> QED
  BY <1>1, <1>2, <1>3 DEF OfferInv

LEMMA SlicedIsPart == ASSUME NEW offer PROVE Sliced(offer) \subseteq offer.tools
BY DEF Sliced

LEMMA OnlyReadonlyReads ==
  ASSUME NEW set, NEW first
  PROVE  OnlyReadonly(Offer(set, first)).tools \subseteq ReadonlyTools
BY DEF OnlyReadonly, Offer

LEMMA SelectedIsOffer ==
  ASSUME NEW says, NEW n PROVE \E set, first : SelectTools(says, n) = Offer(set, first)
BY DEF SelectTools

(* What the gates of a run that may vary hand on.                          *)
LEMMA VaryingActive ==
  ASSUME NEW hears \in Rounds, offerRound \in Nat, offerRun.stable = FALSE
  PROVE  LET active == ActiveTools(offerRound, hears).tools
             blocks == RippleBlocks(hears.owed, hears.reports)
         IN /\ offerRun.notReady => active \subseteq ReadonlyTools
            /\ offerRun.readonly \/ hears.plans \/ blocks => active \subseteq ReadonlyTools
            /\ hears.plans /\ offerRound > 0 /\ ~offerRun.notReady /\ ~blocks => active = {}
<1> DEFINE shown == SelectTools(hears.says, offerRound)
           blocks == RippleBlocks(hears.owed, hears.reports)
           kept == IF offerRun.readonly \/ hears.plans THEN OnlyReadonly(shown) ELSE shown
           planned == PlanFiltered(Both(shown), hears.plans, offerRound)
           passed == ReadinessFiltered(planned)
<1>1. PICK set, first : shown = Offer(set, first)
  BY SelectedIsOffer
<1>2. planned = [tools |-> kept,
                 active |-> IF hears.plans /\ offerRound > 0 THEN Offer({}, {}) ELSE kept]
  BY DEF PlanFiltered, Both
<1>3. OnlyReadonly(shown).tools \subseteq ReadonlyTools
  BY <1>1, OnlyReadonlyReads
<1>4. OnlyReadonly(OnlyReadonly(shown)).tools \subseteq ReadonlyTools
  BY <1>1 DEF OnlyReadonly, Offer
<1>5. OnlyReadonly(kept).tools \subseteq ReadonlyTools
  BY <1>3, <1>4
<1>6. Offer({}, {}).tools = {}
  BY DEF Offer
<1>7. planned.tools = kept /\ planned.active = (IF hears.plans /\ offerRound > 0 THEN Offer({}, {}) ELSE kept)
  BY <1>2
<1>8. IF offerRun.notReady
        THEN passed.tools = OnlyReadonly(kept) /\ passed.active = OnlyReadonly(kept)
        ELSE passed = planned
  BY <1>7 DEF ReadinessFiltered, Both
<1>9. OnlyReadonly(OnlyReadonly(kept)).tools \subseteq ReadonlyTools
  BY <1>1 DEF OnlyReadonly, Offer
<1>10. ActiveTools(offerRound, hears) = RippleFiltered(passed, blocks).active
  BY DEF ActiveTools, Disclosed
<1>11. RippleFiltered(passed, blocks).active = IF blocks THEN OnlyReadonly(passed.tools) ELSE passed.active
  BY DEF RippleFiltered, Both
<1> HIDE DEF shown, blocks, kept, planned, passed
<1>12. CASE offerRun.notReady
  BY <1>5, <1>8, <1>9, <1>10, <1>11, <1>12 DEF blocks
<1>13. CASE ~offerRun.notReady
  <2>1. offerRun.readonly \/ hears.plans => kept.tools \subseteq ReadonlyTools
    BY <1>3 DEF kept
  <2>2. passed.tools = kept
    BY <1>7, <1>8, <1>13
  <2>3. CASE blocks
    BY <1>5, <1>10, <1>11, <1>13, <2>2, <2>3 DEF blocks
  <2>4. CASE ~blocks
    <3>1. ActiveTools(offerRound, hears) = planned.active
      BY <1>8, <1>10, <1>11, <1>13, <2>4
    <3>2. hears.plans /\ offerRound > 0 => ActiveTools(offerRound, hears).tools = {}
      BY <1>6, <1>7, <3>1
    <3>3. offerRun.readonly \/ hears.plans => ActiveTools(offerRound, hears).tools \subseteq ReadonlyTools
      BY <1>7, <2>1, <3>1, <3>2
    <3> QED
      BY <1>13, <2>4, <3>2, <3>3 DEF blocks
  <2> QED
    BY <2>3, <2>4
<1> QED
  BY <1>12, <1>13

(* What those of a cache-stable run do, round after round.                 *)
LEMMA StableActive ==
  ASSUME NEW hears \in Rounds, offerRun.stable
  PROVE  ActiveTools(offerRound, hears) = StableOffer
BY DEF ActiveTools, StableOffer, ReadinessFiltered, Both

LEMMA OfferInvNext == ASSUME OfferInv, [OfferNext]_offerVars PROVE OfferInv'
<1>1. CASE UNCHANGED offerVars
  <2>1. offerRun' = offerRun /\ offerRound' = offerRound /\ planning' = planning
        /\ blockActive' = blockActive /\ offered' = offered /\ changed' = changed
    BY <1>1 DEF offerVars
  <2>2. StableOffer' = StableOffer
    BY <2>1 DEF StableOffer
  <2> QED
    BY <2>1, <2>2 DEF OfferInv, OfferHolds
<1>2. ASSUME NEW hears \in Rounds, NEW grown \in BOOLEAN, AskRound(hears, grown)
      PROVE  OfferInv'
  <2>1. offerRun' = offerRun
    BY <1>2 DEF AskRound
  <2>2. offerRound' \in Nat /\ offerRound' # 0 /\ (offerRound' > 1 <=> offerRound > 0)
    <3>1. offerRound' = IF offerRound < 3 THEN offerRound + 1 ELSE offerRound
      BY <1>2 DEF AskRound
    <3>2. offerRound \in Nat
      BY DEF OfferInv
    <3> QED
      BY <3>1, <3>2
  <2>3. offered' = Sliced(ActiveTools(offerRound, hears))
    BY <1>2 DEF AskRound
  <2>4. offered' \subseteq ActiveTools(offerRound, hears).tools
    BY <2>3, SlicedIsPart
  <2>5. planning' = hears.plans
    BY <1>2 DEF AskRound
  <2>6. blockActive' = (~offerRun.stable /\ RippleBlocks(hears.owed, hears.reports))
    BY <1>2 DEF AskRound
  <2>7. CASE offerRun.stable
    <3>1. offered' = Sliced(StableOffer)
      BY <2>3, <2>7, StableActive
    <3>2. changed' # "tools"
      BY <1>2, <2>3, <2>7, <3>1 DEF AskRound, ChangedSection, OfferInv
    <3>3. offerRun.notReady => offered' \subseteq ReadonlyTools
      BY <2>4, <2>7, StableActive DEF StableOffer, OnlyReadonly, Offer
    <3>4. StableOffer' = StableOffer
      BY <2>1 DEF StableOffer
    <3>5. Sliced(StableOffer)' = Sliced(StableOffer)
      BY <3>4
    <3> QED
      BY <2>1, <2>2, <2>7, <3>1, <3>2, <3>3, <3>5 DEF OfferInv, OfferHolds
  <2>8. CASE ~offerRun.stable
    <3>1. offerRun.stable = FALSE
      BY <2>8 DEF OfferInv
    <3>2. offerRound \in Nat
      BY DEF OfferInv
    <3> DEFINE active == ActiveTools(offerRound, hears).tools
               blocks == RippleBlocks(hears.owed, hears.reports)
    <3>3. /\ offerRun.notReady => active \subseteq ReadonlyTools
          /\ offerRun.readonly \/ hears.plans \/ blocks => active \subseteq ReadonlyTools
          /\ hears.plans /\ offerRound > 0 /\ ~offerRun.notReady /\ ~blocks => active = {}
      BY <3>1, <3>2, VaryingActive
    <3> HIDE DEF active, blocks
    <3>4. offered' \subseteq active
      BY <2>4 DEF active
    <3>5. blockActive' = blocks
      BY <2>6, <2>8 DEF blocks, RippleBlocks
    <3>6. OfferHolds'
      BY <2>1, <2>2, <2>5, <2>8, <3>3, <3>4, <3>5 DEF OfferHolds
    <3> QED
      BY <2>1, <2>2, <2>8, <3>6 DEF OfferInv
  <2> QED
    BY <2>7, <2>8
<1> QED
  BY <1>1, <1>2 DEF OfferNext

LEMMA FitsFromInv == RegistryInv /\ OfferInv => RequestsFit
<1> SUFFICES ASSUME RegistryInv, runtime # None
             PROVE  BuiltIn \subseteq ModelsOf(runtime.config)
  BY DEF RequestsFit, OfferInv, RegistryInv, RuntimeFits, BuiltOrWritten, NothingListedIsLost
<1>1. DOMAIN DefaultLayer \subseteq DOMAIN runtime.config
  BY DEF RegistryInv, RuntimeFits, BuiltOrWritten
<1> QED
  BY <1>1, BuiltInPaths, SetupAssumption DEF ModelsOf

(* Whatever the files say, a request fits who gets it and no model that is *)
(* built in is lost (config/config-loader.ts, provider/multi.ts); and       *)
(* whatever a round is decided from, it is offered only the tools it may    *)
(* have (agent/gates/pre-round.ts).                                        *)
THEOREM EveryRequestFits == Spec => []RequestsFit
<1>1. Init => RegistryInv /\ OfferInv
  BY RegistryInvInit, OfferInvInit DEF Init, NoRuntime
<1>2. RegistryInv /\ [Next]_services => RegistryInv'
  <2>1. [Next]_services => [RegistryNext]_registryVars
    BY DEF Next, services, registryVars
  <2> QED
    BY <2>1, RegistryInvNext
<1>3. OfferInv /\ [Next]_services => OfferInv'
  <2>1. [Next]_services => [OfferNext]_offerVars
    BY DEF Next, services, offerVars
  <2> QED
    BY <2>1, OfferInvNext
<1> QED
  BY <1>1, <1>2, <1>3, FitsFromInv, PTL DEF Spec
=============================================================================
