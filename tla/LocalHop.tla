------------------------------ MODULE LocalHop ------------------------------
(***************************************************************************)
(* The localhost hop: the game client hands a command to its NUI frame,     *)
(* which looks for the companion on a range of ports (client/main.lua,      *)
(* nui/transport.js), and the companion's endpoint, which accepts           *)
(* connections, reads commands and passes the good ones on (server.rs,      *)
(* local.rs).  Companions start, quit and crash at any moment, other        *)
(* programs listen on ports of the range and connect to the endpoint, and   *)
(* a probe is given up after 600 ms whatever became of it.                  *)
(***************************************************************************)
EXTENDS Protocol, FiniteSets

CONSTANTS
    Ports,           \* LOCAL_PORT_RANGE_START .. LOCAL_PORT_RANGE_END
    Squatted,        \* ports another program listens on
    Commands,        \* what the server's first, second ... event may carry
    Origin,          \* the origin of each URL, "none" when it has none
    BuiltIn,         \* compiled-in backends
    SettingsFile,    \* fiveprotect.json: [parses, allowedBackends]
    Strays,          \* connections other programs open
    StrayCommands,   \* what they post, Null for whatever is no command
    MAX_CONCURRENT,
    MaxAsks, MaxStarts  \* bounds on attest events and on starts of a companion

NoPort == 0

ASSUME LocalHopAssumption ==
    /\ Ports \subseteq Nat \ {NoPort} /\ Squatted \subseteq Ports
    /\ MAX_CONCURRENT \in Nat \ {0} /\ MaxAsks \in Nat /\ MaxStarts \in Nat

ASSUME StraysAreNoDelivery == Strays \cap (0..MaxAsks) = {}

(* Anything may be posted; a text in it has no fewer bytes than characters.  *)
ASSUME TextsAreUtf8 ==
    \A cmd \in StrayCommands \cup (UNION {Commands[n] : n \in 1..MaxAsks}) :
        /\ cmd.t = "object" => \A k \in DOMAIN cmd.f :
              cmd.f[k].t = "text" => WellFormedText(cmd.f[k])
        /\ cmd.t = "list" => \A k \in DOMAIN cmd.items :
              cmd.items[k].t = "text" => WellFormedText(cmd.items[k])

Companions == 1..MaxStarts   \* one number per process, several may be up

VARIABLES
    port,       \* the port each companion listens on, NoPort when it is not up
    live,       \* its count of connections being served
    conns,      \* connections: [to, kind, cmd, ask, stage]
    forwarded,  \* per companion: what its endpoint passed on, in order
    starts,
    isRunning,  \* client/main.lua
    asks,       \* attest events taken so far
    command,    \* the command being delivered
    nui,        \* "idle", "remembered", "range" or "reporting"
    probe,      \* per port: "idle", "options", "post", "hit" or "miss"
    found,      \* the port deliver returns
    stored,     \* localStorage: the port that worked last
    lost,       \* whether a message between client and frame was lost
    steady,     \* companions up since the delivery began
    excused     \* ports whose probe was dropped, refused or timed out

companionVars == <<port, live, forwarded, starts>>
clientVars == <<isRunning, asks, command, nui, found, stored, lost>>
vars == <<companionVars, conns, clientVars, probe, steady, excused>>

Up(i) == port[i] # NoPort
Free(p) == p \notin Squatted /\ \A i \in Companions : port[i] # p
Least(S) == CHOOSE p \in S : \A q \in S : p <= q
Asked(i, ask) == {n \in DOMAIN forwarded[i] : forwarded[i][n].ask = ask}

Init ==
    /\ port = [i \in Companions |-> NoPort]
    /\ live = [i \in Companions |-> 0]
    /\ forwarded = [i \in Companions |-> <<>>]
    /\ starts = 0
    /\ conns = {}
    /\ isRunning = FALSE /\ asks = 0 /\ command = Null /\ lost = FALSE
    /\ nui = "idle" /\ found = NoPort /\ stored = NoPort
    /\ probe = [p \in Ports |-> "idle"]
    /\ steady = {} /\ excused = {}

-----------------------------------------------------------------------------
(* Endpoint::bind takes the first free port; without one the program exits.  *)
Start ==
    /\ starts < MaxStarts
    /\ starts' = starts + 1
    /\ \E p \in Ports : Free(p)
    /\ port' = [port EXCEPT ![starts'] = Least({p \in Ports : Free(p)})]
    /\ UNCHANGED <<live, forwarded, conns, clientVars, probe, steady, excused>>

(* The process quits or crashes: its sockets close and whoever waits on one  *)
(* sees it.                                                                  *)
Stop(i) ==
    /\ Up(i)
    /\ port' = [port EXCEPT ![i] = NoPort]
    /\ live' = [live EXCEPT ![i] = 0]
    /\ conns' = {c \in conns : c.to # i}
    /\ probe' = [probe EXCEPT ![port[i]] =
                    IF @ \in {"options", "post"} THEN "miss" ELSE @]
    /\ steady' = steady \ {i}
    /\ UNCHANGED <<forwarded, starts, clientVars, excused>>

-----------------------------------------------------------------------------
(* The accept loop: over the limit the connection is dropped, otherwise a    *)
(* thread is started for it; when that fails the count is taken back.        *)
Answer(c, state) ==
    IF c.kind # "stray" /\ c.ask = asks /\ probe[port[c.to]] \in {"options", "post"}
    THEN /\ probe' = [probe EXCEPT ![port[c.to]] = state]
         /\ excused' = IF state = "miss" THEN excused \cup {port[c.to]} ELSE excused
    ELSE UNCHANGED <<probe, excused>>

Dropped(c) == conns' = conns \ {c} /\ Answer(c, "miss")

Accept(c) ==
    /\ c.stage = "queued"
    /\ IF live[c.to] >= MAX_CONCURRENT
       THEN Dropped(c) /\ UNCHANGED live
       ELSE /\ live' = [live EXCEPT ![c.to] = @ + 1]
            /\ conns' = (conns \ {c}) \cup {[c EXCEPT !.stage = "serving"]}
            /\ UNCHANGED <<probe, excused>>
    /\ UNCHANGED <<port, forwarded, starts, clientVars, steady>>

SpawnFailsUncounted(c) ==
    /\ c.stage = "queued" /\ live[c.to] < MAX_CONCURRENT
    /\ live' = [live EXCEPT ![c.to] = @ + 1]
    /\ Dropped(c)
    /\ UNCHANGED <<port, forwarded, starts, clientVars, steady>>
SpawnFails(c) ==
    /\ c.stage = "queued" /\ live[c.to] < MAX_CONCURRENT
    /\ Dropped(c)
    /\ UNCHANGED <<companionVars, clientVars, steady>>

(* A file that cannot be read adds nothing and takes nothing away.           *)
AllowedBackends ==
    BuiltIn \cup (IF SettingsFile.parses THEN SettingsFile.allowedBackends ELSE {})

IsAllowedBackend(url) ==
    /\ Origin[url.form] # "none"
    /\ \E entry \in AllowedBackends : Origin[entry] = Origin[url.form]

(* handle_request, whoever posts: serde reads the struct from an object or by *)
(* position from a list, and what it hands on has no null for an absent name. *)
AsRead(cmd) == Struct("rust", "LocalAttestCommand", cmd)
LocalCommand(cmd) == DropNulls(AsRead(cmd))
AnyVersion(cmd) ==
    /\ Accepts("rust", "LocalAttestCommand", cmd)
    /\ IsAllowedBackend(AsRead(cmd).f.backendUrl)
HandleRequest(cmd) ==
    /\ Accepts("rust", "LocalAttestCommand", cmd)
    /\ AsRead(cmd).f.protocolVersion = Number(PROTOCOL_VERSION)
    /\ IsAllowedBackend(AsRead(cmd).f.backendUrl)

(* serve_one, up to its answer: a preflight is answered at once, a good      *)
(* command goes to the worker first.  Null stands for a request that is      *)
(* malformed, for another route, or incomplete until the read times out.     *)
ServeOne(c) ==
    /\ c.stage = "serving"
    /\ LET preflight == c.kind = "OPTIONS"
           good == preflight \/ HandleRequest(c.cmd)
       IN /\ conns' = (conns \ {c}) \cup {[c EXCEPT !.stage = IF good THEN "ok" ELSE "bad"]}
          /\ forwarded' = IF ~preflight /\ good
                          THEN [forwarded EXCEPT ![c.to] =
                                    Append(@, [ask |-> c.ask, cmd |-> LocalCommand(c.cmd)])]
                          ELSE forwarded
    /\ UNCHANGED <<port, live, starts, clientVars, probe,
                   steady, excused>>

(* write_response, which the NUI may no longer be waiting for, and the end   *)
(* of the thread.  A preflight's answer makes the browser send the POST.     *)
Respond(c) ==
    /\ c.stage \in {"ok", "bad"}
    /\ live' = [live EXCEPT ![c.to] = @ - 1]
    /\ IF c.kind = "OPTIONS" /\ c.ask = asks /\ probe[port[c.to]] = "options"
       THEN /\ probe' = [probe EXCEPT ![port[c.to]] = "post"]
            /\ conns' = (conns \ {c}) \cup
                        {[c EXCEPT !.kind = "POST", !.stage = "queued"]}
            /\ UNCHANGED excused
       ELSE /\ conns' = conns \ {c}
            /\ Answer(c, IF c.stage = "ok" THEN "hit" ELSE "miss")
    /\ UNCHANGED <<port, forwarded, starts, clientVars, steady>>

(* Another program on this machine connects and posts what it likes; the     *)
(* bounds: while a remembered port is being tried, when it can take the slot  *)
(* the probe needs, and not again once a command of it was passed on.         *)
Stray(s, i, cmd) ==
    /\ nui = "remembered"
    /\ Up(i) /\ \A c \in conns : c.ask # s
    /\ \A j \in Companions : Asked(j, s) = {}
    /\ conns' = conns \cup {[to |-> i, kind |-> "stray", cmd |-> cmd, ask |-> s,
                             stage |-> "queued"]}
    /\ UNCHANGED <<companionVars, clientVars, probe, steady, excused>>

-----------------------------------------------------------------------------
(* client/main.lua: one delivery at a time, an event during one is ignored.  *)
(* The message to the frame may be lost (the frame is not loaded).           *)
Attest(cmd, arrives) ==
    /\ asks < MaxAsks /\ ~isRunning /\ cmd \in Commands[asks + 1]
    /\ asks' = asks + 1 /\ isRunning' = TRUE /\ command' = cmd
    /\ nui' = IF ~arrives THEN "idle"
              ELSE IF stored # NoPort THEN "remembered" ELSE "range"
    /\ lost' = (lost \/ ~arrives)
    /\ steady' = {i \in Companions : Up(i)}
    /\ UNCHANGED <<companionVars, conns, found, stored, probe, excused>>

(* deliver: the remembered port first, then every other port at once.        *)
WholeRange == Ports
OtherPorts == Ports \ {stored}
Targets == IF nui = "remembered" THEN {stored} ELSE OtherPorts

(* tryPort for all of them at once.  A closed port answers at once; the      *)
(* browser may remember the preflight of the port that worked before.        *)
TryPorts(preflight) ==
    /\ (nui = "range" /\ preflight) \/ nui = "remembered"
    /\ \A p \in Targets : probe[p] = "idle"
    /\ probe' = [p \in Ports |-> IF p \notin Targets THEN probe[p]
                                 ELSE IF Free(p) THEN "miss"
                                 ELSE IF preflight THEN "options" ELSE "post"]
    /\ conns' = conns \cup
          {[to |-> i, kind |-> IF preflight THEN "OPTIONS" ELSE "POST",
            cmd |-> command, ask |-> asks, stage |-> "queued"] :
              i \in {j \in Companions : port[j] \in Targets}}
    /\ UNCHANGED <<companionVars, clientVars, steady, excused>>

(* Another program answers: an error, or a body that is not an ack.          *)
AnyBody == "hit"
OtherBody == "miss"
OtherAnswers(p) ==
    /\ p \in Squatted /\ probe[p] \in {"options", "post"}
    /\ probe' = [probe EXCEPT ![p] = OtherBody]
    /\ UNCHANGED <<companionVars, conns, clientVars, steady, excused>>

ProbeHangs(p) == FALSE /\ UNCHANGED vars
ProbeTimesOut(p) ==
    /\ probe[p] \in {"options", "post"}
    /\ probe' = [probe EXCEPT ![p] = "miss"]
    /\ excused' = excused \cup {p}
    /\ UNCHANGED <<companionVars, conns, clientVars, steady>>

Remembered ==
    /\ nui = "remembered" /\ probe[stored] \in {"hit", "miss"}
    /\ IF probe[stored] = "hit" THEN nui' = "reporting" /\ found' = stored
                                ELSE nui' = "range" /\ UNCHANGED found
    /\ probe' = [probe EXCEPT ![stored] = "idle"]
    /\ UNCHANGED <<companionVars, conns, isRunning, asks, command, stored, lost,
                   steady, excused>>

RangeDone ==
    /\ nui = "range" /\ \A p \in Targets : probe[p] \in {"hit", "miss"}
    /\ LET hits == {p \in Targets : probe[p] = "hit"} IN
          /\ found' = IF hits = {} THEN NoPort ELSE Least(hits)
          /\ stored' = IF hits = {} THEN stored ELSE Least(hits)
    /\ nui' = "reporting"
    /\ UNCHANGED <<companionVars, conns, isRunning, asks, command, lost, probe,
                   steady, excused>>

(* deliver returns and the frame reports; the report may be lost.            *)
DeliverReturns ==
    /\ nui = "reporting" /\ nui' = "idle"
    /\ probe' = [p \in Ports |-> "idle"] /\ found' = NoPort /\ command' = Null
    /\ steady' = {} /\ excused' = {}
    /\ UNCHANGED <<companionVars, conns, asks, stored>>

Report == DeliverReturns /\ isRunning' = FALSE /\ UNCHANGED lost
ReportLost == DeliverReturns /\ lost' = TRUE /\ UNCHANGED isRunning
-----------------------------------------------------------------------------
Next ==
    \/ Start
    \/ \E i \in Companions : Stop(i)
    \/ \E c \in conns : Accept(c)
    \/ \E c \in conns : SpawnFails(c)
    \/ \E c \in conns : ServeOne(c)
    \/ \E c \in conns : Respond(c)
    \/ \E s \in Strays, i \in Companions, cmd \in StrayCommands : Stray(s, i, cmd)
    \/ \E cmd \in UNION {Commands[n] : n \in 1..MaxAsks}, arrives \in BOOLEAN : Attest(cmd, arrives)
    \/ \E preflight \in BOOLEAN : TryPorts(preflight)
    \/ \E p \in Ports : OtherAnswers(p)
    \/ \E p \in Ports : ProbeTimesOut(p)
    \/ Remembered
    \/ RangeDone
    \/ Report
    \/ ReportLost

(* The frame's own steps happen: its probes are fired together, each has a   *)
(* timer of its own, and promises resolve.  Nothing is assumed of the        *)
(* companion or of other programs.                                           *)
Fairness ==
    /\ \A p \in Ports : WF_vars(ProbeTimesOut(p))
    /\ WF_vars(\E preflight \in BOOLEAN : TryPorts(preflight)) /\ WF_vars(Remembered) /\ WF_vars(RangeDone) /\ WF_vars(Report)

Spec == Init /\ [][Next]_vars /\ Fairness

-----------------------------------------------------------------------------
(* The endpoint's count is the number of threads serving a connection, and   *)
(* stays within the limit: it neither lets more through nor, by a count that *)
(* is never taken back, ends up refusing everyone.                           *)
SlotsAccounted ==
    \A i \in Companions :
        /\ live[i] = Cardinality({c \in conns : c.to = i /\ c.stage # "queued"})
        /\ live[i] <= MAX_CONCURRENT

(* The frame's report is true.  When it says the companion was reached, some *)
(* companion did pass this very command on, even if it has ended since: a    *)
(* program that happens to listen on the range is never taken for it.  When  *)
(* it says nothing was reached, every companion that was up throughout was   *)
(* tried, and dropped or refused the probe or was too slow for it.           *)
ReportIsTrue ==
    nui = "reporting" =>
        IF found # NoPort THEN \E i \in Companions : Asked(i, asks) # {}
                          ELSE \A i \in steady : port[i] \in excused

(* One delivery makes a companion scan at most once, also when its first     *)
(* answer came too late for the frame, which then goes through the range.    *)
OncePerCompanion ==
    \A i \in Companions, ask \in 1..MaxAsks : Cardinality(Asked(i, ask)) <= 1

(* Whoever posted it, the frame or any other program on the machine, what    *)
(* reaches the worker is a command the backend's schema would accept as well, *)
(* up to the capitals of its nonce, of this protocol version, for a trusted   *)
(* origin.  That is said of the struct handed on, not of the bytes posted: a  *)
(* null server name or a list is read here and refused by zod.                *)
ForwardedIsOurs ==
    \A i \in Companions : \A n \in DOMAIN forwarded[i] :
        LET cmd == forwarded[i][n].cmd IN
        /\ \/ Accepts("zod", "LocalAttestCommand", cmd)
           \/ cmd.f.nonce.form = "HEX"
        /\ cmd.f.protocolVersion.n = 1
        /\ \E entry \in AllowedBackends : Origin[entry] = Origin[cmd.f.backendUrl.form]

(* The client is busy only while a delivery is under way, and every delivery *)
(* ends, whatever listens on the range and whatever happens to the companions*)
(* meanwhile; it stays busy, and ignores every later nonce, only when a      *)
(* message to or from its frame was lost.                                    *)
BusyEnds == isRunning ~> (~isRunning \/ lost)
=============================================================================
