--------------------------- MODULE LocalHopProofs ---------------------------
(***************************************************************************)
(* Proofs about LocalHop for every range of ports, every set of ports other *)
(* programs hold, any number of companions, deliveries and stray            *)
(* connections, every limit on connections and every set of commands.       *)
(***************************************************************************)
EXTENDS LocalHop, FiniteSetTheorems, WellFoundedInduction, TLAPS

-----------------------------------------------------------------------------
Cmds == (UNION {Commands[n] : n \in 1..MaxAsks}) \cup StrayCommands \cup {Null}
Conn == [to    : Companions,
         kind  : {"OPTIONS", "POST", "stray"},
         cmd   : Cmds,
         ask   : Nat \cup Strays,
         stage : {"queued", "serving", "ok", "bad"}]
Entry == [ask : Nat \cup Strays, cmd : {LocalCommand(w) : w \in Cmds}]

(* Every variable the arguments below touch holds a value of its type.       *)
Typed ==
    /\ port \in [Companions -> Ports \cup {NoPort}]
    /\ live \in [Companions -> Nat]
    /\ conns \subseteq Conn
    /\ forwarded \in [Companions -> Seq(Entry)]
    /\ starts \in 0..MaxStarts
    /\ asks \in 0..MaxAsks
    /\ command \in Cmds
    /\ nui \in {"idle", "remembered", "range", "reporting"}
    /\ probe \in [Ports -> {"idle", "options", "post", "hit", "miss"}]
    /\ found \in Ports \cup {NoPort}
    /\ stored \in Ports \cup {NoPort}
    /\ steady \subseteq Companions
    /\ excused \subseteq Ports

(* Who listens where: a port has one listener, and a process that has not    *)
(* been started or has ended has no connections.                             *)
Listening ==
    /\ \A i, j \in Companions : (Up(i) /\ port[i] = port[j]) => i = j
    /\ \A i \in Companions : port[i] \notin Squatted
    /\ \A c \in conns : Up(c.to)
    /\ \A i \in Companions : i > starts => ~Up(i) /\ forwarded[i] = <<>>

(* A delivery: one at a time, its probes settled before and after it.        *)
Delivering ==
    /\ nui # "idle" => isRunning /\ asks >= 1
    /\ nui = "idle" => \A p \in Ports : probe[p] = "idle"
    /\ nui = "remembered" => stored # NoPort

(* Connections of the frame's probes, which carry the delivery's number.     *)
Probing(c) == c.kind # "stray"
HasAsked(i, ask) == \E n \in DOMAIN forwarded[i] : forwarded[i][n].ask = ask

(* The frame is done with the port of i in this delivery.                    *)
Tried(i) ==
    \/ nui \in {"idle", "reporting"}
    \/ port[i] = stored /\ (nui = "remembered" => probe[stored] # "idle")
    \/ nui = "range" /\ probe[port[i]] # "idle"

(* The numbers of what was passed on: a delivery's stands once in a list.     *)
Numbered ==
    /\ \A i \in Companions : \A n \in DOMAIN forwarded[i] :
          forwarded[i][n].ask \in (1..asks) \cup Strays
    /\ \A i \in Companions : \A m, n \in DOMAIN forwarded[i] :
          (forwarded[i][m].ask = forwarded[i][n].ask /\ forwarded[i][m].ask \notin Strays)
              => m = n

(* A companion gets one probe per delivery, and passes it on at most once.   *)
Once ==
    /\ \A c \in conns : Probing(c) => c.ask \in 1..asks
    /\ \A c \in conns : ~Probing(c) => c.ask \in Strays
    /\ Numbered
    /\ \A c, d \in conns :
          (c.to = d.to /\ c.ask = d.ask /\ (Probing(c) <=> Probing(d))) => c = d
    /\ \A c \in conns :
          (Probing(c) /\ (c.kind = "OPTIONS" \/ c.stage \in {"queued", "serving"}))
              => ~HasAsked(c.to, c.ask)
    /\ \A c \in conns : (Probing(c) /\ c.ask = asks) => Tried(c.to)
    /\ \A i \in Companions : (Up(i) /\ HasAsked(i, asks)) => Tried(i)

(* The threads of companion i.                                               *)
Serving(i) == {c \in conns : c.to = i /\ c.stage # "queued"}
Slots ==
    \A i \in Companions :
        /\ IsFiniteSet(Serving(i))
        /\ live[i] = Cardinality(Serving(i))
        /\ live[i] <= MAX_CONCURRENT

Ours(cmd) == \E w \in Cmds : HandleRequest(w) /\ cmd = LocalCommand(w)
Forwarding ==
    \A i \in Companions : \A n \in DOMAIN forwarded[i] : Ours(forwarded[i][n].cmd)

(* A POST is answered well only after its command was passed on, and follows *)
(* its preflight: a hit is a command passed on.                              *)
Passed == \A c \in conns : (c.kind = "POST" /\ c.stage = "ok") => HasAsked(c.to, c.ask)
Preflighted ==
    \A c \in conns : (c.kind = "OPTIONS" /\ c.ask = asks) => probe[port[c.to]] # "post"
Reached == \E i \in Companions : HasAsked(i, asks)
HitsAreTrue == \A p \in Ports : probe[p] = "hit" => Reached

(* A companion that was up all along is missed only for a reason.            *)
Missed(i) ==
    probe[port[i]] = "miss" \/ (nui = "range" /\ port[i] = stored)
MissesAreExcused ==
    \A i \in steady : Up(i) /\ (Missed(i) => port[i] \in excused)
Reported ==
    nui = "reporting" =>
        IF found # NoPort THEN Reached ELSE \A i \in steady : port[i] \in excused

Honest == Passed /\ Preflighted /\ HitsAreTrue /\ MissesAreExcused /\ Reported

HopInv == Typed /\ Listening /\ Delivering /\ Once

-----------------------------------------------------------------------------
(* Facts about the operators.                                                *)
LEMMA StrayNumbers ==
    ASSUME Typed, NEW s \in Strays
    PROVE  s # asks /\ s \notin 1..asks
  BY StraysAreNoDelivery, LocalHopAssumption DEF Typed

LEMMA NumberedStays ==
    ASSUME Numbered, asks \in Nat, asks' = asks \/ asks' = asks + 1, UNCHANGED forwarded
    PROVE  Numbered'
  BY DEF Numbered

LEMMA PortFacts ==
    /\ NoPort \notin Ports
    /\ \A p \in Ports : p \in Nat
  BY LocalHopAssumption

(* Endpoint::bind and deliver take the least of a set of ports.              *)
LEMMA LeastIn ==
    ASSUME NEW S \in SUBSET Ports, S # {}
    PROVE  Least(S) \in S
<1>1. S \subseteq Nat
  BY PortFacts
<1>2. PICK p \in S : \A q \in S : ~(<<q, p>> \in OpToRel(<, Nat))
  BY <1>1, NatLessThanWellFounded, WFMin
<1>3. ASSUME NEW q \in S PROVE p <= q
  <2>1. p \in Nat /\ q \in Nat
    BY <1>1
  <2> DEFINE pair == <<q, p>>
  <2>2. pair \in Nat \X Nat /\ pair[1] = q /\ pair[2] = p
    BY <2>1
  <2>3. ~(pair[1] < pair[2])
    <3> HIDE DEF pair
    <3>1. pair \in {ss \in Nat \X Nat : ss[1] < ss[2]} <=> pair[1] < pair[2]
      BY <2>2
    <3>2. QED
      BY <1>2, <3>1 DEF OpToRel, pair
  <2>4. QED
    BY <2>1, <2>2, <2>3
<1>4. QED
  BY <1>3 DEF Least

(* What forwarding one more command does to the list of one companion.       *)
LEMMA AppendFacts ==
    ASSUME NEW q \in Seq(Entry), NEW e \in Entry
    PROVE  /\ Append(q, e) \in Seq(Entry)
           /\ DOMAIN q = 1..Len(q)
           /\ DOMAIN Append(q, e) = DOMAIN q \cup {Len(q) + 1}
           /\ Len(q) + 1 \notin DOMAIN q
           /\ Append(q, e)[Len(q) + 1] = e
           /\ \A n \in DOMAIN q : Append(q, e)[n] = q[n]
  OBVIOUS

(* A connection moves on.                                                    *)
LEMMA ConnFacts ==
    ASSUME NEW c \in Conn, NEW x \in {"queued", "serving", "ok", "bad"}
    PROVE  /\ [c EXCEPT !.stage = x] \in Conn
           /\ [c EXCEPT !.stage = x].to = c.to
           /\ [c EXCEPT !.stage = x].kind = c.kind
           /\ [c EXCEPT !.stage = x].ask = c.ask
           /\ [c EXCEPT !.stage = x].cmd = c.cmd
           /\ [c EXCEPT !.stage = x].stage = x
           /\ [c EXCEPT !.kind = "POST", !.stage = x] \in Conn
           /\ [c EXCEPT !.kind = "POST", !.stage = x].to = c.to
           /\ [c EXCEPT !.kind = "POST", !.stage = x].kind = "POST"
           /\ [c EXCEPT !.kind = "POST", !.stage = x].ask = c.ask
           /\ [c EXCEPT !.kind = "POST", !.stage = x].cmd = c.cmd
           /\ [c EXCEPT !.kind = "POST", !.stage = x].stage = x
  BY DEF Conn

(* An answer settles the probe of this delivery, if the frame still waits.   *)
LEMMA AnswerFacts ==
    ASSUME Typed, NEW c \in conns, port[c.to] \in Ports,
           NEW state \in {"hit", "miss"}, Answer(c, state)
    PROVE  /\ probe' \in [Ports -> {"idle", "options", "post", "hit", "miss"}]
           /\ excused' \subseteq Ports
           /\ excused \subseteq excused'
           /\ \A p \in Ports :
                 \/ probe'[p] = probe[p]
                 \/ /\ p = port[c.to] /\ probe[p] \in {"options", "post"}
                    /\ probe'[p] = state
                    /\ c.kind # "stray" /\ c.ask = asks
                    /\ state = "miss" => p \in excused'
<1>1. CASE c.kind # "stray" /\ c.ask = asks /\ probe[port[c.to]] \in {"options", "post"}
  <2>1. /\ probe' = [probe EXCEPT ![port[c.to]] = state]
        /\ excused' = IF state = "miss" THEN excused \cup {port[c.to]} ELSE excused
    BY <1>1 DEF Answer
  <2>2. QED
    BY <1>1, <2>1 DEF Typed
<1>2. CASE ~(c.kind # "stray" /\ c.ask = asks /\ probe[port[c.to]] \in {"options", "post"})
  <2>1. probe' = probe /\ excused' = excused
    BY <1>2 DEF Answer
  <2>2. QED
    BY <2>1 DEF Typed
<1>3. QED
  BY <1>1, <1>2

(* A step that opens no connection and does not make the frame forget.       *)
LEMMA OnceShrinks ==
    ASSUME HopInv, conns' \subseteq conns,
           UNCHANGED <<forwarded, asks>>,
           \A i \in Companions : Up(i)' => port'[i] = port[i],
           \A i \in Companions : (Up(i)' /\ Tried(i)) => Tried(i)',
           \A c \in conns' : Up(c.to)'
    PROVE  Once'
<1>1. \A i \in Companions, a \in Nat : HasAsked(i, a)' <=> HasAsked(i, a)
  BY DEF HasAsked
<1>2. \A c \in conns' : c \in conns /\ c.to \in Companions
  BY DEF HopInv, Typed, Conn
<1>3. /\ \A c \in conns' : Probing(c) => c.ask \in 1..asks
      /\ \A c \in conns' : ~Probing(c) => c.ask \in Strays
      /\ Numbered'
      /\ \A c, d \in conns' :
            (c.to = d.to /\ c.ask = d.ask /\ (Probing(c) <=> Probing(d))) => c = d
  <2>1. Numbered'
    BY NumberedStays DEF HopInv, Once, Typed
  <2>2. QED
    BY <1>2, <2>1 DEF HopInv, Once
<1>4. \A c \in conns' :
         (Probing(c) /\ (c.kind = "OPTIONS" \/ c.stage \in {"queued", "serving"}))
             => ~HasAsked(c.to, c.ask)'
  BY <1>2 DEF HopInv, Once, HasAsked
<1>5. \A c \in conns' : (Probing(c) /\ c.ask = asks) => Tried(c.to)'
  BY <1>2 DEF HopInv, Once
<1>6. \A i \in Companions : (Up(i)' /\ HasAsked(i, asks)') => Tried(i)'
  BY DEF HopInv, Once, HasAsked, Up
<1>7. QED
  BY <1>3, <1>4, <1>5, <1>6 DEF Once, Probing

(* Endpoint::bind: a new process on a free port, unasked so far.              *)
LEMMA StartStep ==
    ASSUME HopInv, Start
    PROVE  HopInv'
<1> USE DEF HopInv
<1> DEFINE i == starts + 1
           p == Least({q \in Ports : Free(q)})
<1>1. p \in Ports /\ Free(p)
  BY LeastIn DEF Start
<1>2. i \in Companions /\ i > starts /\ starts' = i
  BY LocalHopAssumption DEF Start, Typed, Companions
<1>3. /\ port' = [port EXCEPT ![i] = p]
      /\ UNCHANGED <<live, forwarded, conns, isRunning, asks, command, nui,
                     found, stored, lost, probe, steady, excused>>
  BY DEF Start, clientVars
<1> HIDE DEF p, i
<1>4. port'[i] = p /\ \A j \in Companions \ {i} : port'[j] = port[j]
  BY <1>2, <1>3 DEF Typed
<1>5. ~Up(i) /\ forwarded[i] = <<>>
  BY <1>2 DEF Listening
<1>6. Typed'
  BY <1>1, <1>2, <1>3, LocalHopAssumption DEF Typed, Companions
<1>7. Listening'
  <2>1. /\ \A j, k \in Companions : (Up(j)' /\ port'[j] = port'[k]) => j = k
        /\ \A j \in Companions : port'[j] \notin Squatted
    BY <1>1, <1>4 DEF Listening, Up, Free
  <2>2. \A c \in conns' : Up(c.to)'
    BY <1>1, <1>3, <1>4, PortFacts DEF Listening, Up, Typed, Conn
  <2>3. \A j \in Companions : j > starts' => ~Up(j)' /\ forwarded'[j] = <<>>
    BY <1>2, <1>3, <1>4 DEF Listening, Up, Typed, Companions
  <2>4. QED
    BY <2>1, <2>2, <2>3 DEF Listening
<1>8. Delivering'
  BY <1>3 DEF Delivering
<1>9. Once'
  <2>1. \A j \in Companions \ {i} : Tried(j)' <=> Tried(j)
    BY <1>3, <1>4 DEF Tried
  <2>2. \A c \in conns : c.to \in Companions \ {i}
    BY <1>5 DEF Typed, Conn, Listening
  <2>3. \A j \in Companions : \A a : HasAsked(j, a)' <=> HasAsked(j, a)
    BY <1>3 DEF HasAsked
  <2>4. ~\E a : HasAsked(i, a)
    BY <1>5 DEF HasAsked
  <2>5. \A j \in Companions \ {i} : Up(j)' <=> Up(j)
    BY <1>4 DEF Up
  <2>6. /\ \A c \in conns' : Probing(c) => c.ask \in 1..asks'
        /\ \A c \in conns' : ~Probing(c) => c.ask \in Strays
        /\ Numbered'
        /\ \A c, d \in conns' :
              (c.to = d.to /\ c.ask = d.ask /\ (Probing(c) <=> Probing(d))) => c = d
    BY <1>3, NumberedStays DEF Once, Typed
  <2>7. /\ \A c \in conns' :
              (Probing(c) /\ (c.kind = "OPTIONS" \/ c.stage \in {"queued", "serving"}))
                  => ~HasAsked(c.to, c.ask)'
        /\ \A c \in conns' : (Probing(c) /\ c.ask = asks') => Tried(c.to)'
    BY <1>3, <2>1, <2>2, <2>3 DEF Once
  <2>8. \A j \in Companions : (Up(j)' /\ HasAsked(j, asks)') => Tried(j)'
    BY <1>3, <2>1, <2>3, <2>4, <2>5 DEF Once, HasAsked
  <2>9. QED
    BY <2>6, <2>7, <2>8 DEF Once, Probing
<1>10. QED
  BY <1>6, <1>7, <1>8, <1>9

(* A process ends, with its connections.                                      *)
LEMMA StopStep ==
    ASSUME HopInv, NEW i \in Companions, Stop(i)
    PROVE  HopInv'
<1> USE DEF HopInv
<1>1. /\ Up(i) /\ port[i] \in Ports
      /\ port'[i] = NoPort /\ \A j \in Companions \ {i} : port'[j] = port[j]
      /\ conns' = {c \in conns : c.to # i}
      /\ UNCHANGED <<forwarded, starts, isRunning, asks, command, nui, found,
                     stored, lost, excused>>
  BY DEF Stop, clientVars, Typed, Up
<1>2. /\ \A p \in Ports : probe'[p] = IF p = port[i] /\ probe[p] \in {"options", "post"}
                                      THEN "miss" ELSE probe[p]
      /\ probe' \in [Ports -> {"idle", "options", "post", "hit", "miss"}]
  BY <1>1 DEF Stop, Typed
<1>3. Typed'
  <2>1. /\ port' \in [Companions -> Ports \cup {NoPort}]
        /\ live' \in [Companions -> Nat]
        /\ steady' \subseteq Companions
    BY DEF Stop, Typed
  <2>2. QED
    BY <1>1, <1>2, <2>1 DEF Typed
<1>4. Listening'
  <2>1. NoPort \notin Squatted
    BY LocalHopAssumption
  <2>2. \A j \in Companions : Up(j)' <=> Up(j) /\ j # i
    BY <1>1 DEF Up
  <2>3. /\ \A j, k \in Companions : (Up(j)' /\ port'[j] = port'[k]) => j = k
        /\ \A j \in Companions : port'[j] \notin Squatted
    BY <1>1, <2>1, <2>2 DEF Listening, Up
  <2>4. \A c \in conns' : Up(c.to)'
    BY <1>1, <2>2 DEF Listening, Typed, Conn
  <2>5. \A j \in Companions : j > starts' => ~Up(j)' /\ forwarded'[j] = <<>>
    BY <1>1, <2>2 DEF Listening
  <2>6. QED
    BY <2>3, <2>4, <2>5 DEF Listening
<1>5. Delivering'
  BY <1>1, <1>2 DEF Delivering, Typed
<1>6. Once'
  <2>1. \A j \in Companions : Up(j)' => port'[j] = port[j] /\ port[j] \in Ports
    BY <1>1 DEF Up, Typed
  <2>2. stored \in Ports => (probe[stored] # "idle" => probe'[stored] # "idle")
    BY <1>2
  <2>3. \A j \in Companions : (Up(j)' /\ Tried(j)) => Tried(j)'
    BY <1>1, <1>2, <2>1, <2>2 DEF Tried, Delivering, Typed
  <2>4. \A c \in conns' : Up(c.to)'
    BY <1>4 DEF Listening
  <2>5. QED
    BY <1>1, <2>1, <2>3, <2>4, OnceShrinks
<1>7. QED
  BY <1>3, <1>4, <1>5, <1>6

(* What an answer, or none, leaves of a delivery.                             *)
LEMMA TriedStays ==
    ASSUME HopInv, UNCHANGED <<port, nui, stored>>,
           \A p \in Ports : probe[p] # "idle" => probe'[p] # "idle",
           NEW i \in Companions, Up(i), Tried(i)
    PROVE  Tried(i)'
<1>1. port[i] \in Ports
  BY DEF HopInv, Typed, Up
<1>2. nui = "remembered" => stored \in Ports
  BY DEF HopInv, Typed, Delivering
<1>3. QED
  BY <1>1, <1>2 DEF Tried

(* A connection ends: dropped, or answered.                                   *)
LEMMA DropStep ==
    ASSUME HopInv, NEW c \in conns, NEW state \in {"hit", "miss"},
           conns' = conns \ {c}, Answer(c, state),
           live' \in [Companions -> Nat],
           UNCHANGED <<port, forwarded, starts, clientVars, steady>>
    PROVE  HopInv'
<1> USE DEF HopInv, clientVars
<1>0. port[c.to] \in Ports
  BY DEF Typed, Listening, Conn, Up
<1>1. /\ probe' \in [Ports -> {"idle", "options", "post", "hit", "miss"}]
      /\ excused' \subseteq Ports
      /\ \A p \in Ports : probe'[p] = probe[p] \/ (probe[p] # "idle" /\ probe'[p] # "idle")
  BY <1>0, AnswerFacts
<1>2. Typed'
  BY <1>1 DEF Typed
<1>3. Listening'
  BY DEF Listening, Up
<1>4. Delivering'
  BY <1>1 DEF Delivering
<1>5. Once'
  <2>1. \A i \in Companions : (Up(i)' /\ Tried(i)) => Tried(i)'
    BY <1>1, TriedStays DEF Up
  <2>2. \A x \in conns' : Up(x.to)'
    BY <1>3 DEF Listening
  <2>3. QED
    BY <2>1, <2>2, OnceShrinks
<1>6. QED
  BY <1>2, <1>3, <1>4, <1>5

(* A connection moves on to d.                                                *)
Follows(c, d) ==
    /\ d \in Conn
    /\ d.to = c.to /\ d.ask = c.ask
    /\ Probing(c) <=> Probing(d)

(* It is the only one of its companion and number, before and after.          *)
LEMMA FollowsAlone ==
    ASSUME HopInv, NEW c \in conns, NEW d, Follows(c, d),
           conns' = (conns \ {c}) \cup {d}
    PROVE  /\ d \in conns => d = c
           /\ \A x, y \in conns' :
                 (x.to = y.to /\ x.ask = y.ask /\ (Probing(x) <=> Probing(y)))
                     => x = y
           /\ \A x \in conns' : x # d => x \in conns
  BY DEF HopInv, Once, Follows

(* A connection moves on and nothing is forwarded.                            *)
LEMMA ReplaceStep ==
    ASSUME HopInv, NEW c \in conns, NEW d, Follows(c, d),
           conns' = (conns \ {c}) \cup {d},
           (d.kind = "OPTIONS" \/ d.stage \in {"queued", "serving"}) =>
               (c.kind = "OPTIONS" \/ c.stage \in {"queued", "serving"}),
           live' \in [Companions -> Nat],
           probe' \in [Ports -> {"idle", "options", "post", "hit", "miss"}],
           \A p \in Ports : probe'[p] = probe[p] \/ (probe[p] # "idle" /\ probe'[p] # "idle"),
           UNCHANGED <<port, forwarded, starts, clientVars, steady, excused>>
    PROVE  HopInv'
<1> USE DEF HopInv, clientVars
<1>1. Typed'
  BY DEF Typed, Follows
<1>2. Listening'
  BY DEF Listening, Up, Follows
<1>3. Delivering'
  BY DEF Delivering
<1>4. Once'
  <2>1. \A i \in Companions : (Up(i) /\ Tried(i)) => Tried(i)'
    BY TriedStays
  <2>2. \A i, a : HasAsked(i, a)' <=> HasAsked(i, a)
    BY DEF HasAsked
  <2>3. \A x \in conns : x.to \in Companions /\ Up(x.to)
    BY DEF Typed, Conn, Listening
  <2>4. /\ \A x \in conns' : Probing(x) => x.ask \in 1..asks'
        /\ \A x \in conns' : ~Probing(x) => x.ask \in Strays
        /\ Numbered'
    BY NumberedStays DEF Once, Follows, Typed
  <2>5. \A x, y \in conns' :
           (x.to = y.to /\ x.ask = y.ask /\ (Probing(x) <=> Probing(y))) => x = y
    BY FollowsAlone
  <2>6. \A x \in conns' :
           (Probing(x) /\ (x.kind = "OPTIONS" \/ x.stage \in {"queued", "serving"}))
               => ~HasAsked(x.to, x.ask)'
    BY <2>2 DEF Once, Follows
  <2>7. \A x \in conns' : (Probing(x) /\ x.ask = asks') => Tried(x.to)'
    BY <2>1, <2>3 DEF Once, Follows
  <2>8. \A i \in Companions : (Up(i)' /\ HasAsked(i, asks)') => Tried(i)'
    BY <2>1, <2>2 DEF Once, Up, HasAsked
  <2>9. QED
    BY <2>4, <2>5, <2>6, <2>7, <2>8 DEF Once, Probing
<1>5. QED
  BY <1>1, <1>2, <1>3, <1>4

(* serve_one and its answer for a command that is passed on: a delivery's     *)
(* number was not among the forwarded ones, and is now, once.                 *)
LEMMA ForwardStep ==
    ASSUME HopInv, NEW c \in conns, NEW d, Follows(c, d),
           conns' = (conns \ {c}) \cup {d},
           c.kind # "OPTIONS", c.stage = "serving",
           d.kind # "OPTIONS", d.stage = "ok",
           forwarded' = [forwarded EXCEPT ![c.to] =
                             Append(@, [ask |-> c.ask, cmd |-> LocalCommand(c.cmd)])],
           UNCHANGED <<port, live, starts, clientVars, probe, steady, excused>>
    PROVE  HopInv'
<1> USE DEF HopInv, clientVars
<1> DEFINE i == c.to
           e == [ask |-> c.ask, cmd |-> LocalCommand(c.cmd)]
           q == forwarded[i]
           k == Len(q) + 1
<1>0. /\ Probing(c) <=> Probing(d)
      /\ Probing(c) => c.ask \in 1..asks
      /\ ~Probing(c) => c.ask \in Strays
      /\ c.ask \in Strays => ~Probing(c) /\ c.ask # asks /\ c.ask \notin 1..asks
  BY StrayNumbers DEF Once, Follows
<1>1. /\ i \in Companions /\ q \in Seq(Entry) /\ Up(i)
      /\ e \in Entry /\ e.ask = c.ask
      /\ c.ask \in (1..asks) \cup Strays
  <2>1. /\ i \in Companions /\ q \in Seq(Entry) /\ Up(i) /\ c.cmd \in Cmds
        /\ c.ask \in Nat \cup Strays
    BY DEF Typed, Conn, Listening
  <2>2. e \in Entry /\ e.ask = c.ask
    BY <2>1 DEF Entry
  <2>3. QED
    BY <1>0, <2>1, <2>2
<1>2. forwarded'[i] = Append(q, e) /\ \A j \in Companions \ {i} : forwarded'[j] = forwarded[j]
  BY <1>1 DEF Typed
<1>3. /\ DOMAIN forwarded'[i] = DOMAIN q \cup {k} /\ k \notin DOMAIN q
      /\ forwarded'[i][k].ask = c.ask
      /\ \A n \in DOMAIN q : forwarded'[i][n] = q[n]
      /\ forwarded'[i] \in Seq(Entry)
  <2> HIDE DEF e, q
  <2>1. /\ Append(q, e) \in Seq(Entry)
        /\ DOMAIN Append(q, e) = DOMAIN q \cup {Len(q) + 1}
        /\ Len(q) + 1 \notin DOMAIN q
        /\ Append(q, e)[Len(q) + 1] = e
        /\ \A n \in DOMAIN q : Append(q, e)[n] = q[n]
    <3>1. q \in Seq(Entry) /\ e \in Entry
      BY <1>1
    <3> QED
      BY ONLY <3>1, AppendFacts
  <2>2. e.ask = c.ask /\ forwarded'[i] = Append(q, e)
    BY <1>1, <1>2
  <2>3. QED
    BY ONLY <2>1, <2>2
<1>4. Probing(c) => ~HasAsked(i, c.ask)
  BY <1>1 DEF Once
<1> HIDE DEF e, k
<1>5. /\ \A j \in Companions : \A a : (j # i \/ a # c.ask) => (HasAsked(j, a)' <=> HasAsked(j, a))
      /\ HasAsked(i, c.ask)'
  BY <1>1, <1>2, <1>3 DEF HasAsked
<1>6. Typed'
  <2>1. forwarded' \in [Companions -> Seq(Entry)]
    BY <1>1, <1>3 DEF Typed
  <2>2. QED
    BY <2>1 DEF Typed, Follows
<1>7. Listening'
  <2>1. \A j \in Companions : j > starts => j # i
    BY <1>1 DEF Listening
  <2>2. QED
    BY <1>2, <2>1 DEF Listening, Up, Follows
<1>8. Delivering'
  BY DEF Delivering
<1>9. Once'
  <2>1. \A x \in conns' : (x # d /\ Probing(x)) =>
           x \in conns /\ (x.to # i \/ x.ask # c.ask)
    <3> SUFFICES ASSUME NEW x \in conns', x # d, Probing(x)
                 PROVE  x \in conns /\ (x.to # i \/ x.ask # c.ask)
      OBVIOUS
    <3>1. x \in conns
      BY FollowsAlone
    <3>2. CASE Probing(c)
      BY <1>0, <3>1, <3>2, FollowsAlone DEF Follows
    <3>3. CASE ~Probing(c)
      BY <1>0, <3>1, <3>3 DEF Once
    <3>4. QED
      BY <3>1, <3>2, <3>3
  <2>2. \A j \in Companions : Tried(j)' <=> Tried(j)
    BY DEF Tried
  <2>3. /\ \A x \in conns' : Probing(x) => x.ask \in 1..asks'
        /\ \A x \in conns' : ~Probing(x) => x.ask \in Strays
    BY DEF Once, Follows
  <2>4. \A j \in Companions : \A n \in DOMAIN forwarded'[j] :
              forwarded'[j][n].ask \in (1..asks') \cup Strays
    BY <1>1, <1>2, <1>3 DEF Once, Numbered
  <2>5. ASSUME NEW j \in Companions, NEW m \in DOMAIN forwarded'[j],
               NEW n \in DOMAIN forwarded'[j],
               forwarded'[j][m].ask = forwarded'[j][n].ask,
               forwarded'[j][m].ask \notin Strays
        PROVE  m = n
    <3>1. CASE j = i /\ (m = k \/ n = k)
      <4>1. forwarded'[i][m].ask = c.ask /\ forwarded'[i][n].ask = c.ask
        BY <1>3, <2>5, <3>1
      <4>2. Probing(c)
        BY <1>0, <2>5, <3>1, <4>1
      <4>3. m \notin DOMAIN q /\ n \notin DOMAIN q
        BY <1>3, <1>4, <4>1, <4>2 DEF HasAsked
      <4>4. QED
        BY <1>3, <2>5, <3>1, <4>3
    <3>2. CASE ~(j = i /\ (m = k \/ n = k))
      BY <1>2, <1>3, <2>5, <3>2 DEF Once, Numbered
    <3>3. QED
      BY <3>1, <3>2
  <2>6. \A x, y \in conns' :
           (x.to = y.to /\ x.ask = y.ask /\ (Probing(x) <=> Probing(y))) => x = y
    BY FollowsAlone
  <2>7. \A x \in conns' :
           (Probing(x) /\ (x.kind = "OPTIONS" \/ x.stage \in {"queued", "serving"}))
               => ~HasAsked(x.to, x.ask)'
    <3> SUFFICES ASSUME NEW x \in conns', Probing(x),
                        x.kind = "OPTIONS" \/ x.stage \in {"queued", "serving"}
                 PROVE  ~HasAsked(x.to, x.ask)'
      OBVIOUS
    <3>1. x # d
      OBVIOUS
    <3>2. x \in conns /\ x.to \in Companions /\ (x.to # i \/ x.ask # c.ask)
      BY <2>1, <3>1 DEF Typed, Conn
    <3>3. QED
      BY <1>5, <3>2 DEF Once
  <2>8. \A x \in conns' : (Probing(x) /\ x.ask = asks') => Tried(x.to)'
    BY <1>0, <1>1, <2>2 DEF Once, Follows, Typed, Conn
  <2>9. \A j \in Companions : (Up(j)' /\ HasAsked(j, asks)') => Tried(j)'
    <3> SUFFICES ASSUME NEW j \in Companions, Up(j)', HasAsked(j, asks)'
                 PROVE  Tried(j)
      BY <2>2
    <3>1. CASE j = i /\ c.ask = asks
      BY <1>0, <1>1, <3>1 DEF Once
    <3>2. CASE ~(j = i /\ c.ask = asks)
      BY <1>5, <3>2 DEF Once, Up, HasAsked
    <3>3. QED
      BY <3>1, <3>2
  <2>10. QED
    BY <2>3, <2>4, <2>5, <2>6, <2>7, <2>8, <2>9 DEF Once, Numbered, Probing
<1>10. QED
  BY <1>6, <1>7, <1>8, <1>9

-----------------------------------------------------------------------------
(* The endpoint's threads.                                                    *)
LEMMA AcceptStep ==
    ASSUME HopInv, NEW c \in conns, Accept(c)
    PROVE  HopInv'
<1>1. CASE live[c.to] >= MAX_CONCURRENT
  <2>1. live' \in [Companions -> Nat]
    BY <1>1 DEF Accept, HopInv, Typed
  <2>2. QED
    BY <1>1, <2>1, DropStep DEF Accept, Dropped
<1>2. CASE ~(live[c.to] >= MAX_CONCURRENT)
  <2> DEFINE d == [c EXCEPT !.stage = "serving"]
  <2>1. c \in Conn
    BY DEF HopInv, Typed
  <2>2. Follows(c, d) /\ d.stage = "serving"
    BY <2>1, ConnFacts DEF Follows, Probing
  <2>3. live' \in [Companions -> Nat]
    <3>1. c.to \in Companions /\ live[c.to] + 1 \in Nat
      BY <2>1 DEF HopInv, Typed, Conn
    <3>2. live' = [live EXCEPT ![c.to] = @ + 1]
      BY <1>2 DEF Accept
    <3>3. QED
      BY <3>1, <3>2 DEF HopInv, Typed
  <2>4. /\ conns' = (conns \ {c}) \cup {d} /\ c.stage = "queued"
        /\ UNCHANGED <<port, forwarded, starts, clientVars, steady, probe, excused>>
    BY <1>2 DEF Accept
  <2>5. probe' \in [Ports -> {"idle", "options", "post", "hit", "miss"}]
    BY <2>4 DEF HopInv, Typed
  <2> HIDE DEF d
  <2>6. QED
    BY <2>2, <2>3, <2>4, <2>5, ReplaceStep
<1>3. QED
  BY <1>1, <1>2

LEMMA SpawnFailsStep ==
    ASSUME HopInv, NEW c \in conns, SpawnFails(c)
    PROVE  HopInv'
  BY DropStep DEF SpawnFails, Dropped, companionVars, HopInv, Typed

LEMMA ServeOneStep ==
    ASSUME HopInv, NEW c \in conns, ServeOne(c)
    PROVE  HopInv'
<1> DEFINE good == c.kind = "OPTIONS" \/ HandleRequest(c.cmd)
           x == IF good THEN "ok" ELSE "bad"
           d == [c EXCEPT !.stage = x]
<1>1. c \in Conn /\ x \in {"queued", "serving", "ok", "bad"}
  BY DEF HopInv, Typed
<1>2. Follows(c, d) /\ d.stage = x /\ d.kind = c.kind
  <2> HIDE DEF x
  <2>1. d \in Conn /\ d.to = c.to /\ d.kind = c.kind /\ d.ask = c.ask /\ d.stage = x
    BY <1>1 DEF Conn
  <2> HIDE DEF d
  <2>2. QED
    BY <2>1 DEF Follows, Probing
<1>3. /\ c.stage = "serving"
      /\ conns' = (conns \ {c}) \cup {d}
      /\ forwarded' = IF c.kind # "OPTIONS" /\ good
                      THEN [forwarded EXCEPT ![c.to] = Append(@, [ask |-> c.ask, cmd |-> LocalCommand(c.cmd)])]
                      ELSE forwarded
      /\ UNCHANGED <<port, live, starts, clientVars, probe, steady, excused>>
  BY DEF ServeOne
<1> HIDE DEF d, good
<1>4. CASE c.kind # "OPTIONS" /\ good
  <2>1. /\ d.stage = "ok" /\ d.kind # "OPTIONS"
        /\ forwarded' = [forwarded EXCEPT ![c.to] = Append(@, [ask |-> c.ask, cmd |-> LocalCommand(c.cmd)])]
    BY <1>2, <1>3, <1>4
  <2>2. QED
    BY <1>2, <1>3, <1>4, <2>1, ForwardStep
<1>5. CASE ~(c.kind # "OPTIONS" /\ good)
  <2>1. /\ live' \in [Companions -> Nat]
        /\ probe' \in [Ports -> {"idle", "options", "post", "hit", "miss"}]
    BY <1>3 DEF HopInv, Typed
  <2>2. d.stage \in {"ok", "bad"}
    BY <1>2
  <2>3. forwarded' = forwarded
    BY <1>3, <1>5
  <2> HIDE DEF x
  <2>4. QED
    BY <1>2, <1>3, <2>1, <2>2, <2>3, ReplaceStep
<1>6. QED
  BY <1>4, <1>5

(* A thread that serves is counted.                                           *)
LEMMA Counted ==
    ASSUME HopInv, Slots, NEW c \in conns, c.stage # "queued"
    PROVE  /\ c.to \in Companions /\ c \in Serving(c.to)
           /\ live[c.to] - 1 \in Nat
<1>1. c.to \in Companions
  BY DEF HopInv, Typed, Conn
<1>2. c \in Serving(c.to)
  BY DEF Serving
<1>3. Cardinality(Serving(c.to)) # 0
  BY <1>1, <1>2, FS_EmptySet DEF Slots
<1>4. live[c.to] \in Nat
  BY <1>1 DEF HopInv, Typed
<1>5. QED
  BY <1>1, <1>2, <1>3, <1>4 DEF Slots

LEMMA RespondStep ==
    ASSUME HopInv, Slots, NEW c \in conns, Respond(c)
    PROVE  HopInv'
<1>1. c \in Conn /\ c.stage \in {"ok", "bad"}
  BY DEF HopInv, Typed, Respond
<1>2. live' \in [Companions -> Nat]
  <2>1. c.to \in Companions /\ live[c.to] - 1 \in Nat
    BY <1>1, Counted
  <2>2. live' = [live EXCEPT ![c.to] = @ - 1]
    BY DEF Respond
  <2>3. QED
    BY <2>1, <2>2 DEF HopInv, Typed
<1>3. CASE c.kind = "OPTIONS" /\ c.ask = asks /\ probe[port[c.to]] = "options"
  <2> DEFINE d == [c EXCEPT !.kind = "POST", !.stage = "queued"]
  <2>1. Follows(c, d)
    BY <1>1, <1>3, ConnFacts DEF Follows, Probing
  <2>2. /\ conns' = (conns \ {c}) \cup {d}
        /\ probe' = [probe EXCEPT ![port[c.to]] = "post"]
        /\ UNCHANGED <<port, forwarded, starts, clientVars, steady, excused>>
    BY <1>3 DEF Respond
  <2>3. /\ probe' \in [Ports -> {"idle", "options", "post", "hit", "miss"}]
        /\ \A p \in Ports : probe'[p] = probe[p] \/ (probe[p] # "idle" /\ probe'[p] # "idle")
    BY <1>3, <2>2 DEF HopInv, Typed
  <2> HIDE DEF d
  <2>4. QED
    BY <1>2, <1>3, <2>1, <2>2, <2>3, ReplaceStep
<1>4. CASE ~(c.kind = "OPTIONS" /\ c.ask = asks /\ probe[port[c.to]] = "options")
  <2> DEFINE state == IF c.stage = "ok" THEN "hit" ELSE "miss"
  <2>1. /\ conns' = conns \ {c} /\ Answer(c, state)
        /\ UNCHANGED <<port, forwarded, starts, clientVars, steady>>
    BY <1>4 DEF Respond
  <2>2. state \in {"hit", "miss"}
    OBVIOUS
  <2> HIDE DEF state
  <2>3. QED
    BY <1>2, <2>1, <2>2, DropStep
<1>5. QED
  BY <1>3, <1>4

(* Another program's connection carries no delivery's number.                 *)
LEMMA StrayStep ==
    ASSUME HopInv, NEW s \in Strays, NEW i \in Companions, NEW cmd \in StrayCommands,
           Stray(s, i, cmd)
    PROVE  HopInv'
<1> USE DEF HopInv
<1> DEFINE d == [to |-> i, kind |-> "stray", cmd |-> cmd, ask |-> s,
                 stage |-> "queued"]
<1>1. /\ d \in Conn /\ d.to = i /\ d.ask = s /\ ~Probing(d)
  <2>1. cmd \in Cmds
    BY DEF Cmds
  <2>2. QED
    BY <2>1 DEF Conn, Probing
<1>2. /\ Up(i) /\ \A c \in conns : c.ask # s
      /\ conns' = conns \cup {d}
      /\ UNCHANGED <<port, live, forwarded, starts, isRunning, asks, command, nui,
                     found, stored, lost, probe, steady, excused>>
  BY DEF Stray, companionVars, clientVars
<1> HIDE DEF d
<1>3. Typed'
  BY <1>1, <1>2 DEF Typed
<1>4. Listening' /\ Delivering'
  <2>1. Listening'
    BY <1>1, <1>2 DEF Listening, Up
  <2>2. Delivering'
    BY <1>2 DEF Delivering
  <2>3. QED
    BY <2>1, <2>2
<1>5. Once'
  <2>1. \A j \in Companions : Tried(j)' <=> Tried(j)
    BY <1>2 DEF Tried
  <2>2. \A j, a : HasAsked(j, a)' <=> HasAsked(j, a)
    BY <1>2 DEF HasAsked
  <2>3. \A x \in conns' : Probing(x) => x \in conns /\ x.to \in Companions
    BY <1>1, <1>2 DEF Typed, Conn
  <2>4. /\ \A x \in conns' : Probing(x) => x.ask \in 1..asks'
        /\ \A x \in conns' : ~Probing(x) => x.ask \in Strays
        /\ Numbered'
    BY <1>1, <1>2, <2>3, NumberedStays DEF Once, Typed
  <2>5. \A x, y \in conns' :
           (x.to = y.to /\ x.ask = y.ask /\ (Probing(x) <=> Probing(y))) => x = y
    BY <1>1, <1>2 DEF Once
  <2>6. \A x \in conns' :
           (Probing(x) /\ (x.kind = "OPTIONS" \/ x.stage \in {"queued", "serving"}))
               => ~HasAsked(x.to, x.ask)'
    BY <2>2, <2>3 DEF Once
  <2>7. \A x \in conns' : (Probing(x) /\ x.ask = asks') => Tried(x.to)'
    BY <1>2, <2>1, <2>3 DEF Once
  <2>8. \A j \in Companions : (Up(j)' /\ HasAsked(j, asks)') => Tried(j)'
    BY <1>2, <2>1, <2>2 DEF Once, Up, HasAsked
  <2>9. QED
    BY <2>4, <2>5, <2>6, <2>7, <2>8 DEF Once, Probing
<1>6. QED
  BY <1>3, <1>4, <1>5

-----------------------------------------------------------------------------
(* The client and its frame.  A new delivery has a number nobody has seen.    *)
LEMMA AttestStep ==
    ASSUME HopInv, NEW cmd \in UNION {Commands[n] : n \in 1..MaxAsks},
           NEW arrives \in BOOLEAN, Attest(cmd, arrives)
    PROVE  HopInv'
<1> USE DEF HopInv
<1>1. /\ asks < MaxAsks /\ asks' = asks + 1 /\ isRunning' = TRUE /\ command' = cmd
      /\ nui' \in {"idle", "remembered", "range"}
      /\ nui' = "remembered" => stored # NoPort
      /\ UNCHANGED <<port, live, forwarded, starts, conns, found, stored, probe, excused>>
  BY DEF Attest, companionVars
<1>2. nui = "idle" /\ \A p \in Ports : probe[p] = "idle"
  BY DEF Attest, Delivering
<1>3. asks \in Nat /\ asks + 1 \in 0..MaxAsks
  BY <1>1, LocalHopAssumption DEF Typed
<1>4. Typed'
  <2>1. command' \in Cmds
    BY <1>1 DEF Cmds
  <2>2. steady' \subseteq Companions
    BY DEF Attest
  <2>3. QED
    BY <1>1, <1>3, <2>1, <2>2 DEF Typed
<1>5. Listening'
  BY <1>1 DEF Listening, Up
<1>6. Delivering'
  BY <1>1, <1>2, <1>3 DEF Delivering
<1>7. Once'
  <2>1. \A j, a : HasAsked(j, a)' <=> HasAsked(j, a)
    BY <1>1 DEF HasAsked
  <2>2. /\ \A c \in conns : Probing(c) => c.ask \in 1..(asks + 1) /\ c.ask # asks + 1
        /\ \A j \in Companions : \A n \in DOMAIN forwarded[j] :
              forwarded[j][n].ask # asks + 1
    BY <1>3, StraysAreNoDelivery DEF Once, Numbered
  <2>3. \A j \in Companions : ~HasAsked(j, asks + 1)
    BY <2>2 DEF HasAsked
  <2>4. /\ \A x \in conns' : ~Probing(x) => x.ask \in Strays
        /\ Numbered'
        /\ \A x, y \in conns' :
             (x.to = y.to /\ x.ask = y.ask /\ (Probing(x) <=> Probing(y))) => x = y
    BY <1>1, <1>3, NumberedStays DEF Once
  <2>5. \A x \in conns' :
           (Probing(x) /\ (x.kind = "OPTIONS" \/ x.stage \in {"queued", "serving"}))
               => ~HasAsked(x.to, x.ask)'
    BY <1>1, <2>1 DEF Once
  <2>6. \A x \in conns' : ~(Probing(x) /\ x.ask = asks')
    BY <1>1, <2>2
  <2>7. \A j \in Companions : ~HasAsked(j, asks)'
    BY <1>1, <2>3 DEF HasAsked
  <2>8. QED
    BY <1>1, <2>2, <2>4, <2>5, <2>6, <2>7 DEF Once, Probing
<1>8. QED
  BY <1>4, <1>5, <1>6, <1>7

(* The frame's own steps open no connection.                                  *)
LEMMA FrameStep ==
    ASSUME HopInv,
           UNCHANGED <<port, live, forwarded, starts, conns, asks>>,
           Typed', Delivering',
           \A i \in Companions : (Up(i) /\ Tried(i)) => Tried(i)'
    PROVE  HopInv'
<1>1. Listening'
  BY DEF HopInv, Listening, Up
<1>2. Once'
  <2>1. \A c \in conns' : Up(c.to)'
    BY <1>1 DEF Listening
  <2>2. QED
    BY <2>1, OnceShrinks DEF Up
<1>3. QED
  BY <1>1, <1>2 DEF HopInv

LEMMA SettleStep ==
    ASSUME HopInv, NEW p \in Ports, OtherAnswers(p) \/ ProbeTimesOut(p)
    PROVE  HopInv'
<1>1. /\ probe[p] \in {"options", "post"}
      /\ probe' = [probe EXCEPT ![p] = "miss"]
      /\ excused' \in {excused, excused \cup {p}}
      /\ UNCHANGED <<port, live, forwarded, starts, conns, isRunning, asks, command,
                     nui, found, stored, lost, steady>>
  BY DEF OtherAnswers, OtherBody, ProbeTimesOut, companionVars, clientVars
<1>2. Typed'
  BY <1>1 DEF HopInv, Typed
<1>3. \A q \in Ports : probe'[q] = probe[q] \/ (probe[q] # "idle" /\ probe'[q] # "idle")
  BY <1>1 DEF HopInv, Typed
<1>4. Delivering'
  BY <1>1, <1>3 DEF HopInv, Delivering
<1>5. \A i \in Companions : (Up(i) /\ Tried(i)) => Tried(i)'
  BY <1>1, <1>3, TriedStays
<1>6. QED
  BY <1>1, <1>2, <1>4, <1>5, FrameStep

LEMMA RememberedStep ==
    ASSUME HopInv, Remembered
    PROVE  HopInv'
<1>1. /\ nui = "remembered" /\ stored \in Ports
      /\ nui' \in {"reporting", "range"} /\ found' \in {stored, found}
      /\ probe' = [probe EXCEPT ![stored] = "idle"]
      /\ UNCHANGED <<port, live, forwarded, starts, conns, isRunning, asks, command,
                     stored, lost, steady, excused>>
  BY DEF Remembered, companionVars, HopInv, Delivering, Typed
<1>2. Typed'
  BY <1>1 DEF HopInv, Typed
<1>3. Delivering'
  BY <1>1 DEF HopInv, Delivering
<1>4. \A i \in Companions : (Up(i) /\ Tried(i)) => Tried(i)'
  BY <1>1 DEF Tried
<1>5. QED
  BY <1>1, <1>2, <1>3, <1>4, FrameStep

LEMMA RangeDoneStep ==
    ASSUME HopInv, RangeDone
    PROVE  HopInv'
<1> DEFINE hits == {p \in Targets : probe[p] = "hit"}
<1>1. /\ nui = "range" /\ nui' = "reporting"
      /\ found' = IF hits = {} THEN NoPort ELSE Least(hits)
      /\ stored' = IF hits = {} THEN stored ELSE Least(hits)
      /\ UNCHANGED <<port, live, forwarded, starts, conns, isRunning, asks, command,
                     lost, probe, steady, excused>>
  BY DEF RangeDone, companionVars
<1>2. hits \in SUBSET Ports
  BY <1>1 DEF Targets, OtherPorts
<1> HIDE DEF hits
<1>3. found' \in Ports \cup {NoPort} /\ stored' \in Ports \cup {NoPort}
  BY <1>1, <1>2, LeastIn DEF HopInv, Typed
<1>4. Typed'
  BY <1>1, <1>3 DEF HopInv, Typed
<1>5. Delivering'
  BY <1>1 DEF HopInv, Delivering
<1>6. \A i \in Companions : Tried(i)'
  BY <1>1 DEF Tried
<1>7. QED
  BY <1>1, <1>4, <1>5, <1>6, FrameStep

LEMMA ReturnStep ==
    ASSUME HopInv, DeliverReturns
    PROVE  HopInv'
<1>1. /\ nui' = "idle"
      /\ probe' = [p \in Ports |-> "idle"] /\ found' = NoPort /\ command' = Null
      /\ steady' = {} /\ excused' = {}
      /\ UNCHANGED <<port, live, forwarded, starts, conns, asks, stored>>
  BY DEF DeliverReturns, companionVars
<1>2. Typed'
  <2>1. Null \in Cmds
    BY DEF Cmds
  <2>2. /\ command' \in Cmds
        /\ probe' \in [Ports -> {"idle", "options", "post", "hit", "miss"}]
    BY <1>1, <2>1
  <2>3. QED
    BY <1>1, <2>2 DEF HopInv, Typed
<1>3. Delivering'
  BY <1>1 DEF Delivering
<1>4. \A i \in Companions : Tried(i)'
  BY <1>1 DEF Tried
<1>5. QED
  BY <1>1, <1>2, <1>3, <1>4, FrameStep

(* deliver fires its probes: at ports it has not tried in this delivery, so   *)
(* no companion behind them has a connection of it or has passed it on.       *)
LEMMA FreshTargets ==
    ASSUME HopInv, NEW preflight \in BOOLEAN, TryPorts(preflight)
    PROVE  /\ Targets \subseteq Ports
           /\ \A j \in Companions : port[j] \in Targets =>
                 Up(j) /\ ~Tried(j) /\ ~HasAsked(j, asks)
           /\ \A c \in conns : (Probing(c) /\ port[c.to] \in Targets) => c.ask # asks
<1>1. nui \in {"range", "remembered"} /\ \A p \in Targets : probe[p] = "idle"
  BY DEF TryPorts
<1>2. Targets \subseteq Ports
  BY <1>1 DEF Targets, OtherPorts, HopInv, Delivering, Typed
<1>3. \A j \in Companions : port[j] \in Targets => Up(j) /\ ~Tried(j)
  BY <1>1, <1>2, PortFacts DEF Targets, OtherPorts, Up, Tried
<1>4. \A j \in Companions : port[j] \in Targets => ~HasAsked(j, asks)
  BY <1>3 DEF HopInv, Once
<1>5. \A c \in conns : (Probing(c) /\ port[c.to] \in Targets) => c.ask # asks
  BY <1>3 DEF HopInv, Once, Typed, Conn
<1>6. QED
  BY <1>2, <1>3, <1>4, <1>5

LEMMA TryPortsStep ==
    ASSUME HopInv, NEW preflight \in BOOLEAN, TryPorts(preflight)
    PROVE  HopInv'
<1> USE DEF HopInv
<1> DEFINE new(i) == [to |-> i, kind |-> IF preflight THEN "OPTIONS" ELSE "POST",
                      cmd |-> command, ask |-> asks, stage |-> "queued"]
           called == {j \in Companions : port[j] \in Targets}
<1>1. /\ nui \in {"range", "remembered"}
      /\ probe' = [p \in Ports |-> IF p \notin Targets THEN probe[p]
                                   ELSE IF Free(p) THEN "miss"
                                   ELSE IF preflight THEN "options" ELSE "post"]
      /\ conns' = conns \cup {new(i) : i \in called}
      /\ UNCHANGED <<port, live, forwarded, starts, isRunning, asks, command, nui,
                     found, stored, lost, steady, excused>>
  BY DEF TryPorts, companionVars, clientVars
<1>2. asks \in Nat /\ asks >= 1 /\ asks \in 1..asks
  BY <1>1 DEF Typed, Delivering
<1>3. \A i \in called :
         /\ i \in Companions /\ port[i] \in Targets
         /\ new(i) \in Conn /\ new(i).to = i /\ new(i).ask = asks
         /\ Probing(new(i)) /\ new(i).stage = "queued"
  BY <1>2 DEF Typed, Conn, Probing
<1> HIDE DEF new, called
<1>4. \A x \in conns' : x \in conns \/ \E i \in called : x = new(i)
  BY <1>1
<1>5. /\ \A p \in Ports : p \in Targets => probe'[p] # "idle"
      /\ \A p \in Ports : p \notin Targets => probe'[p] = probe[p]
      /\ probe' \in [Ports -> {"idle", "options", "post", "hit", "miss"}]
  BY <1>1 DEF Typed
<1>6. Typed'
  <2>1. conns' \subseteq Conn
    BY <1>3, <1>4 DEF Typed
  <2>2. QED
    BY <1>1, <1>5, <2>1 DEF Typed
<1>7. Listening'
  <2>1. \A x \in conns' : Up(x.to)'
    BY <1>1, <1>3, <1>4, FreshTargets DEF Listening, Up
  <2>2. QED
    BY <1>1, <2>1 DEF Listening, Up
<1>8. Delivering'
  BY <1>1 DEF Delivering
<1>9. Once'
  <2>1. \A j \in Companions : (Up(j) /\ Tried(j)) => Tried(j)'
    <3>1. \A p \in Ports : probe[p] # "idle" => probe'[p] # "idle"
      BY <1>5
    <3>2. QED
      BY <1>1, <3>1, TriedStays
  <2>2. \A j \in called : Tried(j)'
    BY <1>1, <1>3, <1>5, FreshTargets DEF Tried, Targets, OtherPorts
  <2>3. \A j, a : HasAsked(j, a)' <=> HasAsked(j, a)
    BY <1>1 DEF HasAsked
  <2>4. \A x \in conns : x.to \in Companions /\ Up(x.to)
    BY DEF Typed, Conn, Listening
  <2>5. \A x \in conns' : Probing(x) => x.ask \in 1..asks
    BY <1>2, <1>3, <1>4 DEF Once
  <2>6. /\ \A x \in conns' : ~Probing(x) => x.ask \in Strays
        /\ Numbered'
    BY <1>1, <1>2, <1>3, <1>4, NumberedStays DEF Once
  <2>7. ASSUME NEW x \in conns', NEW y \in conns',
               x.to = y.to, x.ask = y.ask, Probing(x) <=> Probing(y)
        PROVE  x = y
    <3>1. CASE x \in conns /\ y \in conns
      BY <2>7, <3>1 DEF Once
    <3>2. CASE x \in conns /\ y \notin conns
      BY <1>3, <1>4, <2>7, <3>2, FreshTargets
    <3>3. CASE x \notin conns /\ y \in conns
      BY <1>3, <1>4, <2>7, <3>3, FreshTargets
    <3>4. CASE x \notin conns /\ y \notin conns
      BY <1>3, <1>4, <2>7, <3>4
    <3>5. QED
      BY <3>1, <3>2, <3>3, <3>4
  <2>8. \A x \in conns' :
           (Probing(x) /\ (x.kind = "OPTIONS" \/ x.stage \in {"queued", "serving"}))
               => ~HasAsked(x.to, x.ask)
    BY <1>3, <1>4, FreshTargets DEF Once
  <2>9. \A x \in conns' : (Probing(x) /\ x.ask = asks) => Tried(x.to)'
    BY <1>3, <1>4, <2>1, <2>2, <2>4 DEF Once
  <2>10. \A j \in Companions : (Up(j)' /\ HasAsked(j, asks)') => Tried(j)'
    BY <1>1, <2>1, <2>3 DEF Once, Up, HasAsked
  <2>11. \A x \in conns' :
           (Probing(x) /\ (x.kind = "OPTIONS" \/ x.stage \in {"queued", "serving"}))
               => ~HasAsked(x.to, x.ask)'
    BY <2>3, <2>8
  <2>12. QED
    BY <1>1, <2>5, <2>6, <2>7, <2>9, <2>10, <2>11 DEF Once, Probing
<1>10. QED
  BY <1>6, <1>7, <1>8, <1>9

-----------------------------------------------------------------------------
(* The endpoint's count.                                                      *)
LEMMA SlotsFrame ==
    ASSUME Slots, UNCHANGED live, \A i \in Companions : Serving(i)' = Serving(i)
    PROVE  Slots'
  BY DEF Slots

(* One companion's threads and count change together.                         *)
LEMMA SlotsMove ==
    ASSUME HopInv, Slots, NEW i \in Companions, NEW n \in Nat,
           live' = [live EXCEPT ![i] = n],
           IsFiniteSet(Serving(i)'), n = Cardinality(Serving(i)'), n <= MAX_CONCURRENT,
           \A j \in Companions \ {i} : Serving(j)' = Serving(j)
    PROVE  Slots'
<1>1. live'[i] = n /\ \A j \in Companions \ {i} : live'[j] = live[j]
  BY DEF HopInv, Typed
<1>2. QED
  BY <1>1 DEF Slots

LEMMA SlotsStep ==
    ASSUME HopInv, Slots, [Next]_vars
    PROVE  Slots'
<1>1. CASE UNCHANGED <<live, conns>>
  BY <1>1, SlotsFrame DEF Serving
<1>2. ASSUME NEW i \in Companions, Stop(i) PROVE Slots'
  <2>1. live' = [live EXCEPT ![i] = 0] /\ conns' = {c \in conns : c.to # i}
    BY <1>2 DEF Stop
  <2>2. Serving(i)' = {} /\ \A j \in Companions \ {i} : Serving(j)' = Serving(j)
    BY <2>1 DEF Serving
  <2>3. IsFiniteSet(Serving(i)') /\ Cardinality(Serving(i)') = 0
    BY <2>2, FS_EmptySet
  <2>4. 0 \in Nat /\ 0 <= MAX_CONCURRENT
    BY LocalHopAssumption
  <2>5. QED
    BY <2>1, <2>2, <2>3, <2>4, SlotsMove
<1>3. ASSUME NEW c \in conns, c.stage = "queued", conns' = conns \ {c}, UNCHANGED live
      PROVE  Slots'
  BY <1>3, SlotsFrame DEF Serving
<1>4. ASSUME NEW c \in conns, Accept(c) PROVE Slots'
  <2>1. CASE live[c.to] >= MAX_CONCURRENT
    BY <1>3, <1>4, <2>1 DEF Accept, Dropped
  <2>2. CASE ~(live[c.to] >= MAX_CONCURRENT)
    <3> DEFINE d == [c EXCEPT !.stage = "serving"]
               i == c.to
    <3>1. c \in Conn /\ c.to \in Companions /\ live[i] \in Nat
      BY DEF HopInv, Typed, Conn
    <3>2. Follows(c, d) /\ d.stage = "serving" /\ d.to = i
      BY <3>1, ConnFacts DEF Follows, Probing
    <3>3. /\ conns' = (conns \ {c}) \cup {d} /\ c.stage = "queued"
          /\ live' = [live EXCEPT ![i] = live[i] + 1]
      BY <1>4, <2>2 DEF Accept
    <3> HIDE DEF d
    <3>4. d \notin Serving(i)
      BY <3>2, <3>3, FollowsAlone DEF Serving
    <3>5. /\ Serving(i)' = Serving(i) \cup {d}
          /\ \A j \in Companions \ {i} : Serving(j)' = Serving(j)
      BY <3>2, <3>3 DEF Serving
    <3>6. /\ IsFiniteSet(Serving(i) \cup {d})
          /\ Cardinality(Serving(i) \cup {d}) = Cardinality(Serving(i)) + 1
      BY <3>1, <3>4, FS_AddElement DEF Slots
    <3>7. live[i] = Cardinality(Serving(i)) /\ live[i] + 1 \in Nat
      BY <3>1 DEF Slots
    <3>8. live[i] + 1 <= MAX_CONCURRENT
      BY <2>2, <3>1, LocalHopAssumption
    <3>9. /\ IsFiniteSet(Serving(i)') /\ live[i] + 1 = Cardinality(Serving(i)')
      BY <3>5, <3>6, <3>7
    <3>10. QED
      BY <3>1, <3>3, <3>5, <3>7, <3>8, <3>9, SlotsMove
  <2>3. QED
    BY <2>1, <2>2
<1>5. ASSUME NEW c \in conns, SpawnFails(c) PROVE Slots'
  BY <1>3, <1>5 DEF SpawnFails, Dropped, companionVars
<1>6. ASSUME NEW c \in conns, ServeOne(c) PROVE Slots'
  <2> DEFINE good == c.kind = "OPTIONS" \/ HandleRequest(c.cmd)
             x == IF good THEN "ok" ELSE "bad"
             d == [c EXCEPT !.stage = x]
             i == c.to
             S == Serving(i) \ {c}
  <2>1. c \in Conn /\ i \in Companions /\ x \in {"ok", "bad"} /\ live[i] \in Nat
    BY DEF HopInv, Typed, Conn
  <2>2. d \in Conn /\ d.to = i /\ d.ask = c.ask /\ d.kind = c.kind /\ d.stage = x
    <3> HIDE DEF x
    <3>1. QED
      BY <2>1 DEF Conn
  <2>3. /\ c.stage = "serving" /\ conns' = (conns \ {c}) \cup {d} /\ live' = live
    BY <1>6 DEF ServeOne
  <2> HIDE DEF d, x, good
  <2>4. d \notin S
    BY <2>2, <2>3, FollowsAlone DEF Serving, Follows, Probing
  <2>5. /\ Serving(i)' = S \cup {d}
        /\ \A j \in Companions \ {i} : Serving(j)' = Serving(j)
    BY <2>1, <2>2, <2>3 DEF Serving
  <2>6. c \in Serving(i) /\ IsFiniteSet(Serving(i))
    BY <2>1, <2>3 DEF Serving, Slots
  <2>7. IsFiniteSet(S) /\ Cardinality(S) = Cardinality(Serving(i)) - 1
    BY <2>6, FS_RemoveElement
  <2> HIDE DEF S
  <2>8. IsFiniteSet(S \cup {d}) /\ Cardinality(S \cup {d}) = Cardinality(S) + 1
    BY <2>4, <2>7, FS_AddElement
  <2>9. /\ live[i] = Cardinality(Serving(i)) /\ live[i] <= MAX_CONCURRENT
    BY <2>1 DEF Slots
  <2>10. IsFiniteSet(Serving(i)') /\ live[i] = Cardinality(Serving(i)')
    BY <2>1, <2>5, <2>7, <2>8, <2>9
  <2>11. live' = [live EXCEPT ![i] = live[i]]
    BY <2>3 DEF HopInv, Typed
  <2>12. QED
    BY <2>1, <2>5, <2>9, <2>10, <2>11, SlotsMove
<1>7. ASSUME NEW c \in conns, Respond(c) PROVE Slots'
  <2> DEFINE i == c.to
             d == [c EXCEPT !.kind = "POST", !.stage = "queued"]
  <2>1. c \in Conn /\ c.stage \in {"ok", "bad"}
    BY <1>7 DEF Respond, HopInv, Typed
  <2>2. i \in Companions /\ c \in Serving(i) /\ live[i] - 1 \in Nat
    BY <2>1, Counted
  <2>3. d.stage = "queued" /\ d.to = i
    BY <2>1, ConnFacts
  <2>4. /\ live' = [live EXCEPT ![i] = live[i] - 1]
        /\ conns' = conns \ {c} \/ conns' = (conns \ {c}) \cup {d}
    BY <1>7 DEF Respond
  <2> HIDE DEF d
  <2>5. /\ Serving(i)' = Serving(i) \ {c}
        /\ \A j \in Companions \ {i} : Serving(j)' = Serving(j)
    BY <2>3, <2>4 DEF Serving
  <2>6. /\ IsFiniteSet(Serving(i) \ {c})
        /\ Cardinality(Serving(i) \ {c}) = Cardinality(Serving(i)) - 1
    BY <2>2, FS_RemoveElement DEF Slots
  <2>7. live[i] = Cardinality(Serving(i)) /\ live[i] <= MAX_CONCURRENT /\ live[i] \in Nat
    BY <2>2 DEF Slots, HopInv, Typed
  <2>8. live[i] - 1 <= MAX_CONCURRENT
    BY <2>7, LocalHopAssumption
  <2>9. IsFiniteSet(Serving(i)') /\ live[i] - 1 = Cardinality(Serving(i)')
    BY <2>5, <2>6, <2>7
  <2>10. QED
    BY <2>2, <2>4, <2>5, <2>8, <2>9, SlotsMove
<1>8. ASSUME NEW s \in Strays, NEW i \in Companions, NEW cmd \in StrayCommands,
             Stray(s, i, cmd)
      PROVE  Slots'
  BY <1>8, SlotsFrame DEF Stray, companionVars, Serving
<1>9. ASSUME NEW preflight \in BOOLEAN, TryPorts(preflight) PROVE Slots'
  <2>1. /\ UNCHANGED live
        /\ \A c \in conns' : c \in conns \/ c.stage = "queued"
        /\ conns \subseteq conns'
    BY <1>9 DEF TryPorts, companionVars
  <2>2. QED
    BY <2>1, SlotsFrame DEF Serving
<1>10. ASSUME UNCHANGED <<companionVars, conns>> PROVE Slots'
  BY <1>1, <1>10 DEF companionVars
<1>11. QED
  BY <1>1, <1>2, <1>4, <1>5, <1>6, <1>7, <1>8, <1>9, <1>10
  DEF Next, Start, Attest, OtherAnswers, ProbeTimesOut, Remembered, RangeDone,
      Report, ReportLost, DeliverReturns, vars

-----------------------------------------------------------------------------
(* What a report rests on.                                                    *)
LEMMA PlacedConns ==
    ASSUME HopInv, NEW c \in conns
    PROVE  /\ c \in Conn /\ c.to \in Companions
           /\ Up(c.to) /\ port[c.to] \in Ports
  BY DEF HopInv, Typed, Conn, Listening, Up

(* Only connections change, and what has been passed on grows.                *)
LEMMA HonestConns ==
    ASSUME HopInv, Honest,
           UNCHANGED <<port, clientVars, probe, steady, excused>>,
           \A i \in Companions : \A a : HasAsked(i, a) => HasAsked(i, a)',
           \A x \in conns' :
              /\ (x.kind = "POST" /\ x.stage = "ok") => HasAsked(x.to, x.ask)'
              /\ (x.kind = "OPTIONS" /\ x.ask = asks) =>
                    \E y \in conns : y.kind = "OPTIONS" /\ y.ask = asks /\ y.to = x.to
    PROVE  Honest'
<1> USE DEF Honest, clientVars
<1>1. Passed'
  BY DEF Passed
<1>2. Preflighted'
  BY DEF Preflighted
<1>3. Reached => Reached'
  BY DEF Reached, HasAsked
<1>4. HitsAreTrue'
  BY <1>3 DEF HitsAreTrue
<1>5. MissesAreExcused'
  BY DEF MissesAreExcused, Missed, Up
<1>6. Reported'
  BY <1>3 DEF Reported
<1>7. QED
  BY <1>1, <1>2, <1>4, <1>5, <1>6

(* A connection ends: a hit is true, a miss is excused.                       *)
LEMMA HonestDrop ==
    ASSUME HopInv, Honest, NEW c \in conns, NEW state \in {"hit", "miss"},
           conns' = conns \ {c}, Answer(c, state),
           (state = "hit" /\ c.kind # "stray" /\ c.ask = asks
              /\ probe[port[c.to]] \in {"options", "post"}) => Reached,
           UNCHANGED <<port, forwarded, clientVars, steady>>
    PROVE  Honest'
<1> USE DEF Honest, clientVars
<1>1. port[c.to] \in Ports /\ Typed
  BY PlacedConns DEF HopInv
<1>2. /\ excused \subseteq excused'
      /\ \A p \in Ports :
            \/ probe'[p] = probe[p]
            \/ /\ p = port[c.to] /\ probe[p] \in {"options", "post"}
               /\ probe'[p] = state
               /\ c.kind # "stray" /\ c.ask = asks
               /\ state = "miss" => p \in excused'
  BY <1>1, AnswerFacts
<1>3. Passed'
  BY DEF Passed, HasAsked
<1>4. Preflighted'
  <2> SUFFICES ASSUME NEW x \in conns', x.kind = "OPTIONS", x.ask = asks
               PROVE  probe'[port[x.to]] # "post"
    BY DEF Preflighted
  <2>1. port[x.to] \in Ports /\ probe[port[x.to]] # "post"
    BY PlacedConns DEF Preflighted
  <2>2. QED
    BY <1>2, <2>1
<1>5. Reached' <=> Reached
  BY DEF Reached, HasAsked
<1>6. HitsAreTrue'
  BY <1>1, <1>2, <1>5 DEF HitsAreTrue
<1>7. MissesAreExcused'
  <2> SUFFICES ASSUME NEW i \in steady
               PROVE  Up(i)' /\ (Missed(i)' => port[i] \in excused')
    BY DEF MissesAreExcused
  <2>1. Up(i) /\ port[i] \in Ports
    BY DEF MissesAreExcused, HopInv, Typed, Up
  <2>2. QED
    BY <1>2, <2>1 DEF MissesAreExcused, Missed, Up
<1>8. Reported'
  BY <1>2, <1>5 DEF Reported
<1>9. QED
  BY <1>3, <1>4, <1>6, <1>7, <1>8

LEMMA HonestStart ==
    ASSUME HopInv, Honest, Start
    PROVE  Honest'
<1> USE DEF Honest
<1> DEFINE i == starts + 1
<1>1. i \in Companions /\ ~Up(i)
  BY LocalHopAssumption DEF Start, HopInv, Typed, Companions, Listening
<1>2. /\ \A j \in Companions \ {i} : port'[j] = port[j]
      /\ UNCHANGED <<forwarded, conns, clientVars, probe, steady, excused>>
  BY <1>1 DEF Start, HopInv, Typed
<1> HIDE DEF i
<1>3. \A c \in conns : port'[c.to] = port[c.to]
  BY <1>1, <1>2, PlacedConns
<1>4. steady \subseteq Companions \ {i}
  BY <1>1 DEF MissesAreExcused, HopInv, Typed
<1>5. Passed' /\ Preflighted'
  BY <1>2, <1>3 DEF Passed, Preflighted, HasAsked, clientVars
<1>6. Reached' <=> Reached
  BY <1>2 DEF Reached, HasAsked, clientVars
<1>7. HitsAreTrue'
  BY <1>2, <1>6 DEF HitsAreTrue
<1>8. MissesAreExcused'
  BY <1>2, <1>4 DEF MissesAreExcused, Missed, Up, clientVars
<1>9. Reported'
  BY <1>2, <1>4, <1>6 DEF Reported, clientVars
<1>10. QED
  BY <1>5, <1>7, <1>8, <1>9

(* A process that ends is no longer among those that were up all along.       *)
LEMMA HonestStop ==
    ASSUME HopInv, Honest, NEW i \in Companions, Stop(i)
    PROVE  Honest'
<1> USE DEF Honest
<1>1. /\ Up(i) /\ port[i] \in Ports
      /\ port'[i] = NoPort /\ \A j \in Companions \ {i} : port'[j] = port[j]
      /\ conns' = {c \in conns : c.to # i} /\ steady' = steady \ {i}
      /\ UNCHANGED <<forwarded, starts, isRunning, asks, command, nui, found,
                     stored, lost, excused>>
  BY DEF Stop, clientVars, HopInv, Typed, Up
<1>2. \A p \in Ports : probe'[p] = IF p = port[i] /\ probe[p] \in {"options", "post"}
                                   THEN "miss" ELSE probe[p]
  BY <1>1 DEF Stop, HopInv, Typed
<1>3. Passed'
  BY <1>1 DEF Passed, HasAsked
<1>4. Preflighted'
  <2> SUFFICES ASSUME NEW x \in conns', x.kind = "OPTIONS", x.ask = asks
               PROVE  probe'[port'[x.to]] # "post"
    BY <1>1 DEF Preflighted
  <2>1. /\ port'[x.to] = port[x.to] /\ port[x.to] \in Ports
        /\ probe[port[x.to]] # "post"
    BY <1>1, PlacedConns DEF Preflighted
  <2>2. QED
    BY <1>2, <2>1
<1>5. Reached' <=> Reached
  BY <1>1 DEF Reached, HasAsked
<1>6. HitsAreTrue'
  BY <1>2, <1>5 DEF HitsAreTrue
<1>7. MissesAreExcused'
  <2> SUFFICES ASSUME NEW j \in steady'
               PROVE  Up(j)' /\ (Missed(j)' => port'[j] \in excused')
    BY DEF MissesAreExcused
  <2>1. /\ j \in Companions \ {i} /\ j \in steady /\ Up(j) /\ port[j] \in Ports
        /\ port'[j] = port[j]
    BY <1>1 DEF MissesAreExcused, HopInv, Typed, Up
  <2>2. port[j] # port[i]
    BY <1>1, <2>1 DEF HopInv, Listening
  <2>3. probe'[port[j]] = probe[port[j]]
    BY <1>2, <2>1, <2>2
  <2>4. QED
    BY <1>1, <2>1, <2>3 DEF MissesAreExcused, Missed, Up
<1>8. Reported'
  <2>1. \A j \in steady' : port'[j] = port[j] /\ j \in steady
    BY <1>1 DEF HopInv, Typed
  <2>2. QED
    BY <1>1, <1>5, <2>1 DEF Reported
<1>9. QED
  BY <1>3, <1>4, <1>6, <1>7, <1>8

LEMMA HonestAccept ==
    ASSUME HopInv, Honest, NEW c \in conns, Accept(c)
    PROVE  Honest'
<1>1. CASE live[c.to] >= MAX_CONCURRENT
  BY <1>1, HonestDrop DEF Accept, Dropped
<1>2. CASE ~(live[c.to] >= MAX_CONCURRENT)
  <2> DEFINE d == [c EXCEPT !.stage = "serving"]
  <2>1. d.kind = c.kind /\ d.to = c.to /\ d.ask = c.ask /\ d.stage = "serving"
    BY PlacedConns, ConnFacts
  <2>2. /\ conns' = (conns \ {c}) \cup {d}
        /\ UNCHANGED <<port, forwarded, clientVars, probe, steady, excused>>
    BY <1>2 DEF Accept
  <2> HIDE DEF d
  <2>3. \A i \in Companions : \A a : HasAsked(i, a)' <=> HasAsked(i, a)
    BY <2>2 DEF HasAsked
  <2>4. \A x \in conns' :
           /\ (x.kind = "POST" /\ x.stage = "ok") => HasAsked(x.to, x.ask)'
           /\ (x.kind = "OPTIONS" /\ x.ask = asks) =>
                 \E y \in conns : y.kind = "OPTIONS" /\ y.ask = asks /\ y.to = x.to
    BY <2>1, <2>2, <2>3, PlacedConns DEF Honest, Passed
  <2>5. QED
    BY <2>2, <2>3, <2>4, HonestConns
<1>3. QED
  BY <1>1, <1>2

LEMMA HonestSpawnFails ==
    ASSUME HopInv, Honest, NEW c \in conns, SpawnFails(c)
    PROVE  Honest'
  BY HonestDrop DEF SpawnFails, Dropped, companionVars

(* serve_one passes the command on before it answers.                         *)
LEMMA ServeOneFacts ==
    ASSUME HopInv, NEW c \in conns, ServeOne(c)
    PROVE  \E d \in Conn :
              /\ d.to = c.to /\ d.ask = c.ask /\ d.kind = c.kind
              /\ conns' = (conns \ {c}) \cup {d}
              /\ \A i \in Companions : \A a : HasAsked(i, a) => HasAsked(i, a)'
              /\ (d.kind = "POST" /\ d.stage = "ok") => HasAsked(d.to, d.ask)'
              /\ \A i \in Companions : \A n \in DOMAIN forwarded'[i] :
                    \/ n \in DOMAIN forwarded[i] /\ forwarded'[i][n] = forwarded[i][n]
                    \/ Ours(forwarded'[i][n].cmd)
<1> DEFINE good == c.kind = "OPTIONS" \/ HandleRequest(c.cmd)
           x == IF good THEN "ok" ELSE "bad"
           d == [c EXCEPT !.stage = x]
           e == [ask |-> c.ask, cmd |-> LocalCommand(c.cmd)]
<1>1. c \in Conn /\ c.to \in Companions /\ x \in {"ok", "bad"}
  BY PlacedConns
<1>2. d \in Conn /\ d.to = c.to /\ d.ask = c.ask /\ d.kind = c.kind /\ d.stage = x
  <2> HIDE DEF x
  <2>1. QED
    BY <1>1 DEF Conn
<1>3. /\ conns' = (conns \ {c}) \cup {d}
      /\ forwarded' = IF c.kind # "OPTIONS" /\ good
                      THEN [forwarded EXCEPT ![c.to] = Append(@, e)]
                      ELSE forwarded
  BY DEF ServeOne
<1> HIDE DEF d, e
<1>4. CASE c.kind # "OPTIONS" /\ HandleRequest(c.cmd)
  <2> DEFINE q == forwarded[c.to]
  <2>1. /\ q \in Seq(Entry)
        /\ e \in Entry /\ e.ask = c.ask /\ e.cmd = LocalCommand(c.cmd)
    <3>1. c.ask \in Nat \cup Strays /\ c.cmd \in Cmds /\ q \in Seq(Entry)
      BY <1>1 DEF HopInv, Typed, Conn
    <3>2. QED
      BY <3>1 DEF Entry, e
  <2>2. /\ forwarded'[c.to] = Append(q, e)
        /\ \A j \in Companions \ {c.to} : forwarded'[j] = forwarded[j]
    BY <1>1, <1>3, <1>4 DEF HopInv, Typed
  <2> HIDE DEF q
  <2>3. /\ DOMAIN Append(q, e) = DOMAIN q \cup {Len(q) + 1}
        /\ Append(q, e)[Len(q) + 1] = e
        /\ \A n \in DOMAIN q : Append(q, e)[n] = q[n]
    BY <2>1, AppendFacts
  <2>4. \A i \in Companions : \A a : HasAsked(i, a) => HasAsked(i, a)'
    BY <2>2, <2>3 DEF HasAsked, q
  <2>5. HasAsked(c.to, c.ask)'
    BY <2>1, <2>2, <2>3 DEF HasAsked
  <2>6. ASSUME NEW i \in Companions, NEW n \in DOMAIN forwarded'[i]
        PROVE  \/ n \in DOMAIN forwarded[i] /\ forwarded'[i][n] = forwarded[i][n]
               \/ Ours(forwarded'[i][n].cmd)
    <3>1. CASE i # c.to
      BY <2>2, <3>1
    <3>2. CASE i = c.to
      <4>1. n \in DOMAIN q \/ forwarded'[i][n].cmd = LocalCommand(c.cmd)
        BY <2>1, <2>2, <2>3, <2>6, <3>2
      <4>2. Ours(LocalCommand(c.cmd))
        BY <1>1, <1>4 DEF Ours, Conn
      <4>3. QED
        BY <2>2, <2>3, <3>2, <4>1, <4>2 DEF q
    <3>3. QED
      BY <3>1, <3>2
  <2>7. QED
    BY <1>2, <1>3, <2>4, <2>5, <2>6
<1>5. CASE ~(c.kind # "OPTIONS" /\ HandleRequest(c.cmd))
  <2>1. forwarded' = forwarded
    BY <1>3, <1>5
  <2>2. ~(d.kind = "POST" /\ d.stage = "ok")
    BY <1>2, <1>5
  <2>3. \A i \in Companions : \A a : HasAsked(i, a) => HasAsked(i, a)'
    BY <2>1 DEF HasAsked
  <2>4. QED
    BY <1>2, <1>3, <2>1, <2>2, <2>3
<1>6. QED
  BY <1>4, <1>5

LEMMA HonestServeOne ==
    ASSUME HopInv, Honest, NEW c \in conns, ServeOne(c)
    PROVE  Honest'
<1>1. PICK d \in Conn :
         /\ d.to = c.to /\ d.ask = c.ask /\ d.kind = c.kind
         /\ conns' = (conns \ {c}) \cup {d}
         /\ \A i \in Companions : \A a : HasAsked(i, a) => HasAsked(i, a)'
         /\ (d.kind = "POST" /\ d.stage = "ok") => HasAsked(d.to, d.ask)'
  BY ServeOneFacts
<1>2. UNCHANGED <<port, clientVars, probe, steady, excused>>
  BY DEF ServeOne
<1>3. \A x \in conns' :
         /\ (x.kind = "POST" /\ x.stage = "ok") => HasAsked(x.to, x.ask)'
         /\ (x.kind = "OPTIONS" /\ x.ask = asks) =>
               \E y \in conns : y.kind = "OPTIONS" /\ y.ask = asks /\ y.to = x.to
  BY <1>1, PlacedConns DEF Honest, Passed
<1>4. QED
  BY <1>1, <1>2, <1>3, HonestConns

(* An answer settles a probe as a hit only for a POST passed on: while the    *)
(* frame waits for the POST's answer, no preflight of this delivery is left.  *)
LEMMA HonestRespond ==
    ASSUME HopInv, Honest, NEW c \in conns, Respond(c)
    PROVE  Honest'
<1>1. /\ c.stage \in {"ok", "bad"} /\ c \in Conn /\ c.to \in Companions
      /\ port[c.to] \in Ports
      /\ UNCHANGED <<port, forwarded, clientVars, steady>>
  BY PlacedConns DEF Respond
<1>2. CASE c.kind = "OPTIONS" /\ c.ask = asks /\ probe[port[c.to]] = "options"
  <2> DEFINE d == [c EXCEPT !.kind = "POST", !.stage = "queued"]
  <2> USE DEF Honest
  <2>1. d.kind = "POST" /\ d.stage = "queued"
    BY <1>1, ConnFacts
  <2>2. /\ conns' = (conns \ {c}) \cup {d}
        /\ probe' = [probe EXCEPT ![port[c.to]] = "post"]
        /\ UNCHANGED excused
    BY <1>2 DEF Respond
  <2> HIDE DEF d
  <2>3. \A p \in Ports : probe'[p] = IF p = port[c.to] THEN "post" ELSE probe[p]
    BY <1>1, <2>2 DEF HopInv, Typed
  <2>4. \A i \in Companions : \A a : HasAsked(i, a)' <=> HasAsked(i, a)
    BY <1>1 DEF HasAsked
  <2>5. Passed'
    BY <2>1, <2>2, <2>4, PlacedConns DEF Passed
  <2>6. Preflighted'
    <3> SUFFICES ASSUME NEW x \in conns', x.kind = "OPTIONS", x.ask = asks
                 PROVE  probe'[port[x.to]] # "post"
      BY <1>1 DEF Preflighted, clientVars
    <3>1. x \in conns /\ x # c
      BY <2>1, <2>2
    <3>2. x.to # c.to
      BY <1>2, <3>1 DEF HopInv, Once, Probing
    <3>3. port[x.to] \in Ports /\ port[x.to] # port[c.to]
      BY <1>1, <3>1, <3>2, PlacedConns DEF HopInv, Listening
    <3>4. QED
      BY <2>3, <3>1, <3>3 DEF Preflighted
  <2>7. Reached' <=> Reached
    BY <1>1, <2>4 DEF Reached, clientVars, HasAsked
  <2>8. HitsAreTrue'
    BY <2>3, <2>7 DEF HitsAreTrue
  <2>9. MissesAreExcused'
    <3> SUFFICES ASSUME NEW i \in steady
                 PROVE  Up(i) /\ (Missed(i)' => port[i] \in excused)
      BY <1>1, <2>2 DEF MissesAreExcused, Up
    <3>1. Up(i) /\ port[i] \in Ports
      BY DEF MissesAreExcused, HopInv, Typed, Up
    <3>2. QED
      BY <1>1, <2>3, <3>1 DEF MissesAreExcused, Missed, clientVars
  <2>10. Reported'
    BY <1>1, <2>2, <2>7 DEF Reported, clientVars
  <2>11. QED
    BY <2>5, <2>6, <2>8, <2>9, <2>10
<1>3. CASE ~(c.kind = "OPTIONS" /\ c.ask = asks /\ probe[port[c.to]] = "options")
  <2> DEFINE state == IF c.stage = "ok" THEN "hit" ELSE "miss"
  <2>1. conns' = conns \ {c} /\ Answer(c, state) /\ state \in {"hit", "miss"}
    BY <1>3 DEF Respond
  <2>2. ASSUME state = "hit", c.kind # "stray", c.ask = asks,
               probe[port[c.to]] \in {"options", "post"}
        PROVE  Reached
    <3>1. c.kind = "POST"
      BY <1>1, <1>3, <2>2 DEF Honest, Preflighted, Conn
    <3>2. HasAsked(c.to, asks)
      BY <1>1, <2>2, <3>1 DEF Honest, Passed
    <3>3. QED
      BY <1>1, <3>2 DEF Reached
  <2> HIDE DEF state
  <2>3. QED
    BY <1>1, <2>1, <2>2, HonestDrop
<1>4. QED
  BY <1>2, <1>3

LEMMA HonestStray ==
    ASSUME HopInv, Honest, NEW s \in Strays, NEW i \in Companions,
           NEW cmd \in StrayCommands, Stray(s, i, cmd)
    PROVE  Honest'
<1>1. /\ UNCHANGED <<port, forwarded, clientVars, probe, steady, excused>>
      /\ \A x \in conns' : x \in conns \/ x.kind = "stray"
  BY DEF Stray, companionVars
<1>2. \A j \in Companions : \A a : HasAsked(j, a)' <=> HasAsked(j, a)
  BY <1>1 DEF HasAsked
<1>3. \A x \in conns' :
         /\ (x.kind = "POST" /\ x.stage = "ok") => HasAsked(x.to, x.ask)'
         /\ (x.kind = "OPTIONS" /\ x.ask = asks) =>
               \E y \in conns : y.kind = "OPTIONS" /\ y.ask = asks /\ y.to = x.to
  BY <1>1, <1>2, PlacedConns DEF Honest, Passed
<1>4. QED
  BY <1>1, <1>2, <1>3, HonestConns

(* A new delivery starts with its probes idle and nobody missed: the range is *)
(* tried first only when there is no remembered port.                         *)
LEMMA HonestAttest ==
    ASSUME HopInv, Honest, NEW cmd, NEW arrives \in BOOLEAN, Attest(cmd, arrives)
    PROVE  Honest'
<1>1. /\ asks' = asks + 1 /\ asks \in Nat
      /\ nui' \in {"idle", "remembered", "range"}
      /\ nui' = "range" => stored = NoPort
      /\ steady' = {i \in Companions : Up(i)}
      /\ UNCHANGED <<port, forwarded, conns, stored, probe, excused>>
  BY DEF Attest, companionVars, HopInv, Typed
<1>2. \A p \in Ports : probe[p] = "idle"
  BY DEF Attest, HopInv, Delivering
<1>3. Passed'
  BY <1>1 DEF Honest, Passed, HasAsked
<1>4. Preflighted'
  <2>1. \A c \in conns : port[c.to] \in Ports
    BY PlacedConns
  <2>2. QED
    BY <1>1, <1>2, <2>1 DEF Preflighted
<1>5. HitsAreTrue'
  BY <1>1, <1>2 DEF HitsAreTrue
<1>6. MissesAreExcused'
  <2> SUFFICES ASSUME NEW i \in Companions, Up(i)
               PROVE  Up(i)' /\ ~Missed(i)'
    BY <1>1 DEF MissesAreExcused
  <2>1. port[i] \in Ports
    BY DEF HopInv, Typed, Up
  <2>2. QED
    BY <1>1, <1>2, <2>1, PortFacts DEF Missed, Up
<1>7. Reported'
  BY <1>1 DEF Reported
<1>8. QED
  BY <1>3, <1>4, <1>5, <1>6, <1>7 DEF Honest

(* A companion that was up all along listens, so its port is not found closed.*)
LEMMA HonestTryPorts ==
    ASSUME HopInv, Honest, NEW preflight \in BOOLEAN, TryPorts(preflight)
    PROVE  Honest'
<1> USE DEF Honest
<1>1. /\ probe' = [p \in Ports |-> IF p \notin Targets THEN probe[p]
                                   ELSE IF Free(p) THEN "miss"
                                   ELSE IF preflight THEN "options" ELSE "post"]
      /\ UNCHANGED <<port, forwarded, isRunning, asks, command, nui,
                     found, stored, lost, steady, excused>>
      /\ nui \in {"range", "remembered"}
  BY DEF TryPorts, companionVars, clientVars
<1>2. \A x \in conns' : x \notin conns =>
         /\ x.stage = "queued" /\ x.kind = (IF preflight THEN "OPTIONS" ELSE "POST")
         /\ x.to \in Companions /\ port[x.to] \in Targets
  BY DEF TryPorts
<1>3. /\ Targets \subseteq Ports
      /\ \A c \in conns : (Probing(c) /\ port[c.to] \in Targets) => c.ask # asks
  BY FreshTargets
<1>4. \A i \in Companions : \A a : HasAsked(i, a)' <=> HasAsked(i, a)
  BY <1>1 DEF HasAsked
<1>5. Passed'
  BY <1>2, <1>4, PlacedConns DEF Passed
<1>6. Preflighted'
  <2> SUFFICES ASSUME NEW x \in conns', x.kind = "OPTIONS", x.ask = asks
               PROVE  probe'[port[x.to]] # "post"
    BY <1>1 DEF Preflighted
  <2>1. CASE x \in conns
    <3>1. port[x.to] \in Ports /\ port[x.to] \notin Targets
      BY <1>3, <2>1, PlacedConns DEF Probing
    <3>2. QED
      BY <1>1, <2>1, <3>1 DEF Preflighted
  <2>2. CASE x \notin conns
    BY <1>1, <1>2, <1>3, <2>2
  <2>3. QED
    BY <2>1, <2>2
<1>7. Reached' <=> Reached
  BY <1>1 DEF Reached, HasAsked
<1>8. HitsAreTrue'
  BY <1>1, <1>7 DEF HitsAreTrue
<1>9. MissesAreExcused'
  <2> SUFFICES ASSUME NEW i \in steady
               PROVE  Up(i) /\ (Missed(i)' => port[i] \in excused)
    BY <1>1 DEF MissesAreExcused, Up
  <2>1. Up(i) /\ port[i] \in Ports /\ ~Free(port[i])
    BY DEF MissesAreExcused, HopInv, Typed, Up, Free
  <2>2. probe'[port[i]] = "miss" => probe[port[i]] = "miss"
    BY <1>1, <2>1
  <2>3. QED
    BY <1>1, <2>1, <2>2 DEF MissesAreExcused, Missed
<1>10. Reported'
  BY <1>1 DEF Reported
<1>11. QED
  BY <1>5, <1>6, <1>8, <1>9, <1>10

(* Another program's answer is a miss on a port no companion has; a probe     *)
(* given up is excused.                                                       *)
LEMMA HonestSettle ==
    ASSUME HopInv, Honest, NEW p \in Ports, OtherAnswers(p) \/ ProbeTimesOut(p)
    PROVE  Honest'
<1> USE DEF Honest
<1>1. /\ probe' = [probe EXCEPT ![p] = "miss"]
      /\ excused \subseteq excused' /\ (p \in Squatted \/ p \in excused')
      /\ UNCHANGED <<port, forwarded, conns, isRunning, asks, command,
                     nui, found, stored, lost, steady>>
  BY DEF OtherAnswers, OtherBody, ProbeTimesOut, companionVars, clientVars
<1>2. \A q \in Ports : probe'[q] = IF q = p THEN "miss" ELSE probe[q]
  BY <1>1 DEF HopInv, Typed
<1>3. Passed'
  BY <1>1 DEF Passed, HasAsked
<1>4. Preflighted'
  <2>1. \A c \in conns : port[c.to] \in Ports
    BY PlacedConns
  <2>2. QED
    BY <1>1, <1>2, <2>1 DEF Preflighted
<1>5. Reached' <=> Reached
  BY <1>1 DEF Reached, HasAsked
<1>6. HitsAreTrue'
  BY <1>2, <1>5 DEF HitsAreTrue
<1>7. MissesAreExcused'
  <2> SUFFICES ASSUME NEW i \in steady
               PROVE  Up(i) /\ (Missed(i)' => port[i] \in excused')
    BY <1>1 DEF MissesAreExcused, Up
  <2>1. Up(i) /\ port[i] \in Ports /\ port[i] \notin Squatted
    BY DEF MissesAreExcused, HopInv, Typed, Up, Listening
  <2>2. QED
    BY <1>1, <1>2, <2>1 DEF MissesAreExcused, Missed
<1>8. Reported'
  BY <1>1, <1>5 DEF Reported
<1>9. QED
  BY <1>3, <1>4, <1>6, <1>7, <1>8

LEMMA HonestRemembered ==
    ASSUME HopInv, Honest, Remembered
    PROVE  Honest'
<1> USE DEF Honest
<1>1. /\ nui = "remembered" /\ stored \in Ports /\ stored # NoPort
      /\ probe[stored] \in {"hit", "miss"}
      /\ IF probe[stored] = "hit" THEN nui' = "reporting" /\ found' = stored
                                  ELSE nui' = "range" /\ UNCHANGED found
      /\ probe' = [probe EXCEPT ![stored] = "idle"]
      /\ UNCHANGED <<port, forwarded, conns, asks, stored, steady, excused>>
  BY DEF Remembered, companionVars, HopInv, Delivering, Typed
<1>2. \A q \in Ports : probe'[q] = IF q = stored THEN "idle" ELSE probe[q]
  BY <1>1 DEF HopInv, Typed
<1>3. Passed'
  BY <1>1 DEF Passed, HasAsked
<1>4. Preflighted'
  <2>1. \A c \in conns : port[c.to] \in Ports
    BY PlacedConns
  <2>2. QED
    BY <1>1, <1>2, <2>1 DEF Preflighted
<1>5. Reached' <=> Reached
  BY <1>1 DEF Reached, HasAsked
<1>6. HitsAreTrue'
  BY <1>2, <1>5 DEF HitsAreTrue
<1>7. MissesAreExcused'
  <2> SUFFICES ASSUME NEW i \in steady
               PROVE  Up(i) /\ (Missed(i)' => port[i] \in excused)
    BY <1>1 DEF MissesAreExcused, Up
  <2>1. Up(i) /\ port[i] \in Ports
    BY DEF MissesAreExcused, HopInv, Typed, Up
  <2>2. CASE port[i] = stored
    <3>1. nui' = "range" => probe[port[i]] = "miss"
      BY <1>1, <2>2
    <3>2. Missed(i)' => nui' = "range"
      BY <1>2, <2>1, <2>2, <1>1 DEF Missed
    <3>3. QED
      BY <2>1, <3>1, <3>2 DEF MissesAreExcused, Missed
  <2>3. CASE port[i] # stored
    BY <1>1, <1>2, <2>1, <2>3 DEF MissesAreExcused, Missed
  <2>4. QED
    BY <2>2, <2>3
<1>8. Reported'
  BY <1>1, <1>5 DEF Reported, HitsAreTrue
<1>9. QED
  BY <1>3, <1>4, <1>6, <1>7, <1>8

(* Without a hit, every companion that was up all along is on a port that was *)
(* missed in the range, or missed before it as the remembered one.            *)
LEMMA HonestRangeDone ==
    ASSUME HopInv, Honest, RangeDone
    PROVE  Honest'
<1> USE DEF Honest
<1> DEFINE hits == {p \in Targets : probe[p] = "hit"}
<1>1. /\ nui = "range" /\ nui' = "reporting"
      /\ \A p \in Targets : probe[p] \in {"hit", "miss"}
      /\ found' = IF hits = {} THEN NoPort ELSE Least(hits)
      /\ UNCHANGED <<port, forwarded, conns, asks, probe, steady, excused>>
  BY DEF RangeDone, companionVars
<1>2. Targets = Ports \ {stored}
  BY <1>1 DEF Targets, OtherPorts
<1>3. Passed' /\ Preflighted'
  BY <1>1 DEF Passed, Preflighted, HasAsked
<1>4. Reached' <=> Reached
  BY <1>1 DEF Reached, HasAsked
<1>5. HitsAreTrue'
  BY <1>1, <1>4 DEF HitsAreTrue
<1>6. MissesAreExcused'
  BY <1>1 DEF MissesAreExcused, Missed, Up
<1>7. Reported'
  <2>1. CASE hits = {}
    <3>1. \A i \in steady : port[i] \in excused
      <4> SUFFICES ASSUME NEW i \in steady PROVE port[i] \in excused
        OBVIOUS
      <4>1. port[i] \in Ports
        BY DEF MissesAreExcused, HopInv, Typed, Up
      <4>2. CASE port[i] = stored
        BY <1>1, <4>2 DEF MissesAreExcused, Missed
      <4>3. CASE port[i] # stored
        BY <1>1, <1>2, <2>1, <4>1, <4>3 DEF MissesAreExcused, Missed
      <4>4. QED
        BY <4>2, <4>3
    <3>2. QED
      BY <1>1, <2>1, <3>1 DEF Reported
  <2>2. CASE hits # {}
    <3>1. Reached
      BY <1>2, <2>2 DEF HitsAreTrue
    <3>2. hits \in SUBSET Ports
      BY <1>2
    <3> HIDE DEF hits
    <3>3. Least(hits) # NoPort
      BY <2>2, <3>2, LeastIn, PortFacts
    <3>4. QED
      BY <1>1, <1>4, <2>2, <3>1, <3>3 DEF Reported
  <2>3. QED
    BY <2>1, <2>2
<1>8. QED
  BY <1>3, <1>5, <1>6, <1>7

LEMMA HonestReturn ==
    ASSUME HopInv, Honest, DeliverReturns
    PROVE  Honest'
<1>1. /\ nui' = "idle" /\ probe' = [p \in Ports |-> "idle"] /\ steady' = {}
      /\ UNCHANGED <<port, forwarded, conns, asks>>
  BY DEF DeliverReturns, companionVars
<1>2. Preflighted'
  <2>1. \A c \in conns : port[c.to] \in Ports
    BY PlacedConns
  <2>2. QED
    BY <1>1, <2>1 DEF Preflighted
<1>3. Passed'
  BY <1>1 DEF Honest, Passed, HasAsked
<1>4. HitsAreTrue' /\ MissesAreExcused' /\ Reported'
  BY <1>1 DEF HitsAreTrue, MissesAreExcused, Reported
<1>5. QED
  BY <1>2, <1>3, <1>4 DEF Honest

-----------------------------------------------------------------------------
LEMMA ForwardingStep ==
    ASSUME HopInv, Forwarding, [Next]_vars
    PROVE  Forwarding'
<1>1. CASE UNCHANGED forwarded
  BY <1>1 DEF Forwarding
<1>2. ASSUME NEW c \in conns, ServeOne(c) PROVE Forwarding'
  BY <1>2, ServeOneFacts DEF Forwarding
<1>3. QED
  BY <1>1, <1>2
  DEF Next, vars, companionVars, Start, Stop, Accept, SpawnFails, Respond, Stray,
      Attest, TryPorts, OtherAnswers, ProbeTimesOut, Remembered, RangeDone,
      Report, ReportLost, DeliverReturns

(* Everything at once.                                                        *)
IInv == HopInv /\ Slots /\ Forwarding /\ Honest

LEMMA InitHolds == Init => IInv
<1> SUFFICES ASSUME Init PROVE IInv
  OBVIOUS
<1> USE LocalHopAssumption DEF Init
<1>1. Typed
  <2>1. Null \in Cmds
    BY DEF Cmds
  <2>2. /\ port \in [Companions -> Ports \cup {NoPort}]
        /\ live \in [Companions -> Nat]
        /\ probe \in [Ports -> {"idle", "options", "post", "hit", "miss"}]
    OBVIOUS
  <2>3. forwarded \in [Companions -> Seq(Entry)]
    OBVIOUS
  <2>4. QED
    BY <2>1, <2>2, <2>3 DEF Typed
<1>2. \A i \in Companions : ~Up(i) /\ forwarded[i] = <<>> /\ port[i] = NoPort
  BY DEF Up
<1>3. Listening
  BY <1>2 DEF Listening
<1>4. Delivering
  BY DEF Delivering
<1>5. \A i \in Companions : DOMAIN forwarded[i] = {}
  BY <1>2
<1>6. Once
  BY <1>2, <1>5 DEF Once, Numbered
<1>7. Slots
  <2>1. \A i \in Companions : Serving(i) = {}
    BY DEF Serving
  <2>2. \A i \in Companions : live[i] = 0 /\ 0 <= MAX_CONCURRENT
    OBVIOUS
  <2>3. QED
    BY ONLY <2>1, <2>2, FS_EmptySet DEF Slots
<1>8. Forwarding
  BY <1>5 DEF Forwarding
<1>9. Honest
  BY DEF Honest, Passed, Preflighted, HitsAreTrue, MissesAreExcused, Reported
<1>10. QED
  BY <1>1, <1>3, <1>4, <1>6, <1>7, <1>8, <1>9 DEF IInv, HopInv

LEMMA StepHolds == IInv /\ [Next]_vars => IInv'
<1> SUFFICES ASSUME IInv, [Next]_vars PROVE IInv'
  OBVIOUS
<1>1. HopInv /\ Slots /\ Forwarding /\ Honest
  BY DEF IInv
<1>2. Slots' /\ Forwarding'
  BY <1>1, SlotsStep, ForwardingStep
<1>3. CASE Start
  BY <1>1, <1>2, <1>3, StartStep, HonestStart DEF IInv
<1>4. ASSUME NEW i \in Companions, Stop(i) PROVE IInv'
  BY <1>1, <1>2, <1>4, StopStep, HonestStop DEF IInv
<1>5. ASSUME NEW c \in conns, Accept(c) PROVE IInv'
  BY <1>1, <1>2, <1>5, AcceptStep, HonestAccept DEF IInv
<1>6. ASSUME NEW c \in conns, SpawnFails(c) PROVE IInv'
  BY <1>1, <1>2, <1>6, SpawnFailsStep, HonestSpawnFails DEF IInv
<1>7. ASSUME NEW c \in conns, ServeOne(c) PROVE IInv'
  BY <1>1, <1>2, <1>7, ServeOneStep, HonestServeOne DEF IInv
<1>8. ASSUME NEW c \in conns, Respond(c) PROVE IInv'
  BY <1>1, <1>2, <1>8, RespondStep, HonestRespond DEF IInv
<1>9. ASSUME NEW s \in Strays, NEW i \in Companions, NEW cmd \in StrayCommands,
             Stray(s, i, cmd)
      PROVE  IInv'
  BY <1>1, <1>2, <1>9, StrayStep, HonestStray DEF IInv
<1>10. ASSUME NEW cmd \in UNION {Commands[n] : n \in 1..MaxAsks},
              NEW arrives \in BOOLEAN, Attest(cmd, arrives)
       PROVE  IInv'
  BY <1>1, <1>2, <1>10, AttestStep, HonestAttest DEF IInv
<1>11. ASSUME NEW preflight \in BOOLEAN, TryPorts(preflight) PROVE IInv'
  BY <1>1, <1>2, <1>11, TryPortsStep, HonestTryPorts DEF IInv
<1>12. ASSUME NEW p \in Ports, OtherAnswers(p) \/ ProbeTimesOut(p) PROVE IInv'
  BY <1>1, <1>2, <1>12, SettleStep, HonestSettle DEF IInv
<1>13. CASE Remembered
  BY <1>1, <1>2, <1>13, RememberedStep, HonestRemembered DEF IInv
<1>14. CASE RangeDone
  BY <1>1, <1>2, <1>14, RangeDoneStep, HonestRangeDone DEF IInv
<1>15. CASE DeliverReturns
  BY <1>1, <1>2, <1>15, ReturnStep, HonestReturn DEF IInv
<1>16. CASE UNCHANGED vars
  <2>1. HopInv'
    <3>1. Typed' /\ Listening' /\ Delivering'
      BY <1>1, <1>16 DEF vars, companionVars, clientVars, HopInv, Typed, Listening, Up, Delivering
    <3>2. \A i \in Companions : Tried(i)' <=> Tried(i)
      BY <1>16 DEF vars, companionVars, clientVars, Tried
    <3>3. QED
      BY <1>1, <1>16, <3>1, <3>2, FrameStep DEF vars, companionVars, clientVars
  <2>2. Honest'
    <3>1. \A i \in Companions : \A a : HasAsked(i, a)' <=> HasAsked(i, a)
      BY <1>16 DEF vars, companionVars, HasAsked
    <3>2. \A x \in conns' :
             /\ (x.kind = "POST" /\ x.stage = "ok") => HasAsked(x.to, x.ask)'
             /\ (x.kind = "OPTIONS" /\ x.ask = asks) =>
                   \E y \in conns : y.kind = "OPTIONS" /\ y.ask = asks /\ y.to = x.to
      BY <1>1, <1>16, <3>1, PlacedConns DEF vars, Honest, Passed
    <3>3. QED
      BY <1>1, <1>16, <3>1, <3>2, HonestConns DEF vars, companionVars
  <2>3. QED
    BY <1>2, <2>1, <2>2 DEF IInv
<1>17. QED
  BY <1>3, <1>4, <1>5, <1>6, <1>7, <1>8, <1>9, <1>10, <1>11, <1>12, <1>13,
     <1>14, <1>15, <1>16 DEF Next, Report, ReportLost

LEMMA Invariance == Spec => []IInv
<1>1. QED
  BY InitHolds, StepHolds, PTL DEF Spec

(* The endpoint's count (server.rs: the accept loop, its guard and the end of *)
(* a thread) is the number of threads serving a connection and never exceeds  *)
(* the limit, whatever connects and whenever the companion is stopped.        *)
THEOREM SlotsAreAccounted == Spec => []SlotsAccounted
<1>1. IInv => SlotsAccounted
  BY DEF IInv, Slots, Serving, SlotsAccounted
<1>2. QED
  BY <1>1, Invariance, PTL

(* One delivery of client/main.lua and transport.js makes a companion pass a  *)
(* command on at most once, for any number of companions, ports and           *)
(* deliveries, also when an answer comes too late for the frame.              *)
THEOREM DeliveredOnce == Spec => []OncePerCompanion
<1>1. IInv => OncePerCompanion
  <2> SUFFICES ASSUME IInv, NEW i \in Companions, NEW ask \in 1..MaxAsks
               PROVE  Cardinality(Asked(i, ask)) <= 1
    BY DEF OncePerCompanion
  <2>1. \A m, n \in Asked(i, ask) : m = n
    <3>1. /\ Numbered /\ ask \in 0..MaxAsks
      BY LocalHopAssumption DEF IInv, HopInv, Once
    <3>2. QED
      BY <3>1, StraysAreNoDelivery DEF Asked, Numbered
  <2>2. CASE Asked(i, ask) = {}
    BY <2>2, FS_EmptySet
  <2>3. CASE Asked(i, ask) # {}
    <3>1. PICK n : Asked(i, ask) = {n}
      BY <2>1, <2>3
    <3>2. QED
      BY <3>1, FS_Singleton
  <2>4. QED
    BY <2>2, <2>3
<1>2. QED
  BY <1>1, Invariance, PTL

(* What transport.js reports is true: a hit means a companion passed this     *)
(* delivery's command on, none means every companion that was up throughout   *)
(* dropped or refused the probe or was too slow for it.                       *)
THEOREM ReportsAreTrue == Spec => []ReportIsTrue
<1>1. IInv => ReportIsTrue
  <2>1. \A i, a : HasAsked(i, a) => Asked(i, a) # {}
    BY DEF HasAsked, Asked
  <2>2. QED
    BY <2>1 DEF IInv, Honest, Reported, Reached, ReportIsTrue
<1>2. QED
  BY <1>1, Invariance, PTL

(* serde reads a command from an object, or from a list as if it were one;    *)
(* either way its texts are those of the body.                                *)
LEMMA CommandRead ==
    ASSUME NEW w \in Cmds, Accepts("rust", "LocalAttestCommand", w)
    PROVE  /\ LocalAttestCommand("rust", AsRead(w))
           /\ ValidateLocalAttestCommand("rust", AsRead(w))
           /\ \A k \in DOMAIN AsRead(w).f :
                 AsRead(w).f[k].t = "text" => WellFormedText(AsRead(w).f[k])
<1> DEFINE order == FieldOrder["LocalAttestCommand"]
<1>1. LocalAttestCommand("rust", AsRead(w)) /\ ValidateLocalAttestCommand("rust", AsRead(w))
  BY DEF Accepts, Valid, AsRead
<1>2. w # Null
  <2>1. ASSUME w = Null PROVE AsRead(w) = Null
    BY <2>1 DEF AsRead, Struct, Null
  <2>2. AsRead(w).t = "object"
    BY <1>1 DEF LocalAttestCommand, Fields
  <2>3. QED
    BY <2>1, <2>2 DEF Null
<1>3. w \in StrayCommands \cup (UNION {Commands[n] : n \in 1..MaxAsks})
  BY <1>2 DEF Cmds
<1>4. CASE AsRead(w) = w
  <2>1. w.t = "object"
    BY <1>1, <1>4 DEF LocalAttestCommand, Fields
  <2>2. QED
    BY <1>1, <1>3, <1>4, <2>1, TextsAreUtf8
<1>5. CASE AsRead(w) # w
  <2>1. w.t = "list" /\ AsRead(w) = Named(order, w.items)
    BY <1>5 DEF AsRead, Struct
  <2> HIDE DEF order
  <2> DEFINE at(k) == CHOOSE i \in DOMAIN w.items : order[i] = k
             names == {order[i] : i \in DOMAIN w.items}
  <2>2. AsRead(w).f = [k \in names |-> w.items[at(k)]]
    BY <2>1 DEF Named, Object
  <2>3. \A k \in names : at(k) \in DOMAIN w.items
    OBVIOUS
  <2> HIDE DEF at, names
  <2>4. \A k \in DOMAIN AsRead(w).f :
           AsRead(w).f[k] = w.items[at(k)] /\ at(k) \in DOMAIN w.items
    BY <2>2, <2>3
  <2>5. QED
    BY <1>1, <1>3, <2>1, <2>4, TextsAreUtf8
<1>6. QED
  BY <1>4, <1>5

(* A command serde and validate() accept is, as it is handed on, one zod      *)
(* accepts, up to capitals in its nonce: Rust counts bytes, of which a text   *)
(* has no fewer than characters, and the struct has no null.                  *)
LEMMA RustIsStricter ==
    ASSUME NEW w \in Cmds, Accepts("rust", "LocalAttestCommand", w)
    PROVE  /\ LocalCommand(w).f.nonce = AsRead(w).f.nonce
           /\ LocalCommand(w).f.backendUrl = AsRead(w).f.backendUrl
           /\ LocalCommand(w).f.protocolVersion = AsRead(w).f.protocolVersion
           /\ AsRead(w).f.nonce.form # "HEX" =>
                 Accepts("zod", "LocalAttestCommand", LocalCommand(w))
<1> DEFINE required == [nonce |-> "text", backendUrl |-> "text", protocolVersion |-> "int"]
           optional == [serverName |-> "text"]
           read == AsRead(w)
           cmd == LocalCommand(w)
<1>1. /\ DOMAIN required = {"nonce", "backendUrl", "protocolVersion"}
      /\ DOMAIN optional = {"serverName"}
      /\ required.nonce = "text" /\ required.backendUrl = "text"
      /\ required.protocolVersion = "int" /\ optional.serverName = "text"
  OBVIOUS
<1>2. /\ Fields("rust", read, required, optional)
      /\ ValidateLocalAttestCommand("rust", read)
      /\ \A k \in DOMAIN read.f : read.f[k].t = "text" => WellFormedText(read.f[k])
  BY CommandRead DEF LocalAttestCommand
<1>3. /\ cmd.t = "object"
      /\ DOMAIN cmd.f = {j \in DOMAIN read.f : read.f[j] # Null}
      /\ \A k \in DOMAIN cmd.f : cmd.f[k] = read.f[k] /\ read.f[k] # Null
  BY DEF LocalCommand, DropNulls, Object
<1>4. /\ "text" \notin DOMAIN Enums /\ "int" \notin DOMAIN Enums
  BY DEF Enums
<1> HIDE DEF required, optional, read, cmd
<1>5. ASSUME NEW v, NEW type \in {"text", "int"}, HasType("rust", v, type)
      PROVE  v.t = type /\ v # Null /\ HasType("zod", v, type)
  BY <1>4, <1>5 DEF HasType, Null
<1>6. /\ {"nonce", "backendUrl", "protocolVersion"} \subseteq DOMAIN cmd.f
      /\ DOMAIN cmd.f \subseteq {"nonce", "backendUrl", "protocolVersion", "serverName"}
      /\ HasType("rust", cmd.f.nonce, "text") /\ HasType("rust", cmd.f.backendUrl, "text")
      /\ HasType("rust", cmd.f.protocolVersion, "int")
      /\ "serverName" \in DOMAIN cmd.f => HasType("rust", cmd.f.serverName, "text")
  <2>1. \A k \in DOMAIN required :
           k \in DOMAIN read.f /\ HasType("rust", read.f[k], required[k])
    BY <1>2 DEF Fields
  <2>2. /\ {"nonce", "backendUrl", "protocolVersion"} \subseteq DOMAIN read.f
        /\ HasType("rust", read.f.nonce, "text")
        /\ HasType("rust", read.f.backendUrl, "text")
        /\ HasType("rust", read.f.protocolVersion, "int")
    BY <1>1, <2>1
  <2>3. {"nonce", "backendUrl", "protocolVersion"} \subseteq DOMAIN cmd.f
    <3>1. read.f.nonce # Null /\ read.f.backendUrl # Null /\ read.f.protocolVersion # Null
      BY <1>5, <2>2
    <3>2. QED
      BY <1>3, <2>2, <3>1
  <2>4. DOMAIN cmd.f \subseteq {"nonce", "backendUrl", "protocolVersion", "serverName"}
    BY <1>1, <1>2, <1>3 DEF Fields
  <2>5. ASSUME "serverName" \in DOMAIN cmd.f PROVE HasType("rust", cmd.f.serverName, "text")
    BY <1>1, <1>2, <1>3, <2>5 DEF Fields
  <2>6. QED
    BY <1>3, <2>2, <2>3, <2>4, <2>5
<1>7. /\ WellFormedText(cmd.f.nonce) /\ WellFormedText(cmd.f.backendUrl)
      /\ "serverName" \in DOMAIN cmd.f => WellFormedText(cmd.f.serverName)
  <2>1. /\ cmd.f.nonce.t = "text" /\ cmd.f.backendUrl.t = "text"
        /\ "serverName" \in DOMAIN cmd.f => cmd.f.serverName.t = "text"
    BY <1>5, <1>6
  <2>2. \A k \in DOMAIN cmd.f : cmd.f[k].t = "text" => WellFormedText(cmd.f[k])
    BY <1>2, <1>3
  <2>3. QED
    BY <1>6, <2>1, <2>2
<1>8. /\ cmd.f.nonce = read.f.nonce /\ cmd.f.backendUrl = read.f.backendUrl
      /\ cmd.f.protocolVersion = read.f.protocolVersion
  BY <1>3, <1>6
<1>9. ASSUME read.f.nonce.form # "HEX" PROVE Accepts("zod", "LocalAttestCommand", cmd)
  <2>1. Fields("zod", cmd, required, optional)
    <3>1. \A k \in DOMAIN cmd.f :
             IF k \in DOMAIN required THEN HasType("zod", cmd.f[k], required[k])
             ELSE HasType("zod", cmd.f[k], optional[k])
      <4>1. /\ HasType("zod", cmd.f.nonce, "text")
            /\ HasType("zod", cmd.f.backendUrl, "text")
            /\ HasType("zod", cmd.f.protocolVersion, "int")
            /\ "serverName" \in DOMAIN cmd.f => HasType("zod", cmd.f.serverName, "text")
        BY <1>5, <1>6
      <4>2. QED
        BY <1>1, <1>6, <4>1
    <3>2. DOMAIN required \subseteq DOMAIN cmd.f
          /\ DOMAIN cmd.f \subseteq DOMAIN required \cup DOMAIN optional
      BY <1>1, <1>6
    <3>3. QED
      BY <1>3, <3>1, <3>2 DEF Fields
  <2>2. Length("zod", cmd.f.nonce, 64, 64) /\ Hex("zod", cmd.f.nonce)
    BY <1>2, <1>7, <1>8, <1>9
    DEF ValidateLocalAttestCommand, Length, Hex, Loose, WellFormedText
  <2>3. Length("zod", cmd.f.backendUrl, 0, 256)
    BY <1>2, <1>7, <1>8 DEF ValidateLocalAttestCommand, Length, WellFormedText
  <2>4. Given(cmd, "serverName", LAMBDA x : Length("zod", x, 0, 128))
    BY <1>2, <1>3, <1>7 DEF ValidateLocalAttestCommand, Given, Length, WellFormedText
  <2>5. AtLeast(cmd.f.protocolVersion, 1)
    BY <1>2, <1>8 DEF ValidateLocalAttestCommand
  <2>6. LocalAttestCommand("zod", cmd) /\ ValidateLocalAttestCommand("zod", cmd)
    BY <2>1, <2>2, <2>3, <2>4, <2>5
    DEF LocalAttestCommand, ValidateLocalAttestCommand, required, optional
  <2>7. Struct("zod", "LocalAttestCommand", cmd) = cmd
    BY DEF Struct
  <2>8. QED
    BY <2>6, <2>7 DEF Accepts, Valid
<1>10. QED
  BY <1>8, <1>9 DEF read, cmd

(* Whoever posted to the endpoint, what handle_request passes to the worker   *)
(* is a command the backend's schema accepts too, up to capitals in its       *)
(* nonce, of this protocol version, for an origin compiled in or listed in a  *)
(* readable fiveprotect.json.                                                 *)
THEOREM OnlyOursIsForwarded == Spec => []ForwardedIsOurs
<1>1. IInv => ForwardedIsOurs
  <2> SUFFICES ASSUME IInv, NEW i \in Companions, NEW n \in DOMAIN forwarded[i]
               PROVE  LET cmd == forwarded[i][n].cmd IN
                      /\ \/ Accepts("zod", "LocalAttestCommand", cmd)
                         \/ cmd.f.nonce.form = "HEX"
                      /\ cmd.f.protocolVersion.n = 1
                      /\ \E entry \in AllowedBackends :
                            Origin[entry] = Origin[cmd.f.backendUrl.form]
    BY DEF ForwardedIsOurs
  <2> DEFINE cmd == forwarded[i][n].cmd
  <2>1. Ours(cmd)
    BY DEF IInv, Forwarding
  <2> HIDE DEF cmd
  <2>2. PICK w \in Cmds : HandleRequest(w) /\ cmd = LocalCommand(w)
    BY <2>1 DEF Ours
  <2>3. /\ cmd.f.nonce = AsRead(w).f.nonce
        /\ cmd.f.backendUrl = AsRead(w).f.backendUrl
        /\ cmd.f.protocolVersion = AsRead(w).f.protocolVersion
        /\ AsRead(w).f.nonce.form # "HEX" => Accepts("zod", "LocalAttestCommand", cmd)
    BY <2>2, RustIsStricter DEF HandleRequest
  <2>4. Accepts("zod", "LocalAttestCommand", cmd) \/ cmd.f.nonce.form = "HEX"
    BY <2>3
  <2>5. cmd.f.protocolVersion.n = 1
    BY <2>2, <2>3 DEF HandleRequest, Number, PROTOCOL_VERSION
  <2>6. \E entry \in AllowedBackends : Origin[entry] = Origin[cmd.f.backendUrl.form]
    BY <2>2, <2>3 DEF HandleRequest, IsAllowedBackend
  <2>7. QED
    BY <2>4, <2>5, <2>6 DEF cmd
<1>2. QED
  BY <1>1, Invariance, PTL
=============================================================================
