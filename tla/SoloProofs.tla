----------------------------- MODULE SoloProofs -----------------------------
(***************************************************************************)
(* Theorems about the parts of the server that see one client, one chest   *)
(* or one structure at a time: what it makes of packets that are late      *)
(* (Session.tla, Falling.tla), what a player gets over time (Mining.tla,   *)
(* Eating.tla, Survival.tla), the chest it is kept in (Chests.tla), and    *)
(* the structures under all of it (Framing.tla, Sections.tla, Tables.tla). *)
(* The last theorems are about the run of MCSolo.tla, each of whose        *)
(* behaviours is one of one of these parts.                                *)
(***************************************************************************)
EXTENDS MCSolo, ListLemmas

-----------------------------------------------------------------------------
(***************************************************************************)
(* What the server makes of packets that are late, for every interval,     *)
(* timeout, height and bound: a client that answers in time is not closed  *)
(* for its silence, none is sent a packet of another protocol state than   *)
(* its own, and no player is hurt by a fall that was none.                 *)
(***************************************************************************)

(***************************************************************************)
(* Keepalive.  An answer that the client gave waits in the queue, or among *)
(* the tasks of this turn, or has been taken; one that came after the turn *)
(* began is no older than the turn's time.                                 *)
(***************************************************************************)

Name == {"intention", "request", "ping", "hello", "acknowledged", "packs", "finish", "confirm",
         "respawn", "fall"}
WrittenName == {"response", "pong", "finished", "packs", "registry", "tags", "disconnect",
                "finish", "initial", "alive", "respawn", "death", "news"}
Written == [of : States, name : WrittenName, id : Int]
Sent == [name : Name] \cup [name : {"intention"}, next : {"status", "login"}]
        \cup [name : {"alive"}, id : Int, at : Int]
KeepaliveType == [awaiting : BOOLEAN, id : Int, last : Int]
TurnType == [phase : {"idle", "begun", "handle"}, now : Int]

SessionShape ==
    /\ tasks \in Seq(Sent) /\ batch \in Seq(Sent) /\ wire \in Seq(Written)
    /\ keepalive \in KeepaliveType
    /\ turn \in TurnType
    /\ clock \in Int /\ answered \in Int

Answering(p) == p.name = "alive" /\ p.id = keepalive.id /\ p.at = answered

AnswerWaits ==
    \/ \E i \in DOMAIN batch : Answering(batch[i])
    \/ /\ \E i \in DOMAIN tasks : Answering(tasks[i])
       /\ turn.phase = "handle" => answered >= turn.now

TurnIsPast == turn.phase # "idle" => turn.now <= clock

AnswerInv ==
    /\ SessionShape
    /\ TurnIsPast
    /\ turn.phase # "handle" => batch = <<>>
    /\ keepalive.awaiting => state = "play"
    /\ closed = "no" /\ keepalive.awaiting /\ answered # Never => AnswerWaits

LEMMA SessionInitHolds == ASSUME SessionInit PROVE AnswerInv
<1>1. <<>> \in Seq(Sent) /\ <<>> \in Seq(Written) OBVIOUS
<1>2. keepalive \in KeepaliveType BY DEF SessionInit, KeepaliveType
<1>3. turn \in TurnType BY DEF SessionInit, TurnType
<1> QED BY <1>1, <1>2, <1>3, SessionAssumption DEF SessionInit, AnswerInv, SessionShape, TurnIsPast, Never
-----------------------------------------------------------------------------
LEMMA TurnBeginsKeeps == ASSUME AnswerInv, TurnBegins PROVE AnswerInv'
<1>1. turn' \in TurnType BY DEF TurnType, TurnBegins, AnswerInv, SessionShape
<1>2. SessionShape' BY <1>1 DEF AnswerInv, TurnBegins, SessionShape, connection
<1>3. TurnIsPast' BY DEF AnswerInv, TurnBegins, SessionShape, TurnIsPast
<1>4. turn.phase = "idle" /\ turn'.phase = "begun" BY DEF TurnBegins, Idle
<1>5. AnswerWaits => AnswerWaits' BY <1>4 DEF TurnBegins, AnswerWaits, Answering, connection
<1> QED BY <1>2, <1>3, <1>4, <1>5 DEF AnswerInv, TurnBegins, connection

LEMMA DrainKeeps == ASSUME AnswerInv, Drain PROVE AnswerInv'
<1>1. turn' \in TurnType /\ turn'.phase = "handle" /\ turn'.now = turn.now
  BY DEF AnswerInv, Drain, SessionShape, TurnType
<1>2. <<>> \in Seq(Sent) OBVIOUS
<1>3. SessionShape' BY <1>1, <1>2 DEF AnswerInv, Drain, SessionShape, connection
<1>4. TurnIsPast' BY <1>1 DEF AnswerInv, Drain, TurnIsPast
<1>5. batch = <<>> BY DEF AnswerInv, Drain
<1>6. AnswerWaits => AnswerWaits'
  BY <1>5 DEF AnswerWaits, Answering, Drain, connection
<1> QED BY <1>1, <1>3, <1>4, <1>6 DEF AnswerInv, Drain, connection

\* Whatever is queued behind it, an answer waits on.
LEMMA QueueKeeps ==
    ASSUME SessionShape, NEW packets \in Seq(Sent), Queue(packets),
           UNCHANGED <<batch, turn, keepalive, answered>>
    PROVE  tasks' \in Seq(Sent) /\ (AnswerWaits => AnswerWaits')
<1>1. tasks \in Seq(Sent) /\ tasks' = tasks \o packets BY DEF SessionShape, Queue
<1>2. tasks' \in Seq(Sent) BY <1>1
<1>3. \A i \in DOMAIN tasks : i \in DOMAIN tasks' /\ tasks'[i] = tasks[i] BY <1>1
<1>4. AnswerWaits => AnswerWaits' BY <1>3 DEF AnswerWaits, Answering
<1> QED BY <1>2, <1>4

LEMMA ClockTicksKeeps == ASSUME AnswerInv, ClockTicks PROVE AnswerInv'
<1>1. SessionShape' BY DEF AnswerInv, ClockTicks, SessionShape, connection
<1>2. TurnIsPast' BY DEF AnswerInv, ClockTicks, SessionShape, TurnIsPast, TurnType
<1>3. AnswerWaits => AnswerWaits' BY DEF ClockTicks, AnswerWaits, Answering, connection
<1> QED BY <1>1, <1>2, <1>3 DEF AnswerInv, ClockTicks, connection

LEMMA BroadcastKeeps == ASSUME AnswerInv, Broadcast PROVE AnswerInv'
<1>1. Packet("play", "news", 0) \in Written BY DEF Packet, Written, WrittenName, States
<1>2. <<Packet("play", "news", 0)>> \in Seq(Written) BY <1>1
<1>3. wire' \in Seq(Written) BY <1>2 DEF Broadcast, Write, AnswerInv, SessionShape
<1>4. SessionShape' BY <1>3 DEF AnswerInv, Broadcast, SessionShape
<1>5. TurnIsPast' BY DEF AnswerInv, Broadcast, TurnIsPast
<1>6. AnswerWaits => AnswerWaits' BY DEF Broadcast, AnswerWaits, Answering
<1> QED BY <1>4, <1>5, <1>6 DEF AnswerInv, Broadcast

LEMMA SpeakKeeps ==
    ASSUME AnswerInv, NEW name \in {"status", "login", "request", "ping", "fall", "respawn"},
           Speak(name)
    PROVE  AnswerInv'
<1>1. PICK packets \in Seq(Sent) : Queue(packets)
  <2>1. CASE /\ peer = "handshaking" /\ name \in {"status", "login"}
             /\ Queue(<<[name |-> "intention", next |-> name]>>
                      \o IF name = "login" THEN <<Says("hello")>> ELSE <<>>)
    <3>1. [name |-> "intention", next |-> name] \in Sent /\ Says("hello") \in Sent
      BY <2>1 DEF Sent, Says, Name
    <3>2. /\ <<[name |-> "intention", next |-> name]>> \in Seq(Sent)
          /\ <<Says("hello")>> \in Seq(Sent) /\ <<>> \in Seq(Sent)
      BY <3>1
    <3> DEFINE both == <<[name |-> "intention", next |-> name]>>
                       \o IF name = "login" THEN <<Says("hello")>> ELSE <<>>
    <3>3. both \in Seq(Sent) BY <3>2
    <3>4. Queue(both) BY <2>1
    <3> QED BY <3>3, <3>4
  <2>2. CASE name \in {"request", "ping", "fall", "respawn"} /\ Queue(<<Says(name)>>)
    <3>1. Says(name) \in Sent BY <2>2 DEF Sent, Says, Name
    <3>2. <<Says(name)>> \in Seq(Sent) BY <3>1
    <3> QED BY <2>2, <3>2
  <2> QED BY <2>1, <2>2 DEF Speak
<1>2. UNCHANGED <<batch, turn, keepalive, answered, wire, clock, state, closed>>
  BY DEF Speak, connection
<1>3. tasks' \in Seq(Sent) /\ (AnswerWaits => AnswerWaits')
  BY <1>1, <1>2, QueueKeeps DEF AnswerInv
<1>4. SessionShape' BY <1>2, <1>3 DEF AnswerInv, SessionShape
<1> QED BY <1>2, <1>3, <1>4 DEF AnswerInv, TurnIsPast

LEMMA BabbleKeeps ==
    ASSUME AnswerInv, NEW name \in {"hello", "acknowledged", "finish", "packs", "ping"},
           Babble(name)
    PROVE  AnswerInv'
<1>1. Says(name) \in Sent BY DEF Sent, Says, Name
<1>2. <<Says(name)>> \in Seq(Sent) /\ Queue(<<Says(name)>>) BY <1>1 DEF Babble
<1>3. UNCHANGED <<batch, turn, keepalive, answered, wire, clock, state, closed>>
  BY DEF Babble, connection
<1>4. tasks' \in Seq(Sent) /\ (AnswerWaits => AnswerWaits')
  BY <1>2, <1>3, QueueKeeps DEF AnswerInv
<1>5. SessionShape' BY <1>3, <1>4 DEF AnswerInv, SessionShape
<1> QED BY <1>3, <1>4, <1>5 DEF AnswerInv, TurnIsPast

LEMMA AnswerIsTyped ==
    ASSUME NEW p \in Written, clock \in Int
    PROVE  Answer(p) \in Seq(Sent)
<1>1. /\ Says("acknowledged") \in Sent /\ Says("packs") \in Sent /\ Says("finish") \in Sent
      /\ Says("confirm") \in Sent
  BY DEF Says, Sent, Name
<1>2. p.id \in Int BY DEF Written
<1>3. [name |-> "alive", id |-> p.id, at |-> clock] \in Sent BY <1>2 DEF Sent
<1>4. /\ <<Says("acknowledged")>> \in Seq(Sent) /\ <<Says("packs")>> \in Seq(Sent)
      /\ <<Says("finish")>> \in Seq(Sent) /\ <<Says("confirm")>> \in Seq(Sent)
      /\ <<[name |-> "alive", id |-> p.id, at |-> clock]>> \in Seq(Sent) /\ <<>> \in Seq(Sent)
  BY <1>1, <1>3
<1> QED BY <1>4 DEF Answer

LEMMA HearKeeps ==
    ASSUME AnswerInv, NEW hangs \in BOOLEAN, Hear(hangs)
    PROVE  AnswerInv'
<1> DEFINE packets == IF hangs THEN <<>> ELSE Answer(Head(wire))
<1>1. wire \in Seq(Written) /\ wire # <<>> BY DEF AnswerInv, SessionShape, Hear
<1>2. Head(wire) \in Written /\ wire' \in Seq(Written) BY <1>1 DEF Hear
<1>3. <<>> \in Seq(Sent) OBVIOUS
<1>4. packets \in Seq(Sent) BY <1>2, <1>3, AnswerIsTyped DEF AnswerInv, SessionShape
<1>5. Queue(packets) BY DEF Hear
<1>6. UNCHANGED <<batch, turn, keepalive, clock, state, closed>> BY DEF Hear
<1>7. CASE ~hangs /\ Head(wire).name = "alive" /\ Head(wire).id = keepalive.id
  <2>1. answered' = clock BY <1>7 DEF Hear
  <2> DEFINE reply == [name |-> "alive", id |-> keepalive.id, at |-> clock]
  <2>2. packets = <<reply>> BY <1>7 DEF Answer
  <2>3. tasks \in Seq(Sent) /\ tasks' = tasks \o <<reply>> BY <1>5, <2>2 DEF Queue, AnswerInv, SessionShape
  <2>4. <<reply>> \in Seq(Sent) BY <1>4, <2>2
  <2> HIDE DEF packets
  <2>5. /\ tasks' \in Seq(Sent) /\ Len(tasks) + 1 \in DOMAIN tasks'
        /\ tasks'[Len(tasks) + 1] = reply
    <3> HIDE DEF reply
    <3> QED BY <2>3, <2>4
  <2>6. Answering(reply)' BY <1>6, <2>1 DEF Answering
  <2>7. AnswerWaits'
    <3>1. turn.phase = "handle" => clock >= turn.now
      BY DEF AnswerInv, TurnIsPast, SessionShape, TurnType
    <3> QED BY <1>6, <2>1, <2>5, <2>6, <3>1 DEF AnswerWaits, Answering
  <2>8. SessionShape' BY <1>2, <1>6, <2>1, <2>5 DEF AnswerInv, SessionShape
  <2> QED BY <1>6, <2>7, <2>8 DEF AnswerInv, TurnIsPast
<1>8. CASE ~(~hangs /\ Head(wire).name = "alive" /\ Head(wire).id = keepalive.id)
  <2>1. answered' = answered BY <1>8 DEF Hear
  <2> HIDE DEF packets
  <2>2. tasks' \in Seq(Sent) /\ (AnswerWaits => AnswerWaits')
    BY <1>4, <1>5, <1>6, <2>1, QueueKeeps DEF AnswerInv
  <2>3. SessionShape' BY <1>2, <1>6, <2>1, <2>2 DEF AnswerInv, SessionShape
  <2> QED BY <1>6, <2>1, <2>2, <2>3 DEF AnswerInv, TurnIsPast
<1> QED BY <1>7, <1>8
-----------------------------------------------------------------------------
LEMMA TurnEndsKeeps == ASSUME AnswerInv, TurnEnds PROVE AnswerInv'
<1>1. turn' \in TurnType /\ turn'.phase = "idle" /\ batch = <<>>
  BY DEF TurnEnds, TurnType
<1>2. UNCHANGED <<state, tasks, batch, clock>> BY DEF TurnEnds
<1>3. TurnIsPast' BY <1>1 DEF TurnIsPast
<1>4. CASE UNCHANGED <<closed, keepalive, wire, answered>>
  <2>1. AnswerWaits => AnswerWaits' BY <1>1, <1>2, <1>4 DEF AnswerWaits, Answering
  <2>2. SessionShape' BY <1>1, <1>2, <1>4 DEF AnswerInv, SessionShape
  <2> QED BY <1>1, <1>2, <1>3, <1>4, <2>1, <2>2 DEF AnswerInv
<1>5. CASE state = "play" /\ KeepaliveTick(turn.now)
  <2>1. /\ Packet("play", "disconnect", 0) \in Written
        /\ Packet("play", "alive", turn.now) \in Written /\ turn.now \in Int
    BY DEF Packet, Written, WrittenName, States, AnswerInv, SessionShape, TurnType
  <2>2. /\ <<Packet("play", "disconnect", 0)>> \in Seq(Written)
        /\ <<Packet("play", "alive", turn.now)>> \in Seq(Written)
    BY <2>1
  <2>3. CASE closed' = "timeout" /\ Write(<<Packet("play", "disconnect", 0)>>)
             /\ UNCHANGED <<keepalive, answered>>
    <3>1. wire' \in Seq(Written) BY <2>2, <2>3 DEF Write, AnswerInv, SessionShape
    <3>2. SessionShape' BY <1>1, <1>2, <2>3, <3>1 DEF AnswerInv, SessionShape
    <3> QED BY <1>1, <1>2, <1>3, <2>3, <3>2 DEF AnswerInv
  <2>4. CASE /\ keepalive' = [awaiting |-> TRUE, id |-> turn.now, last |-> turn.now]
             /\ answered' = Never /\ Write(<<Packet("play", "alive", turn.now)>>)
    <3>1. wire' \in Seq(Written) BY <2>2, <2>4 DEF Write, AnswerInv, SessionShape
    <3>2. keepalive' \in KeepaliveType BY <2>1, <2>4 DEF KeepaliveType
    <3>3. SessionShape' BY <1>1, <1>2, <2>4, <3>1, <3>2 DEF AnswerInv, SessionShape, Never
    <3> QED BY <1>1, <1>2, <1>3, <1>5, <2>4, <3>3 DEF AnswerInv
  <2> QED BY <1>4, <2>3, <2>4, <1>5 DEF KeepaliveTick
<1> QED BY <1>4, <1>5 DEF TurnEnds

\* What a handler does to a connection: what it writes are packets, it takes
\* nobody out of PLAY, and of the keepalive it changes what an answer ends.
HandledHere ==
    /\ wire' \in Seq(Written)
    /\ state = "play" => state' = "play"
    /\ keepalive' = keepalive \/ (keepalive' \in KeepaliveType /\ ~keepalive'.awaiting)

LEMMA WrittenIsTyped ==
    ASSUME NEW of \in States, NEW name \in WrittenName
    PROVE  <<Packet(of, name, 0)>> \in Seq(Written)
<1>1. Packet(of, name, 0) \in Written BY DEF Packet, Written
<1> QED BY <1>1

LEMMA WritesHandled ==
    ASSUME wire \in Seq(Written), NEW packets \in Seq(Written), Write(packets),
           keepalive' = keepalive, state = "play" => state' = "play"
    PROVE  HandledHere
BY DEF Write, HandledHere

LEMMA HandshakeHandled ==
    ASSUME NEW p, wire \in Seq(Written), state = "handshaking", Handshake(p)
    PROVE  HandledHere
BY DEF Handshake, Fails, HandledHere

LEMMA StatusHandled ==
    ASSUME NEW p, wire \in Seq(Written), state = "status", Status(p)
    PROVE  HandledHere
<1>1. /\ <<Packet("status", "response", 0)>> \in Seq(Written)
      /\ <<Packet("status", "pong", 0)>> \in Seq(Written)
  BY WrittenIsTyped DEF States, WrittenName
<1> QED BY <1>1, WritesHandled DEF Status, Fails, HandledHere

LEMMA LoginHandled ==
    ASSUME NEW p, wire \in Seq(Written), state = "login", Login(p)
    PROVE  HandledHere
<1>1. /\ <<Packet("login", "finished", 0)>> \in Seq(Written)
      /\ <<Packet("configuration", "packs", 0)>> \in Seq(Written) /\ <<>> \in Seq(Written)
  BY WrittenIsTyped DEF States, WrittenName
<1> QED BY <1>1, WritesHandled DEF Login, Fails, Ignored, HandledHere

LEMMA ConfigurationHandled ==
    ASSUME NEW p, wire \in Seq(Written), state = "configuration", Configuration(p)
    PROVE  HandledHere
<1>1. /\ Packet("configuration", "registry", 0) \in Written
      /\ Packet("configuration", "tags", 0) \in Written
  BY DEF Packet, Written, States, WrittenName
<1>2. /\ <<Packet("configuration", "registry", 0), Packet("configuration", "tags", 0)>> \in Seq(Written)
      /\ <<Packet("configuration", "finish", 0)>> \in Seq(Written)
      /\ <<Packet("configuration", "disconnect", 0)>> \in Seq(Written)
      /\ <<Packet("play", "initial", 0)>> \in Seq(Written) /\ <<>> \in Seq(Written)
  BY <1>1, WrittenIsTyped DEF States, WrittenName
<1> DEFINE ends == <<Packet("configuration", "registry", 0), Packet("configuration", "tags", 0)>>
                   \o IF "finish" \in told THEN <<>> ELSE <<Packet("configuration", "finish", 0)>>
<1>3. ends \in Seq(Written) BY <1>2
<1> HIDE DEF ends
<1>4. CASE Write(ends) /\ keepalive' = keepalive BY <1>3, <1>4, WritesHandled
<1>5. CASE Write(<<Packet("configuration", "disconnect", 0)>>) /\ keepalive' = keepalive
  BY <1>2, <1>5, WritesHandled
<1>6. CASE Write(<<Packet("play", "initial", 0)>>) /\ keepalive' = keepalive
  BY <1>2, <1>6, WritesHandled
<1>7. CASE Fails("error") \/ Ignored BY <1>7 DEF Fails, Ignored, HandledHere
<1> QED BY <1>4, <1>5, <1>6, <1>7 DEF Configuration, ends

LEMMA PlayHandled ==
    ASSUME NEW p \in Sent, wire \in Seq(Written), keepalive \in KeepaliveType,
           state = "play", Play(p)
    PROVE  HandledHere /\ (keepalive.awaiting /\ Answering(p) => ~keepalive'.awaiting)
<1>1. CASE p.name = "alive" /\ Answered(p)
  <2>1. p.at \in Int BY <1>1 DEF Sent, Name
  <2>2. [keepalive EXCEPT !.awaiting = FALSE, !.last = p.at] \in KeepaliveType
    BY <2>1 DEF KeepaliveType
  <2>3. ~[keepalive EXCEPT !.awaiting = FALSE, !.last = p.at].awaiting
    BY DEF KeepaliveType
  <2> QED BY <1>1, <2>2, <2>3 DEF Answered, HandledHere, Answering
<1>2. CASE p.name # "alive"
  <2>1. /\ <<Packet("play", "respawn", 0)>> \in Seq(Written)
        /\ <<Packet("play", "death", 0)>> \in Seq(Written) /\ <<>> \in Seq(Written)
    BY WrittenIsTyped DEF States, WrittenName
  <2>2. HandledHere BY <1>2, <2>1, WritesHandled DEF Play, Ignored, HandledHere
  <2> QED BY <1>2, <2>2 DEF Answering
<1> QED BY <1>1, <1>2 DEF Play

LEMMA ProcessTaskKeeps == ASSUME AnswerInv, ProcessTask PROVE AnswerInv'
<1> DEFINE p == Head(batch)
<1>1. batch \in Seq(Sent) /\ batch # <<>> BY DEF AnswerInv, SessionShape, ProcessTask
<1>2. /\ p \in Sent /\ batch' \in Seq(Sent) /\ p = batch[1]
      /\ \A i \in DOMAIN batch : i # 1 => i - 1 \in DOMAIN batch' /\ batch'[i - 1] = batch[i]
  BY <1>1 DEF ProcessTask
<1>3. UNCHANGED <<tasks, turn, clock, answered>> /\ turn.phase = "handle" BY DEF ProcessTask
<1>4. wire \in Seq(Written) /\ keepalive \in KeepaliveType BY DEF AnswerInv, SessionShape
<1>5. HandledHere /\ (closed = "no" /\ state = "play" /\ keepalive.awaiting /\ Answering(p)
                      => ~keepalive'.awaiting)
  <2> HIDE DEF p
  <2>1. CASE closed # "no" /\ Ignored BY <1>4, <2>1 DEF Ignored, HandledHere
  <2>2. CASE state = "handshaking" /\ Handshake(p) BY <1>4, <2>2, HandshakeHandled
  <2>3. CASE state = "status" /\ Status(p) BY <1>4, <2>3, StatusHandled
  <2>4. CASE state = "login" /\ Login(p) BY <1>4, <2>4, LoginHandled
  <2>5. CASE state = "configuration" /\ Configuration(p) BY <1>4, <2>5, ConfigurationHandled
  <2>6. CASE state = "play" /\ Play(p) BY <1>2, <1>4, <2>6, PlayHandled
  <2> QED BY <2>1, <2>2, <2>3, <2>4, <2>5, <2>6 DEF ProcessTask, p
<1>6. closed' = "no" => closed = "no" BY DEF ProcessTask, Ignored
<1>7. SessionShape' BY <1>2, <1>3, <1>4, <1>5 DEF AnswerInv, SessionShape, HandledHere
<1>8. ASSUME closed' = "no", keepalive'.awaiting, answered' # Never PROVE AnswerWaits'
  <2>1. keepalive' = keepalive /\ keepalive.awaiting BY <1>5, <1>8 DEF HandledHere
  <2>2. state = "play" BY <2>1 DEF AnswerInv
  <2>3. AnswerWaits BY <1>3, <1>6, <1>8, <2>1 DEF AnswerInv
  <2>4. ~Answering(p) BY <1>5, <1>6, <1>8, <2>1, <2>2
  <2>5. ASSUME NEW i \in DOMAIN batch, Answering(batch[i]) PROVE AnswerWaits'
    <3>1. i # 1 BY <1>2, <2>4, <2>5
    <3> QED BY <1>2, <1>3, <2>1, <2>5, <3>1 DEF AnswerWaits, Answering
  <2>6. CASE /\ \E i \in DOMAIN tasks : Answering(tasks[i])
             /\ turn.phase = "handle" => answered >= turn.now
    BY <1>3, <2>1, <2>6 DEF AnswerWaits, Answering
  <2> QED BY <2>3, <2>5, <2>6 DEF AnswerWaits
<1> QED BY <1>3, <1>5, <1>7, <1>8 DEF AnswerInv, TurnIsPast, HandledHere

LEMMA SessionStepKeeps == ASSUME AnswerInv, [SessionNext]_sessionVars PROVE AnswerInv'
<1>1. CASE UNCHANGED sessionVars
  BY <1>1 DEF sessionVars, AnswerInv, SessionShape, TurnIsPast, AnswerWaits, Answering
<1> QED BY <1>1, TurnBeginsKeeps, DrainKeeps, ProcessTaskKeeps, BroadcastKeeps, TurnEndsKeeps,
           ClockTicksKeeps, SpeakKeeps, BabbleKeeps, HearKeeps DEF SessionNext

\* The keepalive of a turn waits for nothing that was answered before it.
LEMMA SilenceIsReal ==
    ASSUME AnswerInv, [SessionNext]_sessionVars, closed' = "timeout", closed = "no"
    PROVE  answered = Never \/ answered > keepalive.last + Timeout
<1>1. TurnEnds /\ KeepaliveTick(turn.now)
  <2>1. ~ProcessTask
    BY DEF ProcessTask, Ignored, Handshake, Status, Login, Configuration, Play, Answered, Fails
  <2>2. TurnEnds
    BY <2>1 DEF SessionNext, sessionVars, connection, TurnBegins, Drain, Broadcast, ClockTicks,
                Speak, Babble, Hear
  <2> QED BY <2>2 DEF TurnEnds
<1>2. keepalive.awaiting /\ turn.now - keepalive.last > Timeout
  BY <1>1 DEF KeepaliveTick
<1>3. turn.phase = "handle" /\ batch = <<>> BY <1>1 DEF TurnEnds
<1>4. SUFFICES ASSUME answered # Never PROVE answered > keepalive.last + Timeout
  OBVIOUS
<1>5. answered >= turn.now BY <1>2, <1>3, <1>4 DEF AnswerInv, AnswerWaits
<1>6. /\ turn.now \in Int /\ keepalive.last \in Int /\ answered \in Int /\ Timeout \in Int
  BY SessionAssumption DEF AnswerInv, SessionShape, TurnType, KeepaliveType
<1> QED BY <1>2, <1>5, <1>6

\* KeepaliveFair for every interval, timeout and length of the queue
\* (proto_play_tick, play.c:6069-6081, against play.c:5605-5616).
THEOREM KeepaliveFairCorrect == SessionSpec => KeepaliveFair
<1>1. SessionInit => AnswerInv BY SessionInitHolds
<1>2. AnswerInv /\ [SessionNext]_sessionVars => AnswerInv' BY SessionStepKeeps
<1>3. AnswerInv /\ [SessionNext]_sessionVars =>
          (closed' = "timeout" /\ closed = "no" =>
               answered = Never \/ answered > keepalive.last + Timeout)
  BY SilenceIsReal
<1> QED BY <1>1, <1>2, <1>3, PTL DEF SessionSpec, KeepaliveFair
-----------------------------------------------------------------------------
(***************************************************************************)
(* Protocol states.  A vanilla client and the server take turns until the  *)
(* game begins: what is under way in one direction, or waits in the queue, *)
(* says how far the two have come.                                         *)
(***************************************************************************)

\* What is queued, in the order in which it will be handled.
Underhand == batch \o tasks
Asks(s) == [name |-> "intention", next |-> s]

\* A connection that asks for the status, and one that logs in.
StatusStage ==
    /\ told = {}
    /\ \/ /\ state = "handshaking" /\ Underhand # <<>> /\ Underhand[1] = Asks("status")
          /\ \A i \in DOMAIN Underhand : i # 1 => Underhand[i].name \in {"request", "ping"}
       \/ /\ state = "status"
          /\ \A i \in DOMAIN Underhand : Underhand[i].name \in {"request", "ping"}
\* The login, up to its last packet.
LoginStage ==
    \/ state = "handshaking" /\ told = {} /\ Underhand = <<Asks("login"), Says("hello")>> /\ wire = <<>>
    \/ state = "login" /\ told = {} /\ Underhand = <<Says("hello")>> /\ wire = <<>>
    \/ state = "login" /\ told = {"finished"} /\ Underhand = <<>> /\ wire = <<Packet("login", "finished", 0)>>

\* The end of the configuration: what is still under way of its last packets.
Closing == <<Packet("configuration", "registry", 0), Packet("configuration", "tags", 0),
             Packet("configuration", "finish", 0)>>
\* The configuration, from the client's acknowledgement on.
ConfigurationStage ==
    \/ state = "login" /\ told = {"finished"} /\ Underhand = <<Says("acknowledged")>> /\ wire = <<>>
    \/ /\ state = "configuration" /\ told = {"finished", "packs"}
       /\ \/ Underhand = <<>> /\ wire = <<Packet("configuration", "packs", 0)>>
          \/ Underhand = <<Says("packs")>> /\ wire = <<>>
    \/ /\ state = "configuration" /\ told = {"finished", "packs", "finish"} /\ Underhand = <<>>
       /\ wire \in {Closing, Tail(Closing), Tail(Tail(Closing))}

\* What the client sends in the game.
PlayName == {"confirm", "alive", "respawn", "fall"}
\* The game: the server may still have to handle the end of the configuration.
PlayStage ==
    \/ /\ state = "configuration" /\ told = {"finished", "packs", "finish"} /\ wire = <<>>
       /\ Underhand # <<>> /\ Underhand[1] = Says("finish")
       /\ \A i \in DOMAIN Underhand : i # 1 => Underhand[i].name \in PlayName
    \/ state = "play" /\ \A i \in DOMAIN Underhand : Underhand[i].name \in PlayName

\* While the connection is open the two are at one of these stages.
Stage ==
    /\ peer = "handshaking" => state = "handshaking" /\ told = {} /\ Underhand = <<>> /\ wire = <<>>
    /\ peer = "status" => StatusStage
    /\ peer = "login" => LoginStage
    /\ peer = "configuration" => ConfigurationStage
    /\ peer = "play" => PlayStage

\* The packets of a state, and those after which the client changes its own.
NamesOf(s) ==
    CASE s = "status" -> {"response", "pong"}
      [] s = "login" -> {"finished"}
      [] s = "configuration" -> {"packs", "registry", "tags", "disconnect", "finish"}
      [] s = "play" -> {"initial", "alive", "respawn", "death", "news", "disconnect"}
      [] OTHER -> {}
Turning == {"finished", "finish"}

\* All that is under way to the client is of its state; a packet that changes
\* the state is the last one of its.
WireAgrees ==
    \A i \in DOMAIN wire :
        /\ wire[i].of = peer /\ wire[i].name \in NamesOf(peer)
        /\ wire[i].name \in Turning => i = Len(wire)

\* What the client has left says nothing; before, it agrees with the server's
\* state and with what is under way.
AgreeInv ==
    /\ peer \in States \cup {"gone"}
    /\ peer # "gone" => WireAgrees /\ (closed = "no" => Stage)

\* A new connection is at the first stage.
LEMMA AgreeBegins == ASSUME SessionInit PROVE AgreeInv
<1>1. Underhand = <<>> BY DEF SessionInit, Underhand
<1> QED BY <1>1 DEF SessionInit, AgreeInv, WireAgrees, Stage, States

\* Queued packets come to the end of what is to be handled, a drain changes
\* nothing of it, and what is handled is its first.
LEMMA UnderhandType ==
    ASSUME SessionShape
    PROVE  Underhand \in Seq(Sent)
BY DEF SessionShape, Underhand

\* A packet that is queued is the last to be handled.
LEMMA UnderhandQueued ==
    ASSUME SessionShape, NEW packets \in Seq(Sent), Queue(packets), UNCHANGED batch
    PROVE  Underhand' = Underhand \o packets
<1>1. batch \in Seq(Sent) /\ tasks \in Seq(Sent) BY DEF SessionShape
<1>2. \A a, b, c \in Seq(Sent) : a \o (b \o c) = (a \o b) \o c OBVIOUS
<1> QED BY <1>1, <1>2 DEF Queue, Underhand

\* A drain keeps the order.
LEMMA UnderhandDrained ==
    ASSUME AnswerInv, Drain
    PROVE  Underhand' = Underhand
<1>1. batch = <<>> /\ batch' = tasks /\ tasks' = <<>> /\ tasks \in Seq(Sent)
  BY DEF AnswerInv, SessionShape, Drain
<1>2. <<>> \o tasks = tasks /\ tasks \o <<>> = tasks BY <1>1
<1> QED BY <1>1, <1>2 DEF Underhand

\* The packet that is handled was the first.
LEMMA UnderhandHandled ==
    ASSUME SessionShape, batch # <<>>, batch' = Tail(batch), UNCHANGED tasks
    PROVE  /\ Underhand # <<>> /\ Head(batch) = Underhand[1] /\ Underhand' = Tail(Underhand)
           /\ Head(batch) \in Sent
<1>1. batch \in Seq(Sent) /\ tasks \in Seq(Sent) BY DEF SessionShape
<1>2. \A a, b \in Seq(Sent) : a # <<>> =>
        a \o b # <<>> /\ Head(a) = (a \o b)[1] /\ Tail(a) \o b = Tail(a \o b) /\ Head(a) \in Sent
  OBVIOUS
<1> QED BY <1>1, <1>2 DEF Underhand

\* What the stages say of the packets' names survives.
LEMMA NamesQueued ==
    ASSUME NEW s \in Seq(Sent), NEW e \in Sent, NEW N, \A i \in DOMAIN s : s[i].name \in N, e.name \in N
    PROVE  \A i \in DOMAIN (s \o <<e>>) : (s \o <<e>>)[i].name \in N
<1> DEFINE t == s \o <<e>>
<1>1. DOMAIN t = 1 .. Len(s) + 1 /\ DOMAIN s = 1 .. Len(s) /\ Len(s) \in Nat OBVIOUS
<1>2. \A i \in 1 .. Len(s) : t[i] = s[i] OBVIOUS
<1>3. t[Len(s) + 1] = e OBVIOUS
<1> HIDE DEF t
<1>4. \A i \in 1 .. Len(s) + 1 : i \in 1 .. Len(s) \/ i = Len(s) + 1 BY <1>1
<1>5. \A i \in DOMAIN t : t[i].name \in N BY <1>1, <1>2, <1>3, <1>4
<1> QED BY <1>5 DEF t

\* Of all but the first: the names after a packet more.
LEMMA RestQueued ==
    ASSUME NEW s \in Seq(Sent), NEW e \in Sent, NEW N, s # <<>>,
           \A i \in DOMAIN s : i # 1 => s[i].name \in N, e.name \in N
    PROVE  /\ s \o <<e>> # <<>> /\ (s \o <<e>>)[1] = s[1]
           /\ \A i \in DOMAIN (s \o <<e>>) : i # 1 => (s \o <<e>>)[i].name \in N
<1> DEFINE t == s \o <<e>>
<1>1. DOMAIN t = 1 .. Len(s) + 1 /\ DOMAIN s = 1 .. Len(s) /\ Len(s) \in Nat \ {0} OBVIOUS
<1>2. \A i \in 1 .. Len(s) : t[i] = s[i] OBVIOUS
<1>3. t[Len(s) + 1] = e /\ t # <<>> OBVIOUS
<1> HIDE DEF t
<1>4. \A i \in 1 .. Len(s) + 1 : i \in 1 .. Len(s) \/ i = Len(s) + 1 BY <1>1
<1>5. \A i \in DOMAIN t : i # 1 => t[i].name \in N BY <1>1, <1>2, <1>3, <1>4
<1>6. t[1] = s[1] BY <1>1, <1>2
<1> QED BY <1>3, <1>5, <1>6 DEF t

\* The names of the rest, once the first is handled.
LEMMA NamesHandled ==
    ASSUME NEW s \in Seq(Sent), s # <<>>, NEW N, \A i \in DOMAIN s : i # 1 => s[i].name \in N
    PROVE  \A i \in DOMAIN Tail(s) : Tail(s)[i].name \in N
<1>1. /\ DOMAIN Tail(s) = 1 .. Len(s) - 1 /\ DOMAIN s = 1 .. Len(s) /\ Len(s) \in Nat
      /\ \A i \in 1 .. Len(s) - 1 : Tail(s)[i] = s[i + 1]
  OBVIOUS
<1>2. \A i \in 1 .. Len(s) - 1 : i + 1 \in 1 .. Len(s) /\ i + 1 # 1 BY <1>1
<1> QED BY <1>1, <1>2

\* A step that touches none of it.
LEMMA AgreeFrame ==
    ASSUME AgreeInv, UNCHANGED <<state, told, closed, wire, peer>>, Underhand' = Underhand
    PROVE  AgreeInv'
BY DEF AgreeInv, WireAgrees, Stage, StatusStage, LoginStage, ConfigurationStage, PlayStage

\* Packets written to a client that is, or is going to be, of their state.
LEMMA WriteAgrees ==
    ASSUME SessionShape, peer \in States, WireAgrees, UNCHANGED peer, NEW packet \in Written,
           Write(<<packet>>), packet.of = peer, packet.name \in NamesOf(peer),
           wire = <<>> \/ peer \in {"status", "play"}
    PROVE  WireAgrees'
<1>1. wire \in Seq(Written) /\ wire' = wire \o <<packet>> BY DEF SessionShape, Write
<1>2. /\ DOMAIN wire' = 1 .. Len(wire) + 1 /\ DOMAIN wire = 1 .. Len(wire) /\ Len(wire) \in Nat
      /\ Len(wire') = Len(wire) + 1
      /\ \A i \in 1 .. Len(wire) : wire'[i] = wire[i]
      /\ wire'[Len(wire) + 1] = packet
  BY <1>1
<1>3. \A i \in 1 .. Len(wire) + 1 : i \in 1 .. Len(wire) \/ i = Len(wire) + 1 BY <1>2
<1>4. \A i \in 1 .. Len(wire) : wire[i].name \notin Turning
  <2>1. CASE wire = <<>> BY <2>1
  <2>2. CASE peer \in {"status", "play"}
    <3>1. \A n \in NamesOf(peer) : n \notin Turning BY <2>2 DEF NamesOf, Turning
    <3> QED BY <1>2, <3>1 DEF WireAgrees
  <2> QED BY <2>1, <2>2
<1> QED BY <1>2, <1>3, <1>4 DEF WireAgrees

\* Whoever hears a packet has the rest before it.
LEMMA WireHeard ==
    ASSUME SessionShape, WireAgrees, wire # <<>>, wire' = Tail(wire)
    PROVE  /\ Head(wire) \in Written /\ Head(wire).of = peer /\ Head(wire).name \in NamesOf(peer)
           /\ Head(wire).name \in Turning => wire' = <<>>
           /\ peer' = peer => WireAgrees'
<1> DEFINE n == Len(wire)
<1>1. wire \in Seq(Written) BY DEF SessionShape
<1>2. /\ n \in Nat \ {0} /\ DOMAIN wire = 1 .. n /\ Head(wire) = wire[1]
      /\ Head(wire) \in Written /\ 1 \in DOMAIN wire
  BY <1>1
<1>3. wire' \in Seq(Written) /\ Len(wire') = n - 1 /\ \A i \in 1 .. n - 1 : wire'[i] = wire[i + 1]
  BY <1>1
<1>4. DOMAIN wire' = 1 .. n - 1 /\ (Len(wire') = 0 => wire' = <<>>)
  <2> HIDE DEF n
  <2> QED BY <1>3
<1>5. \A i \in 1 .. n : /\ wire[i].of = peer /\ wire[i].name \in NamesOf(peer)
                        /\ wire[i].name \in Turning => i = n
  BY <1>2, Zenon DEF WireAgrees
<1> HIDE DEF n
<1>a. wire[1].of = peer /\ wire[1].name \in NamesOf(peer) /\ (wire[1].name \in Turning => 1 = n)
  <2>1. 1 \in 1 .. n BY <1>2
  <2> QED BY <1>5, <2>1, Zenon
<1>6. wire[1].name \in Turning => wire' = <<>>
  <2>1. wire[1].name \in Turning => n = 1 BY <1>a, Zenon
  <2>2. n = 1 => Len(wire') = 0 BY <1>3
  <2> QED BY <1>4, <2>1, <2>2
<1>7. ASSUME peer' = peer PROVE WireAgrees'
  <2>1. ASSUME NEW i \in 1 .. n - 1
        PROVE  /\ wire'[i].of = peer /\ wire'[i].name \in NamesOf(peer)
               /\ wire'[i].name \in Turning => i = n - 1
    <3>1. i + 1 \in 1 .. n /\ (i + 1 = n => i = n - 1) BY <1>2
    <3>2. wire'[i] = wire[i + 1] BY <1>3
    <3>3. /\ wire[i + 1].of = peer /\ wire[i + 1].name \in NamesOf(peer)
          /\ wire[i + 1].name \in Turning => i + 1 = n
      BY <1>5, <3>1, Zenon
    <3> QED BY <3>1, <3>2, <3>3, Zenon
  <2> QED BY <1>3, <1>4, <1>7, <2>1 DEF WireAgrees
<1> QED BY <1>2, <1>a, <1>6, <1>7, Zenon
-----------------------------------------------------------------------------
\* Short sequences.
LEMMA TwoInOrder ==
    ASSUME NEW T, NEW a \in T, NEW b \in T
    PROVE  <<a>> \o <<b>> = <<a, b>>
<1> DEFINE s == <<a>> \o <<b>>
           t == <<a, b>>
<1>1. s \in Seq(T) /\ Len(s) = 2 /\ s[1] = a /\ s[2] = b OBVIOUS
<1>2. t \in Seq(T) /\ Len(t) = 2 /\ t[1] = a /\ t[2] = b OBVIOUS
<1> HIDE DEF s, t
<1>3. \A i \in 1 .. 2 : i = 1 \/ i = 2 OBVIOUS
<1>4. \A i \in 1 .. Len(s) : s[i] = t[i] BY <1>1, <1>2, <1>3
<1>5. s = t BY <1>1, <1>2, <1>4
<1> QED BY <1>5 DEF s, t

\* Three packets, written one after the other.
LEMMA ThreeInOrder ==
    ASSUME NEW T, NEW a \in T, NEW b \in T, NEW c \in T
    PROVE  <<a, b>> \o <<c>> = <<a, b, c>>
<1> DEFINE s == <<a, b>> \o <<c>>
           t == <<a, b, c>>
<1>1. s \in Seq(T) /\ Len(s) = 3 /\ s[1] = a /\ s[2] = b /\ s[3] = c OBVIOUS
<1>2. t \in Seq(T) /\ Len(t) = 3 /\ t[1] = a /\ t[2] = b /\ t[3] = c OBVIOUS
<1> HIDE DEF s, t
<1>3. \A i \in 1 .. 3 : i = 1 \/ i = 2 \/ i = 3 OBVIOUS
<1>4. \A i \in 1 .. Len(s) : s[i] = t[i] BY <1>1, <1>2, <1>3
<1>5. s = t BY <1>1, <1>2, <1>4
<1> QED BY <1>5 DEF s, t

\* The packets that end the configuration, one after the other.
LEMMA ClosingOrder ==
    /\ Head(Closing).name = "registry" /\ Head(Tail(Closing)).name = "tags"
    /\ Head(Tail(Tail(Closing))).name = "finish" /\ Tail(Tail(Tail(Closing))) = <<>>
<1> DEFINE a == Packet("configuration", "registry", 0)
           b == Packet("configuration", "tags", 0)
           c == Packet("configuration", "finish", 0)
<1>1. a.name = "registry" /\ b.name = "tags" /\ c.name = "finish" BY DEF Packet
<1>2. Closing = <<a, b, c>> BY DEF Closing
<1> HIDE DEF a, b, c
<1>3. /\ Head(<<a, b, c>>) = a /\ Head(Tail(<<a, b, c>>)) = b /\ Head(Tail(Tail(<<a, b, c>>))) = c
      /\ Tail(Tail(Tail(<<a, b, c>>))) = <<>>
  OBVIOUS
<1> QED BY <1>1, <1>2, <1>3

-----------------------------------------------------------------------------
\* The steps that only move the tick, the clock or the queue.
LEMMA AgreeQuiet ==
    ASSUME AnswerInv, AgreeInv, TurnBegins \/ ClockTicks \/ Drain
    PROVE  AgreeInv'
<1>1. UNCHANGED <<state, told, closed, wire, peer>>
  BY DEF TurnBegins, ClockTicks, Drain, connection
<1>2. CASE TurnBegins \/ ClockTicks
  <2>1. UNCHANGED <<batch, tasks>> BY <1>2 DEF TurnBegins, ClockTicks
  <2>2. Underhand' = Underhand BY <2>1 DEF Underhand
  <2> QED BY <1>1, <2>2, AgreeFrame
<1>3. CASE Drain BY <1>1, <1>3, UnderhandDrained, AgreeFrame
<1> QED BY <1>2, <1>3

\* In the game the client is in the game too, and nothing is said of its told.
LEMMA PlayIsPlay ==
    ASSUME AgreeInv, closed = "no", state = "play", peer # "gone"
    PROVE  peer = "play" /\ \A i \in DOMAIN Underhand : Underhand[i].name \in PlayName
BY DEF AgreeInv, Stage, StatusStage, LoginStage, ConfigurationStage, PlayStage, States

\* News for everyone who plays.
LEMMA AgreeBroadcast ==
    ASSUME AnswerInv, AgreeInv, Broadcast
    PROVE  AgreeInv'
<1>1. /\ closed = "no" /\ state = "play" /\ Write(<<Packet("play", "news", 0)>>)
      /\ UNCHANGED <<state, told, closed, batch, tasks, peer>>
  BY DEF Broadcast
<1>2. CASE peer = "gone" BY <1>1, <1>2 DEF AgreeInv
<1>3. CASE peer # "gone"
  <2>1. peer = "play" /\ \A i \in DOMAIN Underhand : Underhand[i].name \in PlayName
    BY <1>1, <1>3, PlayIsPlay
  <2>2. /\ Packet("play", "news", 0) \in Written /\ Packet("play", "news", 0).of = peer
        /\ Packet("play", "news", 0).name \in NamesOf(peer)
    BY <2>1 DEF Packet, Written, WrittenName, States, NamesOf
  <2>3. WireAgrees' BY <1>1, <1>3, <2>1, <2>2, WriteAgrees DEF AgreeInv, AnswerInv, States
  <2>4. Underhand' = Underhand BY <1>1 DEF Underhand
  <2>5. Stage' BY <1>1, <2>1, <2>4 DEF Stage, PlayStage
  <2> QED BY <1>1, <2>3, <2>5 DEF AgreeInv
<1> QED BY <1>2, <1>3

\* A turn ends with a keepalive, a disconnect, or nothing.
LEMMA AgreeTurnEnds ==
    ASSUME AnswerInv, AgreeInv, TurnEnds
    PROVE  AgreeInv'
<1>1. UNCHANGED <<state, told, tasks, batch, peer>> BY DEF TurnEnds
<1>2. Underhand' = Underhand BY <1>1 DEF Underhand
<1>3. CASE UNCHANGED <<closed, wire>> BY <1>1, <1>2, <1>3, AgreeFrame
<1>4. ASSUME state = "play", closed = "no", peer # "gone", NEW n \in {"disconnect", "alive"}, NEW id \in Int,
             Write(<<Packet("play", n, id)>>)
      PROVE  AgreeInv'
  <2>1. peer = "play" /\ \A i \in DOMAIN Underhand : Underhand[i].name \in PlayName
    BY <1>4, PlayIsPlay
  <2>2. /\ Packet("play", n, id) \in Written /\ Packet("play", n, id).of = peer
        /\ Packet("play", n, id).name \in NamesOf(peer)
    BY <2>1 DEF Packet, Written, WrittenName, States, NamesOf
  <2>3. WireAgrees' BY <1>1, <1>4, <2>1, <2>2, WriteAgrees DEF AgreeInv, AnswerInv, States
  <2>4. Stage' BY <1>1, <1>2, <1>4, <2>1 DEF Stage, PlayStage
  <2> QED BY <1>1, <2>3, <2>4 DEF AgreeInv
<1>5. CASE peer = "gone" BY <1>1, <1>5 DEF AgreeInv
<1>6. CASE state = "play" /\ closed = "no" /\ KeepaliveTick(turn.now) /\ peer # "gone"
  <2>1. turn.now \in Int BY DEF AnswerInv, SessionShape, TurnType
  <2>2. \/ Write(<<Packet("play", "disconnect", 0)>>)
        \/ Write(<<Packet("play", "alive", turn.now)>>)
        \/ UNCHANGED <<closed, wire>>
    BY <1>6 DEF KeepaliveTick
  <2> QED BY <1>3, <1>4, <1>6, <2>1, <2>2
<1> QED BY <1>3, <1>5, <1>6 DEF TurnEnds

\* What the client says unasked.
LEMMA AgreeSpeak ==
    ASSUME AnswerInv, AgreeInv, NEW name \in {"status", "login", "request", "ping", "fall", "respawn"},
           Speak(name)
    PROVE  AgreeInv'
<1>1. UNCHANGED <<state, told, closed, wire, batch>> /\ SessionShape
  BY DEF Speak, connection, AnswerInv
<1>2. CASE peer = "handshaking"
  <2>1. /\ peer' = name /\ name \in {"status", "login"}
        /\ Queue(<<Asks(name)>> \o IF name = "login" THEN <<Says("hello")>> ELSE <<>>)
    BY <1>2 DEF Speak, Asks
  <2>2. WireAgrees' 
    <3>1. DOMAIN wire = {} BY <1>2 DEF AgreeInv, WireAgrees, NamesOf
    <3> QED BY <1>1, <3>1 DEF WireAgrees
  <2>3. ASSUME closed = "no" PROVE Stage'
    <3>1. state = "handshaking" /\ told = {} /\ Underhand = <<>> /\ wire = <<>>
      BY <1>2, <2>3 DEF AgreeInv, Stage
    <3>2. Asks(name) \in Sent /\ Says("hello") \in Sent BY <2>1 DEF Asks, Says, Sent, Name
    <3>3. CASE name = "status"
      <4>1. Queue(<<Asks(name)>>)
        <5>1. <<Asks(name)>> \o <<>> = <<Asks(name)>> OBVIOUS
        <5> QED BY <2>1, <3>3, <5>1
      <4>2. <<Asks(name)>> \in Seq(Sent) BY <3>2
      <4>3. Underhand' = Underhand \o <<Asks(name)>> BY <1>1, <4>1, <4>2, UnderhandQueued
      <4>4. <<>> \o <<Asks(name)>> = <<Asks(name)>> OBVIOUS
      <4>5. Underhand' = <<Asks("status")>> BY <3>1, <3>3, <4>3, <4>4
      <4> HIDE DEF Asks
      <4>6. /\ Underhand' # <<>> /\ Underhand'[1] = Asks("status")
            /\ \A i \in DOMAIN Underhand' : i = 1
        BY <4>5
      <4> QED BY <1>1, <2>1, <3>1, <3>3, <4>6 DEF Stage, StatusStage
    <3>4. CASE name = "login"
      <4> DEFINE both == <<Asks("login"), Says("hello")>>
      <4>1. both \in Seq(Sent) BY <3>2, <3>4
      <4>2. Queue(both)
        <5>1. \A a, b \in Sent : <<a>> \o <<b>> = <<a, b>> BY TwoInOrder
        <5>2. <<Asks("login")>> \o <<Says("hello")>> = both BY <3>2, <3>4, <5>1
        <5> QED BY <2>1, <3>4, <5>2
      <4>3. Underhand' = Underhand \o both BY <1>1, <4>1, <4>2, UnderhandQueued
      <4>4. <<>> \o both = both OBVIOUS
      <4>5. Underhand' = both BY <3>1, <4>3, <4>4
      <4> QED BY <1>1, <2>1, <3>1, <3>4, <4>5 DEF Stage, LoginStage
    <3> QED BY <2>1, <3>3, <3>4
  <2> QED BY <1>1, <2>1, <2>2, <2>3 DEF AgreeInv, States
<1>3. CASE peer = "status" \/ peer = "play"
  <2>1. /\ peer' = peer /\ Queue(<<Says(name)>>)
        /\ peer = "status" => name \in {"request", "ping"}
        /\ peer = "play" => name \in {"fall", "respawn"}
    BY <1>3 DEF Speak
  <2>2. Says(name) \in Sent /\ Says(name).name = name BY <1>3, <2>1 DEF Says, Sent, Name
  <2>3. <<Says(name)>> \in Seq(Sent) BY <2>2
  <2>4. Underhand' = Underhand \o <<Says(name)>> BY <1>1, <2>1, <2>3, UnderhandQueued
  <2>5. Underhand \in Seq(Sent) BY <1>1, UnderhandType
  <2>6. WireAgrees' BY <1>1, <1>3, <2>1 DEF AgreeInv, WireAgrees
  <2>7. ASSUME closed = "no", peer = "status" PROVE StatusStage'
    <3>1. StatusStage BY <2>7 DEF AgreeInv, Stage
    <3>2. Says(name).name \in {"request", "ping"} BY <2>1, <2>2, <2>7
    <3>3. CASE state = "handshaking" /\ Underhand # <<>>
               /\ \A i \in DOMAIN Underhand : i # 1 => Underhand[i].name \in {"request", "ping"}
      BY <1>1, <2>2, <2>4, <2>5, <3>1, <3>2, <3>3, RestQueued DEF StatusStage
    <3>4. CASE state = "status" /\ \A i \in DOMAIN Underhand : Underhand[i].name \in {"request", "ping"}
      BY <1>1, <2>2, <2>4, <2>5, <3>1, <3>2, <3>4, NamesQueued DEF StatusStage
    <3> QED BY <3>1, <3>3, <3>4 DEF StatusStage
  <2>8. ASSUME closed = "no", peer = "play" PROVE PlayStage'
    <3>1. PlayStage BY <2>8 DEF AgreeInv, Stage
    <3>2. Says(name).name \in PlayName BY <2>1, <2>2, <2>8 DEF PlayName
    <3>3. CASE state = "configuration" /\ Underhand # <<>>
               /\ \A i \in DOMAIN Underhand : i # 1 => Underhand[i].name \in PlayName
      BY <1>1, <2>2, <2>4, <2>5, <3>1, <3>2, <3>3, RestQueued DEF PlayStage
    <3>4. CASE state = "play" /\ \A i \in DOMAIN Underhand : Underhand[i].name \in PlayName
      BY <1>1, <2>2, <2>4, <2>5, <3>2, <3>4, NamesQueued DEF PlayStage
    <3> QED BY <3>1, <3>3, <3>4 DEF PlayStage
  <2> QED BY <1>1, <1>3, <2>1, <2>6, <2>7, <2>8 DEF AgreeInv, Stage
<1> QED BY <1>2, <1>3 DEF Speak

\* What it says out of turn ends the agreement.
LEMMA AgreeBabble ==
    ASSUME NEW name, Babble(name)
    PROVE  AgreeInv'
BY DEF Babble, AgreeInv

\* What it reads, and answers.
LEMMA AgreeHear ==
    ASSUME AnswerInv, AgreeInv, NEW hangs \in BOOLEAN, Hear(hangs)
    PROVE  AgreeInv'
<1> DEFINE p == Head(wire)
<1>1. /\ wire # <<>> /\ wire' = Tail(wire) /\ peer # "gone" /\ peer' = Becomes(p)
      /\ Queue(IF hangs THEN <<>> ELSE Answer(p)) /\ (hangs => p.name = "alive")
      /\ UNCHANGED <<state, told, closed, batch>>
  BY DEF Hear
<1>2. SessionShape /\ clock \in Int /\ WireAgrees /\ peer \in States BY <1>1 DEF AnswerInv, SessionShape, AgreeInv
<1>3. /\ p \in Written /\ p.of = peer /\ p.name \in NamesOf(peer)
      /\ p.name \in Turning => wire' = <<>>
      /\ peer' = peer => WireAgrees'
  BY <1>1, <1>2, WireHeard
<1>4. wire \in Seq(Written) BY <1>2 DEF SessionShape
<1> HIDE DEF p
<1>5. peer' = "gone" \/ WireAgrees'
  <2>1. CASE p.name \in Turning BY <1>3, <2>1 DEF WireAgrees
  <2>2. CASE p.name \notin Turning
    <3>1. peer' \in {peer, "gone"} BY <1>1, <2>2 DEF Becomes, Turning
    <3> QED BY <1>3, <3>1
  <2> QED BY <2>1, <2>2
<1>6. peer' \in States \cup {"gone"} BY <1>1, <1>2 DEF Becomes, States
<1> DEFINE says == IF hangs THEN <<>> ELSE Answer(p)
<1>7. says \in Seq(Sent)
  <2>1. <<>> \in Seq(Sent) OBVIOUS
  <2> QED BY <1>2, <1>3, <2>1, AnswerIsTyped
<1>8. Underhand' = Underhand \o says BY <1>1, <1>2, <1>7, UnderhandQueued
<1>9. Underhand \in Seq(Sent) BY <1>2, UnderhandType
<1> HIDE DEF says
<1>10. ASSUME closed = "no", peer' # "gone" PROVE Stage'
  <2>0. Stage BY <1>1, <1>10 DEF AgreeInv
  <2>1. CASE peer = "handshaking" BY <1>3, <2>1 DEF NamesOf
  <2>2. CASE peer = "status"
    <3>1. p.name = "response" BY <1>1, <1>3, <1>10, <2>2 DEF NamesOf, Becomes
    <3>2. peer' = "status" /\ says = <<>> BY <1>1, <2>2, <3>1 DEF Becomes, Answer, says
    <3>3. Underhand' = Underhand BY <1>8, <1>9, <3>2
    <3> QED BY <1>1, <2>0, <2>2, <3>2, <3>3 DEF Stage, StatusStage
  <2>3. CASE peer = "login"
    <3>1. p.name = "finished" BY <1>3, <2>3 DEF NamesOf
    <3>2. wire' = <<>> /\ peer' = "configuration" /\ says = <<Says("acknowledged")>>
      BY <1>1, <1>3, <3>1 DEF Becomes, Answer, says, Turning
    <3>3. state = "login" /\ told = {"finished"} /\ Underhand = <<>>
      BY <1>1, <2>0, <2>3 DEF Stage, LoginStage
    <3>4. \A a \in Seq(Sent) : <<>> \o a = a OBVIOUS
    <3>5. Underhand' = <<Says("acknowledged")>> BY <1>7, <1>8, <3>2, <3>3, <3>4
    <3> QED BY <1>1, <3>2, <3>3, <3>5 DEF Stage, ConfigurationStage
  <2>4. CASE peer = "configuration"
    <3>0. ConfigurationStage BY <2>0, <2>4 DEF Stage
    <3>1. p.name \in {"packs", "registry", "tags", "finish"}
      BY <1>1, <1>3, <1>10, <2>4 DEF NamesOf, Becomes
    <3>2. \A a \in Seq(Sent) : <<>> \o a = a OBVIOUS
    <3>3. CASE told = {"finished", "packs"} /\ Underhand = <<>> /\ wire = <<Packet("configuration", "packs", 0)>>
               /\ state = "configuration"
      <4>1. p.name = "packs" /\ wire' = <<>> BY <1>1, <3>3 DEF p, Packet
      <4>2. peer' = peer /\ says = <<Says("packs")>> BY <1>1, <4>1 DEF Becomes, Answer, says
      <4>3. Underhand' = <<Says("packs")>> BY <1>7, <1>8, <3>2, <3>3, <4>2
      <4> QED BY <1>1, <2>4, <3>3, <4>1, <4>2, <4>3 DEF Stage, ConfigurationStage
    <3>4. CASE /\ state = "configuration" /\ told = {"finished", "packs", "finish"} /\ Underhand = <<>>
               /\ wire \in {Closing, Tail(Closing)}
      <4>1. /\ p.name \in {"registry", "tags"} /\ wire' \in {Tail(Closing), Tail(Tail(Closing))}
        <5>1. /\ Head(Closing).name = "registry" /\ Head(Tail(Closing)).name = "tags"
          BY ClosingOrder
        <5> QED BY <1>1, <3>4, <5>1 DEF p
      <4>2. peer' = peer /\ says = <<>> BY <1>1, <4>1 DEF Becomes, Answer, says
      <4>3. Underhand' = <<>> BY <1>7, <1>8, <3>2, <3>4, <4>2
      <4> QED BY <1>1, <2>4, <3>4, <4>1, <4>2, <4>3 DEF Stage, ConfigurationStage
    <3>5. CASE /\ state = "configuration" /\ told = {"finished", "packs", "finish"} /\ Underhand = <<>>
               /\ wire = Tail(Tail(Closing))
      <4>1. p.name = "finish" /\ wire' = <<>> BY <1>1, <3>5, ClosingOrder DEF p
      <4>2. peer' = "play" /\ says = <<Says("finish")>> BY <1>1, <4>1 DEF Becomes, Answer, says
      <4>3. Underhand' = <<Says("finish")>> BY <1>7, <1>8, <3>2, <3>5, <4>2
      <4>4. Underhand' # <<>> /\ Underhand'[1] = Says("finish") /\ \A i \in DOMAIN Underhand' : i = 1
        BY <4>3
      <4> QED BY <1>1, <3>5, <4>1, <4>2, <4>4 DEF Stage, PlayStage
    <3> QED BY <1>1, <3>0, <3>3, <3>4, <3>5 DEF ConfigurationStage
  <2>5. CASE peer = "play"
    <3>1. state = "play" /\ \A i \in DOMAIN Underhand : Underhand[i].name \in PlayName
      BY <1>1, <2>0, <2>5 DEF Stage, PlayStage
    <3>2. p.name \in {"initial", "alive", "respawn", "death", "news"}
      BY <1>1, <1>3, <1>10, <2>5 DEF NamesOf, Becomes
    <3>3. peer' = "play" BY <1>1, <2>5, <3>2 DEF Becomes
    <3>4. \A i \in DOMAIN Underhand' : Underhand'[i].name \in PlayName
      <4>1. CASE says = <<>>
        <5>1. \A a \in Seq(Sent) : a \o <<>> = a OBVIOUS
        <5> QED BY <1>8, <1>9, <3>1, <4>1, <5>1
      <4>2. ASSUME NEW e \in Sent, says = <<e>>, e.name \in PlayName
            PROVE  \A i \in DOMAIN Underhand' : Underhand'[i].name \in PlayName
        BY <1>8, <1>9, <3>1, <4>2, NamesQueued
      <4>3. CASE says # <<>>
        <5>1. p.name \in {"initial", "alive"} /\ ~hangs BY <3>2, <4>3 DEF says, Answer
        <5>2. /\ Says("confirm") \in Sent /\ Says("confirm").name \in PlayName
              /\ [name |-> "alive", id |-> p.id, at |-> clock] \in Sent
              /\ [name |-> "alive", id |-> p.id, at |-> clock].name \in PlayName
          <6>1. p.id \in Int BY <1>3 DEF Written
          <6> QED BY <1>2, <6>1 DEF Says, Sent, Name, PlayName
        <5>3. says \in {<<Says("confirm")>>, <<[name |-> "alive", id |-> p.id, at |-> clock]>>}
          BY <5>1 DEF says, Answer
        <5> QED BY <4>2, <5>2, <5>3
      <4> QED BY <4>1, <4>3
    <3> QED BY <1>1, <3>1, <3>3, <3>4 DEF Stage, PlayStage
  <2> QED BY <1>1, <1>2, <2>1, <2>2, <2>3, <2>4, <2>5 DEF States
<1> QED BY <1>1, <1>5, <1>6, <1>10 DEF AgreeInv

\* One packet is handled.
LEMMA AgreeProcessTask ==
    ASSUME AnswerInv, AgreeInv, ProcessTask
    PROVE  AgreeInv'
<1> DEFINE p == Head(batch)
<1>1. /\ batch # <<>> /\ batch' = Tail(batch) /\ UNCHANGED <<tasks, peer>>
      /\ IF closed # "no" THEN Ignored
         ELSE \/ state = "handshaking" /\ Handshake(p)
              \/ state = "status" /\ Status(p)
              \/ state = "login" /\ Login(p)
              \/ state = "configuration" /\ Configuration(p)
              \/ state = "play" /\ Play(p)
  BY DEF ProcessTask
<1>2. SessionShape /\ wire \in Seq(Written) BY DEF AnswerInv, SessionShape
<1>3. /\ Underhand # <<>> /\ p = Underhand[1] /\ Underhand' = Tail(Underhand) /\ p \in Sent
  BY <1>1, <1>2, UnderhandHandled
<1>4. Underhand \in Seq(Sent) BY <1>2, UnderhandType
<1> HIDE DEF p
<1>5. CASE peer = "gone" BY <1>1, <1>5 DEF AgreeInv
<1>6. CASE closed # "no" BY <1>1, <1>6 DEF Ignored, AgreeInv, WireAgrees
<1>7. ASSUME closed = "no", peer # "gone" PROVE WireAgrees' /\ (closed' = "no" => Stage')
  <2>1. WireAgrees /\ Stage /\ peer \in States BY <1>7 DEF AgreeInv
  <2>2. ASSUME NEW n \in NamesOf(peer), n \in WrittenName, Write(<<Packet(peer, n, 0)>>),
               wire = <<>> \/ peer \in {"status", "play"}
        PROVE  WireAgrees' /\ (wire = <<>> => wire' = <<Packet(peer, n, 0)>>)
    <3>1. Packet(peer, n, 0) \in Written /\ Packet(peer, n, 0).of = peer /\ Packet(peer, n, 0).name = n
      BY <2>1, <2>2 DEF Packet, Written
    <3>2. WireAgrees' BY <1>1, <1>2, <2>1, <2>2, <3>1, WriteAgrees
    <3>3. <<Packet(peer, n, 0)>> \in Seq(Written) BY <3>1
    <3>4. \A a \in Seq(Written) : <<>> \o a = a OBVIOUS
    <3> QED BY <2>2, <3>2, <3>3, <3>4 DEF Write
  <2>3. UNCHANGED wire => WireAgrees' BY <1>1, <2>1 DEF WireAgrees
  <2>4. ASSUME NEW e, Underhand = <<e>> PROVE Underhand' = <<>> /\ p = e
    BY <1>3, <2>4
  <2>5. CASE peer = "handshaking" BY <1>3, <2>1, <2>5 DEF Stage
  <2>6. CASE peer = "status"
    <3>0. StatusStage BY <2>1, <2>6 DEF Stage
    <3>1. CASE /\ state = "handshaking" /\ p = Asks("status")
               /\ \A i \in DOMAIN Underhand : i # 1 => Underhand[i].name \in {"request", "ping"}
      <4>1. state' = "status" /\ UNCHANGED <<told, wire>>
        BY <1>1, <1>7, <3>1 DEF Handshake, Asks
      <4>2. \A i \in DOMAIN Underhand' : Underhand'[i].name \in {"request", "ping"}
        BY <1>3, <1>4, <3>1, NamesHandled
      <4> QED BY <1>1, <2>3, <2>6, <3>0, <4>1, <4>2 DEF Stage, StatusStage
    <3>2. CASE state = "status" /\ \A i \in DOMAIN Underhand : Underhand[i].name \in {"request", "ping"}
      <4>1. \A i \in DOMAIN Underhand' : Underhand'[i].name \in {"request", "ping"}
        BY <1>3, <1>4, <3>2, NamesHandled
      <4>2. p.name \in {"request", "ping"} BY <1>3, <1>4, <3>2
      <4>3. /\ UNCHANGED <<state, told>>
            /\ \/ Write(<<Packet(peer, "response", 0)>>)
               \/ Write(<<Packet(peer, "pong", 0)>>)
        BY <1>1, <1>7, <2>6, <3>2, <4>2 DEF Status
      <4>4. WireAgrees' BY <2>2, <2>6, <4>3 DEF NamesOf, WrittenName
      <4> QED BY <1>1, <2>6, <3>0, <3>2, <4>1, <4>3, <4>4 DEF Stage, StatusStage
    <3> QED BY <1>3, <3>0, <3>1, <3>2 DEF StatusStage
  <2>7. CASE peer = "login"
    <3>0. LoginStage BY <2>1, <2>7 DEF Stage
    <3>1. CASE state = "handshaking" /\ told = {} /\ Underhand = <<Asks("login"), Says("hello")>> /\ wire = <<>>
      <4>1. p = Asks("login") /\ Underhand' = <<Says("hello")>>
        <5>1. \A a, b : <<a, b>>[1] = a /\ Tail(<<a, b>>) = <<b>> OBVIOUS
        <5> QED BY <1>3, <3>1, <5>1
      <4>2. state' = "login" /\ UNCHANGED <<told, wire>>
        BY <1>1, <1>7, <3>1, <4>1 DEF Handshake, Asks
      <4> QED BY <1>1, <2>3, <2>7, <3>1, <4>1, <4>2 DEF Stage, LoginStage
    <3>2. CASE state = "login" /\ told = {} /\ Underhand = <<Says("hello")>> /\ wire = <<>>
      <4>1. p.name = "hello" /\ Underhand' = <<>> BY <2>4, <3>2 DEF Says
      <4>2. /\ UNCHANGED state /\ told' = {"finished"} /\ Write(<<Packet(peer, "finished", 0)>>)
        BY <1>1, <1>7, <2>7, <3>2, <4>1 DEF Login, Ignored
      <4>3. WireAgrees' /\ wire' = <<Packet("login", "finished", 0)>>
        BY <2>2, <2>7, <3>2, <4>2 DEF NamesOf, WrittenName
      <4> QED BY <1>1, <2>7, <3>2, <4>1, <4>2, <4>3 DEF Stage, LoginStage
    <3> QED BY <1>3, <3>0, <3>1, <3>2 DEF LoginStage
  <2>8. CASE peer = "configuration"
    <3>0. ConfigurationStage BY <2>1, <2>8 DEF Stage
    <3>1. CASE state = "login" /\ told = {"finished"} /\ Underhand = <<Says("acknowledged")>> /\ wire = <<>>
      <4>1. p.name = "acknowledged" /\ Underhand' = <<>> BY <2>4, <3>1 DEF Says
      <4>2. state' = "configuration" /\ told' = {"finished", "packs"} /\ Write(<<Packet(peer, "packs", 0)>>)
        BY <1>1, <1>7, <2>8, <3>1, <4>1 DEF Login, Ignored
      <4>3. WireAgrees' /\ wire' = <<Packet("configuration", "packs", 0)>>
        BY <2>2, <2>8, <3>1, <4>2 DEF NamesOf, WrittenName
      <4> QED BY <1>1, <2>8, <4>1, <4>2, <4>3 DEF Stage, ConfigurationStage
    <3>2. CASE state = "configuration" /\ told = {"finished", "packs"} /\ Underhand = <<Says("packs")>> /\ wire = <<>>
      <4>1. p.name = "packs" /\ Underhand' = <<>> BY <2>4, <3>2 DEF Says
      <4>2. CASE /\ told' = told \cup {"finish"} /\ UNCHANGED state
                 /\ Write(<<Packet("configuration", "registry", 0), Packet("configuration", "tags", 0)>>
                          \o <<Packet("configuration", "finish", 0)>>)
        <5>1. /\ Packet("configuration", "registry", 0) \in Written
              /\ Packet("configuration", "tags", 0) \in Written
              /\ Packet("configuration", "finish", 0) \in Written
          BY DEF Packet, Written, WrittenName, States
        <5>2. Closing \in Seq(Written) BY <5>1 DEF Closing
        <5>3. \A a \in Seq(Written) : <<>> \o a = a OBVIOUS
        <5>4. wire' = Closing BY <3>2, <4>2, <5>1, <5>2, <5>3, ThreeInOrder DEF Write, Closing
        <5>5. told' = {"finished", "packs", "finish"} BY <3>2, <4>2
        <5>6. WireAgrees'
          <6>1. /\ DOMAIN Closing = 1 .. 3 /\ Len(Closing) = 3
                /\ \A i \in 1 .. 3 : Closing[i].of = "configuration"
                /\ Closing[1].name = "registry" /\ Closing[2].name = "tags" /\ Closing[3].name = "finish"
            BY DEF Closing, Packet
          <6>2. \A i \in 1 .. 3 : i = 1 \/ i = 2 \/ i = 3 OBVIOUS
          <6>3. \A i \in 1 .. 3 : Closing[i].name \in NamesOf("configuration") BY <6>1, <6>2 DEF NamesOf
          <6>4. \A i \in 1 .. 3 : Closing[i].name \in Turning => i = 3 BY <6>1, <6>2 DEF Turning
          <6> QED BY <1>1, <2>8, <5>4, <6>1, <6>3, <6>4 DEF WireAgrees
        <5> QED BY <1>1, <2>8, <3>2, <4>1, <4>2, <5>4, <5>5, <5>6 DEF Stage, ConfigurationStage
      <4>3. CASE closed' = "error" /\ Write(<<Packet("configuration", "disconnect", 0)>>)
        BY <2>2, <2>8, <3>2, <4>3 DEF NamesOf, WrittenName
      <4> QED BY <1>1, <1>7, <3>2, <4>1, <4>2, <4>3 DEF Configuration, Ignored
    <3> QED BY <1>3, <3>0, <3>1, <3>2 DEF ConfigurationStage
  <2>9. CASE peer = "play"
    <3>0. PlayStage BY <2>1, <2>9 DEF Stage
    <3>1. CASE /\ state = "configuration" /\ told = {"finished", "packs", "finish"} /\ wire = <<>>
               /\ p = Says("finish")
               /\ \A i \in DOMAIN Underhand : i # 1 => Underhand[i].name \in PlayName
      <4>1. p.name = "finish" BY <3>1 DEF Says
      <4>2. state' = "play" /\ Write(<<Packet(peer, "initial", 0)>>)
        BY <1>1, <1>7, <2>9, <3>1, <4>1 DEF Configuration, Ignored
      <4>3. WireAgrees' BY <2>2, <2>9, <3>1, <4>2 DEF NamesOf, WrittenName
      <4>4. \A i \in DOMAIN Underhand' : Underhand'[i].name \in PlayName
        BY <1>3, <1>4, <3>1, NamesHandled
      <4> QED BY <1>1, <2>9, <4>2, <4>3, <4>4 DEF Stage, PlayStage
    <3>2. CASE state = "play" /\ \A i \in DOMAIN Underhand : Underhand[i].name \in PlayName
      <4>1. \A i \in DOMAIN Underhand' : Underhand'[i].name \in PlayName
        BY <1>3, <1>4, <3>2, NamesHandled
      <4>2. \A a \in Seq(Written) : a \o <<>> = a OBVIOUS
      <4>3. /\ UNCHANGED state
            /\ \/ Write(<<Packet(peer, "respawn", 0)>>)
               \/ Write(<<Packet(peer, "death", 0)>>)
               \/ UNCHANGED wire
        BY <1>1, <1>2, <1>7, <2>9, <3>2, <4>2 DEF Play, Answered, Ignored, Write
      <4>4. WireAgrees' BY <2>2, <2>3, <2>9, <4>3 DEF NamesOf, WrittenName
      <4> QED BY <1>1, <2>9, <3>2, <4>1, <4>3, <4>4 DEF Stage, PlayStage
    <3> QED BY <1>3, <3>0, <3>1, <3>2 DEF PlayStage
  <2> QED BY <1>7, <2>1, <2>5, <2>6, <2>7, <2>8, <2>9 DEF States
<1>8. peer' \in States \cup {"gone"} BY <1>1 DEF AgreeInv
<1> QED BY <1>1, <1>5, <1>6, <1>7, <1>8 DEF AgreeInv

\* Every step keeps the agreement.
LEMMA AgreeStepKeeps ==
    ASSUME AnswerInv, AgreeInv, [SessionNext]_sessionVars
    PROVE  AgreeInv'
<1>1. CASE UNCHANGED sessionVars
  <2>1. UNCHANGED <<state, told, closed, wire, peer, batch, tasks>> BY <1>1 DEF sessionVars
  <2>2. Underhand' = Underhand BY <2>1 DEF Underhand
  <2> QED BY <2>1, <2>2, AgreeFrame
<1> QED BY <1>1, AgreeQuiet, AgreeProcessTask, AgreeBroadcast, AgreeTurnEnds, AgreeSpeak, AgreeBabble,
           AgreeHear DEF SessionNext

\* A vanilla client is never sent a packet of another protocol state than the
\* one it is in (ProtocolAgrees), for every length of the queues: handlers,
\* keepalives and the broadcasts of other players' turns wait for its state.
THEOREM ProtocolAgreesCorrect == SessionSpec => []ProtocolAgrees
<1>1. SessionInit => AnswerInv /\ AgreeInv BY SessionInitHolds, AgreeBegins
<1>2. AnswerInv /\ AgreeInv /\ [SessionNext]_sessionVars => AnswerInv' /\ AgreeInv'
  BY SessionStepKeeps, AgreeStepKeeps
<1>3. AnswerInv /\ AgreeInv => ProtocolAgrees
  <2> SUFFICES ASSUME AnswerInv, AgreeInv, wire # <<>>, peer # "gone" PROVE Head(wire).of = peer
    BY DEF ProtocolAgrees
  <2>1. wire \in Seq(Written) BY DEF AnswerInv, SessionShape
  <2>2. 1 \in DOMAIN wire /\ Head(wire) = wire[1] BY <2>1
  <2> QED BY <2>2 DEF AgreeInv, WireAgrees
<1> QED BY <1>1, <1>2, <1>3, PTL DEF SessionSpec

-----------------------------------------------------------------------------
(***************************************************************************)
(* Falls.  The packets under way tell the client's path without a gap      *)
(* between two teleports; a fall tracked by packets that were not stale    *)
(* began no higher than the client says it fell from.                      *)
(***************************************************************************)

Movement == [kind : {"move"}, placed : BOOLEAN, y : Int, standing : BOOLEAN, apex : Int]
Confirmation == [kind : {"confirm"}]
Underway == Movement \cup Confirmation

FallShape ==
    /\ client \in [y : Int, standing : BOOLEAN, apex : Int]
    /\ toServer \in Seq(Underway) /\ toClient \in Seq(Int)
    /\ y \in Int /\ fallStart \in Int
    /\ onGround \in BOOLEAN /\ tracking \in BOOLEAN /\ vulnerable \in BOOLEAN
    /\ hurt \in [damage : Int, fell : Int, raced : BOOLEAN]

\* Packet b of a client that sent a before it.
Follows(a, b) ==
    \/ b.kind = "confirm"
    \/ a.kind = "confirm" /\ b.placed
    \/ /\ a.kind = "move"
       /\ a.standing \/ b.apex >= a.apex
       /\ b.placed \/ b.y = a.y

\* What the server has not handled yet, up to where the client is.
PathIsWhole ==
    /\ client.apex >= client.y
    /\ \A i \in DOMAIN toServer : toServer[i].kind = "move" => toServer[i].apex >= toServer[i].y
    /\ \A i \in DOMAIN toServer : i # Len(toServer) => Follows(toServer[i], toServer[i + 1])
    /\ toServer # <<>> => \E placed \in BOOLEAN : toServer[Len(toServer)] = Move(client, placed)

\* Where the server has the player when no teleport is under way.
PlaceIsKnown ==
    ~Stale => /\ toServer = <<>> => y = client.y
              /\ toServer # <<>> => toServer[1].placed \/ toServer[1].y = y

TrackIsTrue ==
    tracking /\ ~hurt.raced =>
        /\ ~Stale
        /\ toServer = <<>> => ~client.standing /\ fallStart <= client.apex
        /\ toServer # <<>> => fallStart <= toServer[1].apex

FallInv == FallShape /\ PathIsWhole /\ PlaceIsKnown /\ TrackIsTrue /\ FallEarned
-----------------------------------------------------------------------------
LEMMA HeightIsInt == Height \subseteq Int /\ Ground \subseteq Height /\ Safe \in Int
BY FallingAssumption

LEMMA WholeBlocks ==
    ASSUME NEW a \in Nat, NEW n \in Nat \ {0}
    PROVE  a \div n \in Nat /\ n * (a \div n) <= a
OBVIOUS

\* What a fall of some distance deals: whole blocks beyond the safe distance, or one.
LEMMA FallDamageBounded ==
    ASSUME NEW distance \in Int
    PROVE  /\ FallDamage(distance) \in Nat
           /\ FallDamage(distance) > 0 =>
                 /\ distance > Safe
                 /\ Parts * FallDamage(distance) <= Higher(Parts, distance - Safe)
<1>1. Parts \in Nat \ {0} /\ Safe \in Nat BY FallingAssumption
<1>2. CASE distance <= Safe BY <1>1, <1>2 DEF FallDamage
<1>3. CASE distance > Safe
  <2> DEFINE a == distance - Safe
             b == a \div Parts
  <2>1. a \in Nat BY <1>1, <1>3
  <2>2. FallDamage(distance) = Higher(1, b) BY <1>3 DEF FallDamage
  <2> HIDE DEF a
  <2>3. b \in Nat /\ Parts * b <= a BY <1>1, <2>1, WholeBlocks
  <2> HIDE DEF b
  <2>4. Higher(1, b) \in Nat /\ Parts * Higher(1, b) <= Higher(Parts, a)
    BY <1>1, <2>1, <2>3 DEF Higher
  <2> QED BY <1>3, <2>2, <2>4 DEF a
<1> QED BY <1>1, <1>2, <1>3

LEMMA FallingInitHolds == ASSUME FallingInit PROVE FallInv
<1>1. y \in Int
  <2>1. y \in Ground BY FallingAssumption DEF FallingInit
  <2> QED BY <2>1, HeightIsInt
<1>2. client \in [y : Int, standing : BOOLEAN, apex : Int] /\ client.apex = y /\ client.y = y
  BY <1>1 DEF FallingInit
<1>3. <<>> \in Seq(Underway) /\ <<>> \in Seq(Int) OBVIOUS
<1>4. hurt \in [damage : Int, fell : Int, raced : BOOLEAN] /\ hurt.damage = 0
  BY DEF FallingInit, NoHurt
<1>5. FallShape BY <1>1, <1>2, <1>3, <1>4 DEF FallingInit, FallShape
<1>6. toServer = <<>> /\ DOMAIN toServer = {} /\ ~tracking BY DEF FallingInit
<1>7. PathIsWhole BY <1>1, <1>2, <1>6 DEF PathIsWhole
<1> QED BY <1>2, <1>4, <1>5, <1>6, <1>7 DEF FallInv, PlaceIsKnown, TrackIsTrue, FallEarned

LEMMA MoveIsTyped ==
    ASSUME NEW pos \in [y : Int, standing : BOOLEAN, apex : Int], NEW placed \in BOOLEAN
    PROVE  Move(pos, placed) \in Movement
BY DEF Move, Movement

\* Wherever the client goes, its highest point keeps up with it.
LEMMA GoesUp ==
    ASSUME FallInv, NEW height \in Height, NEW stands \in BOOLEAN
    PROVE  /\ Goes(height, stands) \in [y : Int, standing : BOOLEAN, apex : Int]
           /\ Goes(height, stands).y = height /\ Goes(height, stands).standing = stands
           /\ Goes(height, stands).apex >= height
           /\ client.standing \/ Goes(height, stands).apex >= client.apex
<1>1. height \in Int /\ client.y \in Int /\ client.apex \in Int /\ client.standing \in BOOLEAN
  BY HeightIsInt DEF FallInv, FallShape
<1> QED BY <1>1 DEF Goes, Higher

LEMMA ClientMovesKeeps ==
    ASSUME FallInv, NEW height \in Height, NEW stands \in BOOLEAN, NEW placed \in BOOLEAN,
           ClientMoves(height, stands, placed)
    PROVE  FallInv'
<1> DEFINE m == Move(client', placed)
<1>1. client' = Goes(height, stands) /\ toServer' = Append(toServer, m)
  BY DEF ClientMoves
<1>2. UNCHANGED <<toClient, y, onGround, tracking, fallStart, vulnerable, hurt>>
  BY DEF ClientMoves
<1>3. /\ client' \in [y : Int, standing : BOOLEAN, apex : Int]
      /\ client'.y = height /\ client'.apex >= client'.y
      /\ client.standing \/ client'.apex >= client.apex
  BY <1>1, GoesUp
<1>4. /\ m \in Movement /\ m.kind = "move" /\ m.placed = placed /\ m.y = height
      /\ m.apex = client'.apex /\ m.standing = client'.standing
  BY <1>3, MoveIsTyped DEF Move
<1>5. placed \/ m.y = client.y BY <1>4 DEF ClientMoves
<1> HIDE DEF m
<1>6. toServer \in Seq(Underway) /\ m \in Underway BY <1>4 DEF FallInv, FallShape, Underway
<1>7. /\ toServer' \in Seq(Underway) /\ Len(toServer') = Len(toServer) + 1
      /\ DOMAIN toServer' = 1..(Len(toServer) + 1) /\ DOMAIN toServer = 1..Len(toServer)
      /\ toServer'[Len(toServer) + 1] = m
      /\ \A i \in DOMAIN toServer : toServer'[i] = toServer[i]
      /\ Len(toServer) \in Nat /\ (toServer = <<>> <=> Len(toServer) = 0)
  BY <1>1, <1>6
<1>8. Stale' <=> Stale
  BY <1>2, <1>4, <1>7 DEF Stale
<1>9. FallShape' BY <1>2, <1>3, <1>7 DEF FallInv, FallShape
<1>10. PathIsWhole'
  <2>1. ASSUME NEW i \in DOMAIN toServer', i # Len(toServer')
        PROVE  Follows(toServer'[i], toServer'[i + 1])
    <3>1. i \in DOMAIN toServer BY <1>7, <2>1
    <3>2. CASE i = Len(toServer)
      <4>1. PICK before \in BOOLEAN : toServer[i] = Move(client, before)
        BY <1>7, <3>1, <3>2 DEF FallInv, PathIsWhole
      <4>2. /\ toServer[i].kind = "move" /\ toServer[i].standing = client.standing
            /\ toServer[i].apex = client.apex /\ toServer[i].y = client.y
        BY <4>1 DEF Move
      <4> QED BY <1>3, <1>4, <1>5, <1>7, <3>1, <3>2, <4>2 DEF Follows
    <3>3. CASE i # Len(toServer)
      <4>1. i + 1 \in DOMAIN toServer BY <1>7, <3>1, <3>3
      <4> QED BY <1>7, <3>1, <3>3, <4>1 DEF FallInv, PathIsWhole
    <3> QED BY <3>2, <3>3
  <2>2. ASSUME NEW i \in DOMAIN toServer', toServer'[i].kind = "move"
        PROVE  toServer'[i].apex >= toServer'[i].y
    BY <1>3, <1>4, <1>7, <2>2 DEF FallInv, PathIsWhole
  <2>3. toServer'[Len(toServer')] = Move(client', placed) BY <1>7 DEF m
  <2> QED BY <1>3, <2>1, <2>2, <2>3 DEF PathIsWhole
<1>11. PlaceIsKnown'
  <2>1. toServer' # <<>> BY <1>7
  <2>2. ASSUME ~Stale PROVE toServer'[1].placed \/ toServer'[1].y = y'
    <3>1. CASE toServer = <<>>
      BY <1>2, <1>4, <1>5, <1>7, <2>2, <3>1 DEF FallInv, PlaceIsKnown
    <3>2. CASE toServer # <<>>
      BY <1>2, <1>7, <2>2, <3>2 DEF FallInv, PlaceIsKnown
    <3> QED BY <3>1, <3>2
  <2> QED BY <1>8, <2>1, <2>2 DEF PlaceIsKnown
<1>12. TrackIsTrue'
  <2>1. ASSUME tracking, ~hurt.raced PROVE fallStart <= toServer'[1].apex
    <3>1. CASE toServer = <<>>
      <4>1. fallStart <= client.apex /\ client'.apex >= client.apex
        BY <1>3, <2>1, <3>1 DEF FallInv, TrackIsTrue
      <4>2. fallStart \in Int /\ client.apex \in Int /\ client'.apex \in Int
        BY <1>3 DEF FallInv, FallShape
      <4> QED BY <1>4, <1>7, <3>1, <4>1, <4>2
    <3>2. CASE toServer # <<>>
      BY <1>7, <2>1, <3>2 DEF FallInv, TrackIsTrue
    <3> QED BY <3>1, <3>2
  <2>2. toServer' # <<>> BY <1>7
  <2> QED BY <1>2, <1>8, <2>1, <2>2 DEF FallInv, TrackIsTrue
<1> QED BY <1>2, <1>9, <1>10, <1>11, <1>12 DEF FallInv, FallEarned

LEMMA TeleportKeeps ==
    ASSUME FallInv, NEW height \in Height, Teleport(height) PROVE FallInv'
<1>1. height \in Int BY HeightIsInt
<1>2. toClient' \in Seq(Int) /\ toClient' # <<>> BY <1>1 DEF Teleport, FallInv, FallShape
<1>3. hurt' = NoHurt /\ NoHurt \in [damage : Int, fell : Int, raced : BOOLEAN] /\ NoHurt.damage = 0
  BY DEF Teleport, NoHurt
<1>4. FallShape' BY <1>1, <1>2, <1>3 DEF Teleport, FallInv, FallShape
<1>5. Stale' /\ ~tracking' BY <1>2 DEF Stale, Teleport
<1>6. PathIsWhole' BY DEF Teleport, FallInv, PathIsWhole
<1> QED BY <1>3, <1>4, <1>5, <1>6 DEF FallInv, PlaceIsKnown, TrackIsTrue, FallEarned

LEMMA ChangeVulnerableKeeps == ASSUME FallInv, ChangeVulnerable PROVE FallInv'
BY DEF FallInv, ChangeVulnerable, FallShape, PathIsWhole, PlaceIsKnown, TrackIsTrue, FallEarned, Stale

LEMMA ClientTeleportedKeeps == ASSUME FallInv, ClientTeleported PROVE FallInv'
<1> DEFINE c == [kind |-> "confirm"]
           m == Move(client', TRUE)
<1>1. /\ toClient \in Seq(Int) /\ toClient # <<>>
      /\ Head(toClient) \in Int /\ toClient' \in Seq(Int)
  BY DEF FallInv, FallShape, ClientTeleported
<1>2. /\ client' \in [y : Int, standing : BOOLEAN, apex : Int] /\ client'.apex >= client'.y
  BY <1>1 DEF ClientTeleported
<1>3. /\ m \in Movement /\ m.kind = "move" /\ m.placed /\ m.apex = client'.apex
      /\ m.y = client'.y
  BY <1>2, MoveIsTyped DEF Move
<1>4. c \in Confirmation /\ c.kind = "confirm" BY DEF Confirmation
<1>5. toServer' = toServer \o <<c, m>> BY DEF ClientTeleported
<1>6. UNCHANGED <<y, onGround, tracking, fallStart, vulnerable, hurt>> BY DEF ClientTeleported
<1> DEFINE n == Len(toServer)
<1> HIDE DEF c, m
<1>7. toServer \in Seq(Underway) /\ c \in Underway /\ m \in Underway
  BY <1>3, <1>4 DEF FallInv, FallShape, Underway
<1>8. /\ toServer' \in Seq(Underway) /\ Len(toServer') = n + 2
      /\ DOMAIN toServer' = 1..(n + 2) /\ DOMAIN toServer = 1..n /\ n \in Nat
      /\ toServer'[n + 1] = c /\ toServer'[n + 2] = m
      /\ \A i \in DOMAIN toServer : toServer'[i] = toServer[i]
  BY <1>5, <1>7
<1> HIDE DEF n
<1>9. FallShape' BY <1>1, <1>2, <1>6, <1>8 DEF FallInv, FallShape
<1>10. Stale /\ Stale'
  <2>1. n + 1 \in DOMAIN toServer' /\ toServer'[n + 1].kind = "confirm" BY <1>4, <1>8
  <2>2. Stale' BY <2>1 DEF Stale
  <2>3. Stale BY <1>1 DEF Stale
  <2> QED BY <2>2, <2>3
<1>11. PathIsWhole'
  <2>1. ASSUME NEW i \in DOMAIN toServer', i # Len(toServer')
        PROVE  Follows(toServer'[i], toServer'[i + 1])
    <3>1. CASE i = n + 1 BY <1>3, <1>4, <1>8, <3>1 DEF Follows
    <3>2. CASE i = n BY <1>4, <1>8, <3>2 DEF Follows
    <3>3. CASE i \in 1..n /\ i # n
      <4>1. i + 1 \in DOMAIN toServer BY <1>8, <3>3
      <4> QED BY <1>8, <3>3, <4>1 DEF FallInv, PathIsWhole, n
    <3> QED BY <1>8, <2>1, <3>1, <3>2, <3>3
  <2>2. ASSUME NEW i \in DOMAIN toServer', toServer'[i].kind = "move"
        PROVE  toServer'[i].apex >= toServer'[i].y
    BY <1>2, <1>3, <1>4, <1>8, <2>2 DEF FallInv, PathIsWhole
  <2>3. toServer'[Len(toServer')] = Move(client', TRUE) BY <1>8 DEF m
  <2> QED BY <1>2, <2>1, <2>2, <2>3 DEF PathIsWhole
<1> QED BY <1>6, <1>9, <1>10, <1>11 DEF FallInv, PlaceIsKnown, TrackIsTrue, FallEarned

\* The packets behind the one that is handled.
LEMMA RestIsWhole ==
    ASSUME FallInv, toServer # <<>>, toServer' = Tail(toServer), UNCHANGED client
    PROVE  /\ toServer' \in Seq(Underway) /\ PathIsWhole'
           /\ toServer[1] \in Underway /\ Head(toServer) = toServer[1]
           /\ toServer' # <<>> => Follows(toServer[1], toServer'[1]) /\ toServer'[1] \in Underway
           /\ toServer' = <<>> =>
                  \E placed \in BOOLEAN : toServer[1] = Move(client, placed)
           /\ \A i \in DOMAIN toServer' : i + 1 \in DOMAIN toServer /\ toServer'[i] = toServer[i + 1]
           /\ \A i \in DOMAIN toServer : i = 1 \/ i - 1 \in DOMAIN toServer'
<1> DEFINE n == Len(toServer)
<1>1. toServer \in Seq(Underway) BY DEF FallInv, FallShape
<1>2. /\ n \in Nat /\ n >= 1 /\ DOMAIN toServer = 1..n /\ toServer' \in Seq(Underway)
      /\ Len(toServer') = n - 1 /\ DOMAIN toServer' = 1..(n - 1)
      /\ (toServer' = <<>> <=> n = 1)
      /\ \A i \in 1..(n - 1) : toServer'[i] = toServer[i + 1]
      /\ Head(toServer) = toServer[1] /\ \A i \in 1..n : toServer[i] \in Underway
  <2>1. n \in Nat /\ n >= 1 /\ DOMAIN toServer = 1..n BY <1>1
  <2>2. toServer' \in Seq(Underway) /\ Len(toServer') = n - 1 BY <1>1
  <2>3. DOMAIN toServer' = 1..(n - 1) BY <2>2
  <2>6. Len(toServer') = 0 <=> n = 1 BY <2>1, <2>2
  <2>7. toServer' = <<>> <=> Len(toServer') = 0
    <3> DEFINE t == toServer'
    <3>1. t \in Seq(Underway) BY <2>2
    <3> HIDE DEF t
    <3>2. t = <<>> <=> Len(t) = 0 BY <3>1
    <3> QED BY <3>2 DEF t
  <2>4. \A i \in 1..(n - 1) : toServer'[i] = toServer[i + 1] BY <1>1
  <2>5. Head(toServer) = toServer[1] /\ \A i \in 1..n : toServer[i] \in Underway BY <1>1
  <2> QED BY <2>1, <2>2, <2>3, <2>4, <2>5, <2>6, <2>7
<1> HIDE DEF n
<1>3. \A i \in 1..n : i # n => Follows(toServer[i], toServer[i + 1])
  <2>1. \A i \in DOMAIN toServer : i # Len(toServer) => Follows(toServer[i], toServer[i + 1])
    BY DEF FallInv, PathIsWhole
  <2>2. DOMAIN toServer = 1..n /\ n = Len(toServer) BY <1>2 DEF n
  <2> QED BY <2>1, <2>2, Zenon
<1>4. \E placed \in BOOLEAN : toServer[n] = Move(client, placed)
  BY DEF FallInv, PathIsWhole, n
<1>5. PathIsWhole'
  <2>1. ASSUME NEW i \in DOMAIN toServer', i # Len(toServer')
        PROVE  Follows(toServer'[i], toServer'[i + 1])
    BY <1>2, <1>3, <2>1
  <2>2. ASSUME NEW i \in DOMAIN toServer', toServer'[i].kind = "move"
        PROVE  toServer'[i].apex >= toServer'[i].y
    BY <1>2, <2>2 DEF FallInv, PathIsWhole
  <2>3. toServer' # <<>> => toServer'[Len(toServer')] = toServer[n] BY <1>2
  <2>4. client'.apex >= client'.y BY DEF FallInv, PathIsWhole
  <2> QED BY <1>4, <2>1, <2>2, <2>3, <2>4 DEF PathIsWhole
<1> QED BY <1>2, <1>3, <1>4, <1>5

LEMMA ConfirmKeeps ==
    ASSUME FallInv, toServer # <<>>, toServer' = Tail(toServer), Head(toServer).kind = "confirm",
           UNCHANGED <<y, onGround, tracking, fallStart, hurt, client, toClient, vulnerable>>
    PROVE  FallInv'
<1>1. /\ toServer' \in Seq(Underway) /\ PathIsWhole' /\ toServer[1].kind = "confirm"
      /\ toServer' # <<>> => Follows(toServer[1], toServer'[1])
      /\ toServer' = <<>> => \E placed \in BOOLEAN : toServer[1] = Move(client, placed)
  BY RestIsWhole
<1>2. FallShape' BY <1>1 DEF FallInv, FallShape
<1>3. Stale
  <2>1. 1 \in DOMAIN toServer BY DEF FallInv, FallShape
  <2> QED BY <1>1, <2>1 DEF Stale
<1>4. ~(tracking' /\ ~hurt'.raced) BY <1>3 DEF FallInv, TrackIsTrue
<1>5. toServer' # <<>>
  <2>1. \A placed \in BOOLEAN : Move(client, placed).kind = "move" BY DEF Move
  <2> QED BY <1>1, <2>1
<1>6. PlaceIsKnown'
  <2>1. ASSUME ~Stale' PROVE toServer'[1].placed
    <3>1. 1 \in DOMAIN toServer' BY <1>1, <1>5
    <3>2. toServer'[1].kind # "confirm" BY <2>1, <3>1 DEF Stale
    <3> QED BY <1>1, <1>5, <3>2 DEF Follows
  <2> QED BY <1>5, <2>1 DEF PlaceIsKnown
<1> QED BY <1>1, <1>2, <1>4, <1>6 DEF FallInv, TrackIsTrue, FallEarned

LEMMA MovedKeeps ==
    ASSUME FallInv, toServer # <<>>, toServer' = Tail(toServer), Moved(Head(toServer)),
           UNCHANGED <<client, toClient, vulnerable>>
    PROVE  FallInv'
<1> DEFINE p == toServer[1]
<1>1. /\ toServer' \in Seq(Underway) /\ PathIsWhole' /\ p \in Underway /\ Head(toServer) = p
      /\ toServer' # <<>> => Follows(p, toServer'[1]) /\ toServer'[1] \in Underway
      /\ toServer' = <<>> => \E placed \in BOOLEAN : p = Move(client, placed)
      /\ \A i \in DOMAIN toServer' : i + 1 \in DOMAIN toServer /\ toServer'[i] = toServer[i + 1]
      /\ \A i \in DOMAIN toServer : i = 1 \/ i - 1 \in DOMAIN toServer'
      /\ 1 \in DOMAIN toServer
  <2>1. 1 \in DOMAIN toServer BY DEF FallInv, FallShape
  <2> QED BY <2>1, RestIsWhole
<1> HIDE DEF p
<1>2. p \in Movement /\ p.kind = "move" /\ p.apex >= p.y
  BY <1>1 DEF Moved, Underway, Confirmation, FallInv, PathIsWhole, p
<1>3. /\ p.y \in Int /\ p.apex \in Int /\ p.standing \in BOOLEAN /\ p.placed \in BOOLEAN
      /\ y \in Int /\ fallStart \in Int /\ Safe \in Int /\ hurt.raced \in BOOLEAN
  BY <1>2, HeightIsInt DEF Movement, FallInv, FallShape
<1>4. Moved(p) BY <1>1
<1>5. Stale' <=> Stale
  <2>1. \A i \in DOMAIN toServer : i # 1 => toServer[i] = toServer'[i - 1]
    <3>1. ASSUME NEW i \in DOMAIN toServer, i # 1 PROVE toServer[i] = toServer'[i - 1]
      <4>1. i \in Int BY DEF FallInv, FallShape
      <4>2. i - 1 \in DOMAIN toServer' /\ toServer'[i - 1] = toServer[(i - 1) + 1] BY <1>1, <3>1
      <4> QED BY <4>1, <4>2
    <3> QED BY <3>1
  <2> QED BY <1>1, <1>2, <2>1 DEF Stale, p
<1>6. y' = Taken(p) /\ y' \in Int /\ onGround' = p.standing /\ onGround' \in BOOLEAN
  BY <1>3, <1>4 DEF Moved, Taken
<1>7. ~Stale => y' = p.y BY <1>6 DEF Taken, FallInv, PlaceIsKnown, p
<1>8. PlaceIsKnown'
  <2>1. ASSUME ~Stale, toServer' = <<>> PROVE y' = client'.y
    BY <1>1, <1>7, <2>1 DEF Move
  <2>2. ASSUME ~Stale, toServer' # <<>> PROVE toServer'[1].placed \/ toServer'[1].y = y'
    <3>1. 1 \in DOMAIN toServer' BY <1>1, <2>2
    <3>2. toServer'[1].kind # "confirm" BY <1>5, <2>2, <3>1 DEF Stale
    <3> QED BY <1>1, <1>2, <1>7, <2>2, <3>2 DEF Follows
  <2> QED BY <1>5, <2>1, <2>2 DEF PlaceIsKnown
<1>9. /\ fallStart' \in Int /\ tracking' \in BOOLEAN
      /\ hurt' \in [damage : Int, fell : Int, raced : BOOLEAN] /\ FallEarned'
      /\ tracking' /\ ~hurt'.raced => ~Stale /\ ~p.standing /\ fallStart' <= p.apex
  <2>1. CASE tracking' = FALSE /\ UNCHANGED fallStart
             /\ hurt' = [NoHurt EXCEPT !.raced = Stale]
    <3> DEFINE r == Stale
    <3>1. hurt' = [damage |-> 0, fell |-> 0, raced |-> r] BY <2>1 DEF NoHurt
    <3>2. r \in BOOLEAN BY DEF Stale
    <3> HIDE DEF r
    <3>3. hurt' \in [damage : Int, fell : Int, raced : BOOLEAN] /\ hurt'.damage = 0
      BY <3>1, <3>2
    <3>4. FallEarned' BY <3>3 DEF FallEarned
    <3>5. fallStart' \in Int /\ tracking' = FALSE BY <1>3, <2>1
    <3> QED BY <3>3, <3>4, <3>5
  <2>2. CASE /\ ~p.standing /\ tracking' = TRUE
             /\ fallStart' = IF ~tracking \/ onGround THEN y' ELSE Higher(fallStart, y')
             /\ hurt' = [NoHurt EXCEPT !.raced = hurt.raced \/ Stale]
    <3> DEFINE r == hurt.raced \/ Stale
    <3>1. hurt' = [damage |-> 0, fell |-> 0, raced |-> r] BY <2>2 DEF NoHurt
    <3>2. r \in BOOLEAN /\ (~r => ~hurt.raced /\ ~Stale) BY <1>3 DEF Stale
    <3> HIDE DEF r
    <3>5. hurt' \in [damage : Int, fell : Int, raced : BOOLEAN] /\ hurt'.damage = 0
          /\ hurt'.raced = r
      BY <3>1, <3>2
    <3>6. ~hurt'.raced => ~hurt.raced /\ ~Stale BY <3>2, <3>5
    <3>3. fallStart' \in Int BY <1>3, <1>6, <2>2 DEF Higher
    <3>4. ASSUME ~hurt'.raced PROVE fallStart' <= p.apex
      <4>1. y' = p.y /\ ~hurt.raced BY <1>7, <3>4, <3>6
      <4>2. tracking => fallStart <= p.apex BY <4>1 DEF FallInv, TrackIsTrue, p
      <4> QED BY <1>2, <1>3, <2>2, <4>1, <4>2 DEF Higher
    <3> QED BY <2>2, <3>3, <3>4, <3>5, <3>6 DEF FallEarned
  <2>3. CASE tracking /\ FallTaken(p)
    <3> DEFINE d == FallDamage(fallStart - y')
               f == p.apex - p.y
    <3>0. fallStart - y' \in Int /\ f \in Int BY <1>3, <1>6
    <3>1. hurt' = [damage |-> d, fell |-> p.apex - p.y, raced |-> hurt.raced]
          /\ tracking' = FALSE /\ UNCHANGED fallStart
      BY <2>3 DEF FallTaken
    <3>2. /\ d \in Nat
          /\ d > 0 => /\ fallStart - y' > Safe
                      /\ Parts * d <= Higher(Parts, fallStart - y' - Safe)
      BY <3>0, FallDamageBounded
    <3>3. ASSUME d > 0, ~hurt.raced PROVE f > Safe /\ Parts * d <= Higher(Parts, f - Safe)
      <4>1. ~Stale /\ fallStart <= p.apex BY <2>3, <3>3 DEF FallInv, TrackIsTrue, p
      <4>2. y' = p.y BY <1>7, <4>1
      <4>3. fallStart - y' <= f BY <1>3, <4>1, <4>2
      <4>4. Parts * d <= Higher(Parts, fallStart - y' - Safe) /\ fallStart - y' > Safe
        BY <3>2, <3>3
      <4>5. Parts \in Nat /\ Parts * d \in Int BY <3>2, FallingAssumption
      <4> HIDE DEF d, f
      <4> QED BY <1>3, <3>0, <4>3, <4>4, <4>5 DEF Higher
    <3> HIDE DEF d
    <3>4. /\ hurt' \in [damage : Int, fell : Int, raced : BOOLEAN]
          /\ hurt'.damage = d /\ hurt'.fell = f /\ hurt'.raced = hurt.raced
      BY <1>3, <3>0, <3>1, <3>2
    <3> HIDE DEF f
    <3> QED BY <1>3, <3>1, <3>3, <3>4 DEF FallEarned
  <2> QED BY <1>4, <2>1, <2>2, <2>3 DEF Moved
<1>10. FallShape' BY <1>1, <1>6, <1>9 DEF FallInv, FallShape
<1>11. TrackIsTrue'
  <2>1. ASSUME tracking', ~hurt'.raced, toServer' = <<>>
        PROVE  ~client'.standing /\ fallStart' <= client'.apex
    BY <1>1, <1>9, <2>1 DEF Move
  <2>2. ASSUME tracking', ~hurt'.raced, toServer' # <<>> PROVE fallStart' <= toServer'[1].apex
    <3>1. 1 \in DOMAIN toServer' BY <1>1, <2>2
    <3>2. toServer'[1].kind # "confirm" BY <1>5, <1>9, <2>2, <3>1 DEF Stale
    <3>3. toServer'[1] \in Movement BY <1>1, <2>2, <3>2 DEF Underway, Confirmation
    <3>4. toServer'[1].apex \in Int BY <3>3 DEF Movement
    <3>5. toServer'[1].apex >= p.apex BY <1>1, <1>2, <1>9, <2>2, <3>2 DEF Follows
    <3> QED BY <1>3, <1>9, <2>2, <3>4, <3>5
  <2> QED BY <1>5, <1>9, <2>1, <2>2 DEF TrackIsTrue
<1> QED BY <1>1, <1>8, <1>9, <1>10, <1>11 DEF FallInv

LEMMA FallingStepKeeps == ASSUME FallInv, [FallingNext]_fallingVars PROVE FallInv'
<1>1. CASE ServerMoves BY <1>1, MovedKeeps, ConfirmKeeps DEF ServerMoves
<1>2. CASE UNCHANGED fallingVars
  BY <1>2 DEF fallingVars, FallInv, FallShape, PathIsWhole, PlaceIsKnown, TrackIsTrue,
              FallEarned, Stale
<1> QED BY <1>1, <1>2, ClientMovesKeeps, ClientTeleportedKeeps, TeleportKeeps,
           ChangeVulnerableKeeps DEF FallingNext

\* FallEarned for all heights, in parts of a block of any number, and every
\* ground, safe distance and length of the wire
\* (handle_player_movement_update, play.c:5519-5586, send_sync_position).
THEOREM FallEarnedCorrect == FallingSpec => []FallEarned
<1>1. FallingInit => FallInv BY FallingInitHolds
<1>2. FallInv /\ [FallingNext]_fallingVars => FallInv' BY FallingStepKeeps
<1>3. FallInv => FallEarned BY DEF FallInv
<1> QED BY <1>1, <1>2, <1>3, PTL DEF FallingSpec

-----------------------------------------------------------------------------
(***************************************************************************)
(* That what a player gets over time is earned: a block of any hardness is *)
(* dug only as long as it takes (Mining.tla), every bite takes the whole   *)
(* use of its stack (Eating.tla), and hearts come and go only after their  *)
(* interval (Survival.tla); and that the chest it is kept in keeps it      *)
(* (Chests.tla), for every value of the constants.                         *)
(***************************************************************************)

-----------------------------------------------------------------------------
(* Mining, for every set of blocks, tools and rules. The invariant: any    *)
(* session is what the last dig packet, an accepted START, began; every    *)
(* other dig packet clears the session, and nothing else touches either.   *)

\* The session is the one the last dig packet started, as old as that packet.
SessionIsStart ==
    session.active =>
        /\ dig.packet = "start" /\ dig.result = "started" /\ ~dig.creative
        /\ dig.spot = session.spot /\ dig.kind = session.kind /\ dig.tool = session.tool
        /\ dig.age = session.age
        /\ session.required = RequiredMs(session.kind, session.tool)
        /\ session.harvest = CanHarvest(session.kind, session.tool)

MiningInv == MiningTypeOK /\ SessionIsStart
-----------------------------------------------------------------------------
\* Any time but that of an instant block is a positive number of milliseconds.
LEMMA RequiredIsPositive ==
    ASSUME NEW k \in Kind, NEW t \in Tool, Breakable(k), ~Instant(k)
    PROVE  RequiredMs(k, t) \in Nat /\ RequiredMs(k, t) > 0
<1> DEFINE base == IF CanHarvest(k, t) THEN BaseTicks ELSE NoHarvestTicks
           speed == 100 * SpeedOf[t][k]
           n == HardnessOf[k] * base * 100 + speed - 1
<1>1. HardnessOf[k] \in Nat /\ HardnessOf[k] # 0
  BY MiningAssumption DEF Breakable, Instant
<1>2. base \in Nat BY DEF BaseTicks, NoHarvestTicks
<1>3. speed \in Nat /\ speed > 0 BY MiningAssumption
<1>4. HardnessOf[k] * base \in Nat
  <2> HIDE DEF base
  <2> QED BY <1>1, <1>2
<1>5. n \in Int
  <2> HIDE DEF base, speed
  <2> QED BY <1>3, <1>4
<1>6. n \div speed \in Int
  <2> HIDE DEF n, speed
  <2> QED BY <1>3, <1>5
<1>7. RequiredMs(k, t) = 50 * Most(1, n \div speed)
  BY <1>1 DEF RequiredMs, TickMs
<1> HIDE DEF n, speed
<1> QED BY <1>6, <1>7 DEF Most

\* The grace leaves two thirds of the time.
LEMMA NeededIsMost ==
    ASSUME NEW r \in Nat
    PROVE  NeededMs(r) \in Int /\ 3 * NeededMs(r) >= 2 * r
<1>1. r \div 3 \in Int /\ 3 * (r \div 3) <= r OBVIOUS
<1>2. r \div 20 \in Int OBVIOUS
<1>3. GraceMs(r) \in Int /\ 3 * GraceMs(r) <= r
  <2> DEFINE third == r \div 3
             portion == r \div 20
  <2>1. third \in Int /\ 3 * third <= r BY <1>1
  <2>2. portion \in Int BY <1>2
  <2>3. GraceMs(r) = IF r <= 50 THEN 0 ELSE Least(third, Least(500, Most(100, portion)))
    BY DEF GraceMs, TickMs, GraceMax, GraceMin
  <2> HIDE DEF third, portion
  <2> QED BY <2>1, <2>2, <2>3 DEF Least, Most
<1> QED BY <1>3 DEF NeededMs
-----------------------------------------------------------------------------
LEMMA MiningInitHolds == ASSUME MiningInit PROVE MiningInv
BY MiningAssumption DEF MiningInit, MiningInv, MiningTypeOK, SessionIsStart, NoDig, NoPacket

\* A packet that clears the session keeps the invariant whatever it does.
LEMMA ClearingKeeps ==
    ASSUME MiningInv, NEW p \in Spot, NEW packet \in {"start", "abort", "stop"},
           NEW result \in {"started", "broken", "shown", "acked"}, NEW drop \in BOOLEAN,
           session' = NoDig, Dug(packet, p, result, drop),
           block' \in [Spot -> Kind \cup {Air}], UNCHANGED <<hand, creative>>
    PROVE  MiningInv'
<1>1. dig' \in Handled
  BY MiningAssumption DEF MiningInv, MiningTypeOK, Dug, Handled
<1>2. ~session'.active BY DEF NoDig
<1> QED BY <1>1, <1>2 DEF MiningInv, MiningTypeOK, SessionIsStart

LEMMA BreakKeeps ==
    ASSUME MiningInv, NEW p \in Spot, NEW packet \in {"start", "abort", "stop"},
           NEW harvest \in BOOLEAN,
           session' = NoDig, Break(packet, p, harvest), UNCHANGED <<hand, creative>>
    PROVE  MiningInv'
<1>1. block' \in [Spot -> Kind \cup {Air}] BY DEF MiningInv, MiningTypeOK, Break
<1>2. PICK result \in {"broken", "shown"}, drop \in BOOLEAN : Dug(packet, p, result, drop)
  BY Zenon DEF Break
<1> QED BY <1>1, <1>2, ClearingKeeps

LEMMA RejectKeeps ==
    ASSUME MiningInv, NEW p \in Spot, NEW packet \in {"start", "abort", "stop"},
           session' = NoDig, Reject(packet, p), UNCHANGED <<hand, creative>>
    PROVE  MiningInv'
<1>1. block' \in [Spot -> Kind \cup {Air}] BY DEF MiningInv, MiningTypeOK, Reject
<1> QED BY <1>1, ClearingKeeps DEF Reject

LEMMA StartKeeps ==
    ASSUME MiningInv, NEW p \in Spot, StartDig(p)
    PROVE  MiningInv'
<1>1. CASE ~Breakable(block[p]) /\ session' = NoDig /\ Reject("start", p)
  BY <1>1, RejectKeeps DEF StartDig
<1>2. CASE Instant(block[p]) /\ session' = NoDig /\ Break("start", p, CanHarvest(block[p], hand))
  <2>1. CanHarvest(block[p], hand) \in BOOLEAN BY DEF CanHarvest
  <2> QED BY <1>2, <2>1, BreakKeeps DEF StartDig
<1>3. CASE /\ Breakable(block[p]) /\ ~Instant(block[p])
           /\ session' = Started(p, block[p], hand)
           /\ Dug("start", p, "started", FALSE)
           /\ UNCHANGED block
  <2>1. block[p] \in Kind BY <1>3 DEF Breakable
  <2>2. hand \in Tool BY DEF MiningInv, MiningTypeOK
  <2>3. RequiredMs(block[p], hand) \in Nat /\ RequiredMs(block[p], hand) > 0
    BY <1>3, <2>1, <2>2, RequiredIsPositive
  <2>4. CanHarvest(block[p], hand) \in BOOLEAN BY DEF CanHarvest
  <2>5. 0 \in 0..MaxAge BY MiningAssumption
  <2>6. session' \in Running BY <1>3, <2>1, <2>2, <2>3, <2>4, <2>5 DEF Started, Running
  <2>7. dig' \in Handled
    BY <1>3, <2>5 DEF MiningInv, MiningTypeOK, Dug, Handled
  <2>8. MiningTypeOK'
    BY <1>3, <2>3, <2>6, <2>7 DEF MiningInv, MiningTypeOK, StartDig, Started
  <2>9. SessionIsStart' BY <1>3 DEF SessionIsStart, Started, Dug, StartDig
  <2> QED BY <2>8, <2>9 DEF MiningInv
<1> QED BY <1>1, <1>2, <1>3 DEF StartDig

LEMMA TimeKeeps ==
    ASSUME MiningInv, TimePasses
    PROVE  MiningInv'
<1>1. ASSUME NEW a \in 0..MaxAge PROVE Least(MaxAge, a + 1) \in 0..MaxAge
  BY MiningAssumption DEF Least
<1>2. CASE session.active
  <2>1. session \in Running BY <1>2 DEF MiningInv, MiningTypeOK, NoDig
  <2>2. dig \in Handled BY <1>2 DEF MiningInv, MiningTypeOK, SessionIsStart, NoPacket
  <2>3. session' = [session EXCEPT !.age = Least(MaxAge, session.age + 1)]
    BY <1>2 DEF TimePasses
  <2>4. dig' = [dig EXCEPT !.age = Least(MaxAge, dig.age + 1)] BY DEF TimePasses
  <2>5. session' \in Running BY <1>1, <2>1, <2>3 DEF Running
  <2>6. dig' \in Handled BY <1>1, <2>2, <2>4 DEF Handled
  <2>7. /\ session'.active /\ session'.spot = session.spot /\ session'.kind = session.kind
        /\ session'.tool = session.tool /\ session'.required = session.required
        /\ session'.harvest = session.harvest
        /\ session'.age = Least(MaxAge, session.age + 1)
    BY <2>1, <2>3 DEF Running
  <2>8. /\ dig'.packet = dig.packet /\ dig'.result = dig.result /\ dig'.creative = dig.creative
        /\ dig'.spot = dig.spot /\ dig'.kind = dig.kind /\ dig'.tool = dig.tool
        /\ dig'.age = Least(MaxAge, dig.age + 1)
    BY <2>2, <2>4 DEF Handled
  <2>9. MiningTypeOK'
    BY <1>2, <2>5, <2>6, <2>7 DEF MiningInv, MiningTypeOK, TimePasses
  <2>10. SessionIsStart'
    BY <1>2, <2>7, <2>8 DEF MiningInv, SessionIsStart
  <2> QED BY <2>9, <2>10 DEF MiningInv
<1>3. CASE ~session.active
  <2>1. dig \in Handled BY <1>3 DEF MiningInv, MiningTypeOK, TimePasses, NoPacket
  <2>2. dig' \in Handled BY <1>1, <2>1 DEF TimePasses, Handled
  <2>3. session' = session BY <1>3 DEF TimePasses
  <2> QED BY <1>3, <2>2, <2>3 DEF MiningInv, MiningTypeOK, SessionIsStart, TimePasses
<1> QED BY <1>2, <1>3

LEMMA MiningStepKeeps == ASSUME MiningInv, [MiningNext]_miningVars PROVE MiningInv'
<1>1. ASSUME NEW p \in Spot, StartDig(p) PROVE MiningInv' BY <1>1, StartKeeps
<1>2. ASSUME NEW p \in Spot, AbortDig(p) PROVE MiningInv' BY <1>2, RejectKeeps DEF AbortDig
<1>3. ASSUME NEW p \in Spot, StopDig(p) PROVE MiningInv'
  <2>1. CASE StopAccepted(p)
    <3>1. session \in Running
      BY <2>1 DEF StopAccepted, MiningInv, MiningTypeOK, NoDig
    <3>2. session.harvest \in BOOLEAN BY <3>1 DEF Running
    <3> QED BY <1>3, <2>1, <3>2, BreakKeeps DEF StopDig
  <2>2. CASE ~StopAccepted(p) BY <1>3, <2>2, RejectKeeps DEF StopDig
  <2> QED BY <2>1, <2>2
<1>4. ASSUME NEW p \in Spot, NEW packet \in {"start", "stop"}, CreativeDig(packet, p)
      PROVE  MiningInv'
  BY <1>4, BreakKeeps DEF CreativeDig
<1>5. ASSUME NEW p \in Spot, NEW packet \in {"start", "abort", "stop"}, DigUnready(packet, p)
      PROVE  MiningInv'
  BY <1>5, ClearingKeeps DEF DigUnready, MiningInv, MiningTypeOK
<1>6. ASSUME NEW t \in Tool, HoldTool(t) PROVE MiningInv'
  BY <1>6 DEF HoldTool, MiningInv, MiningTypeOK, SessionIsStart
<1>7. ASSUME NEW p \in Spot, NEW k \in Kind \cup {Air}, ChangeBlock(p, k) PROVE MiningInv'
  BY <1>7 DEF ChangeBlock, MiningInv, MiningTypeOK, SessionIsStart
<1>8. CASE ChangeMode
  BY <1>8 DEF ChangeMode, MiningInv, MiningTypeOK, SessionIsStart
<1>9. CASE TimePasses BY <1>9, TimeKeeps
<1>10. CASE UNCHANGED miningVars
  BY <1>10 DEF miningVars, MiningInv, MiningTypeOK, SessionIsStart
<1> QED
  BY <1>1, <1>2, <1>3, <1>4, <1>5, <1>6, <1>7, <1>8, <1>9, <1>10 DEF MiningNext

\* What the running session says of the last packet is what Earned asks for.
LEMMA StopIsEarned ==
    ASSUME MiningInv, NEW p \in Spot, StopDig(p), dig'.result = "broken"
    PROVE  Earned
<1>1. CASE ~StopAccepted(p)
  BY <1>1 DEF StopDig, Reject, Dug
<1>2. CASE StopAccepted(p)
  <2>1. session \in Running BY <1>2 DEF StopAccepted, MiningInv, MiningTypeOK, NoDig
  <2>2. /\ dig'.spot = p /\ dig'.kind = block[p] /\ dig'.tool = hand
        /\ dig'.drop => session.harvest
    <3>1. Break("stop", p, session.harvest) BY <1>2 DEF StopDig
    <3>2. dig'.drop = (block[p] # Air /\ session.harvest) BY <3>1, Zenon DEF Break, Dug
    <3> QED BY <3>1, <3>2 DEF Break, Dug
  <2>3. /\ session.spot = p /\ session.kind = block[p] /\ session.tool = hand
        /\ session.age * TickMs >= NeededMs(session.required)
    BY <1>2 DEF StopAccepted
  <2>4. session.required = RequiredMs(dig'.kind, dig'.tool) /\ dig.age = session.age
    BY <1>2, <2>2, <2>3 DEF StopAccepted, MiningInv, SessionIsStart
  <2>5. 3 * TickMs * dig.age >= 2 * RequiredMs(dig'.kind, dig'.tool)
    <3> DEFINE r == session.required
               n == NeededMs(r)
               a == session.age
    <3>1. r \in Nat /\ a \in Nat BY <2>1, MiningAssumption DEF Running
    <3>2. n \in Int /\ 3 * n >= 2 * r BY <3>1, NeededIsMost
    <3>3. a * 50 >= n BY <2>3 DEF TickMs
    <3>4. 3 * 50 * a >= 2 * r
      <4> HIDE DEF r, n, a
      <4> QED BY <3>1, <3>2, <3>3
    <3> QED BY <2>4, <3>4 DEF TickMs
  <2>6. dig'.drop => CanHarvest(dig'.kind, dig'.tool)
    BY <1>2, <2>2, <2>3 DEF StopAccepted, MiningInv, SessionIsStart
  <2> QED
    BY <1>2, <2>2, <2>3, <2>5, <2>6 DEF StopAccepted, MiningInv, SessionIsStart, Earned
<1> QED BY <1>1, <1>2

LEMMA StepIsEarned ==
    ASSUME MiningInv, [MiningNext]_miningVars,
           dig'.packet = "stop", dig'.result = "broken", ~dig'.creative, dig' # dig
    PROVE  Earned
<1>1. ASSUME NEW p \in Spot, StartDig(p) \/ AbortDig(p) PROVE FALSE
  BY <1>1 DEF StartDig, AbortDig, Reject, Break, Dug
<1>2. ASSUME NEW p \in Spot, StopDig(p) PROVE Earned BY <1>2, StopIsEarned
<1>3. ASSUME NEW p \in Spot, NEW packet \in {"start", "stop"}, CreativeDig(packet, p)
      PROVE  FALSE
  BY <1>3 DEF CreativeDig, Break, Dug
<1>4. ASSUME NEW p \in Spot, NEW packet \in {"start", "abort", "stop"}, DigUnready(packet, p)
      PROVE  FALSE
  BY <1>4 DEF DigUnready, Dug
<1>5. ASSUME NEW t \in Tool, HoldTool(t) PROVE FALSE BY <1>5 DEF HoldTool
<1>6. ASSUME NEW p \in Spot, NEW k \in Kind \cup {Air}, ChangeBlock(p, k) PROVE FALSE
  BY <1>6 DEF ChangeBlock
<1>7. CASE ChangeMode BY <1>7 DEF ChangeMode
<1>8. CASE TimePasses
  <2>1. dig \in Handled \cup {NoPacket} BY DEF MiningInv, MiningTypeOK
  <2>2. ~session.active => dig.packet = "start" BY <1>8 DEF TimePasses
  <2>3. dig.packet = "start" BY <2>2 DEF MiningInv, SessionIsStart
  <2>4. dig'.packet = dig.packet BY <1>8, <2>1 DEF TimePasses, Handled, NoPacket
  <2> QED BY <2>3, <2>4
<1>9. CASE UNCHANGED miningVars BY <1>9 DEF miningVars
<1> QED
  BY <1>1, <1>2, <1>3, <1>4, <1>5, <1>6, <1>7, <1>8, <1>9 DEF MiningNext
-----------------------------------------------------------------------------
\* The session is always typed and always the one the last dig packet started.
THEOREM MiningCorrect == MiningSpec => []MiningInv
<1>1. MiningInit => MiningInv BY MiningInitHolds
<1>2. MiningInv /\ [MiningNext]_miningVars => MiningInv' BY MiningStepKeeps
<1> QED BY <1>1, <1>2, PTL DEF MiningSpec

\* Every dig of a survival player is earned (DigEarned), for all rules.
THEOREM DigEarnedCorrect == MiningSpec => DigEarned
<1>1. MiningInv /\ [MiningNext]_miningVars =>
         [dig'.packet = "stop" /\ dig'.result = "broken" /\ ~dig'.creative
          /\ dig' # dig => Earned]_miningVars
  BY StepIsEarned
<1> QED BY <1>1, MiningCorrect, PTL DEF MiningSpec, DigEarned

-----------------------------------------------------------------------------
(* Eating, for every food and every duration. The invariant: a use         *)
(* that runs was begun with the slot and the item the history watches, and *)
(* what is left of it is what the history has not yet counted.             *)

ActiveUse == [on : {TRUE}, slot : Slot, item : Food, left : 1..Duration]
Watched == [on : {TRUE}, slot : Slot, item : Food, ticks : 0..Duration]

UseType == use \in ActiveUse \cup {NoUse}
KeptType == kept \in Watched \cup {Unkept}

\* What has gone by of the use is what the history has counted.
UseIsKept ==
    use.on => /\ kept.on /\ kept.slot = use.slot /\ kept.item = use.item
              /\ kept.ticks + use.left = Duration

EatingInv == selected \in Slot /\ UseType /\ KeptType /\ UseIsKept
-----------------------------------------------------------------------------
\* The four things that can happen to a use.
LEMMA CancelKeeps ==
    ASSUME EatingInv, CancelUse, selected' \in Slot, KeptType'
    PROVE  EatingInv'
BY DEF EatingInv, CancelUse, UseType, UseIsKept, NoUse

LEMMA BeginKeeps ==
    ASSUME NEW i \in Food, selected' \in Slot, use' = Using(selected', i),
           kept' = [on |-> TRUE, slot |-> selected', item |-> i, ticks |-> 0]
    PROVE  EatingInv'
<1>1. Duration \in 1..Duration /\ 0 \in 0..Duration BY EatingAssumption
<1>2. UseType' BY <1>1 DEF UseType, ActiveUse, Using
<1>3. KeptType' BY <1>1 DEF KeptType, Watched
<1>4. UseIsKept' BY EatingAssumption DEF UseIsKept, Using
<1> QED BY <1>2, <1>3, <1>4 DEF EatingInv

LEMMA SameKeeps ==
    ASSUME EatingInv, selected' \in Slot, UNCHANGED <<use, kept>>
    PROVE  EatingInv'
BY DEF EatingInv, UseType, KeptType, UseIsKept

\* A use that matches: the history watches the same thing.
LEMMA MatchIsWatched ==
    ASSUME EatingInv, use.on, UseMatches
    PROVE  /\ use \in ActiveUse /\ kept \in Watched
           /\ kept.slot = selected /\ InHand.item = kept.item /\ Edible(InHand, food)
           /\ kept.ticks + use.left = Duration
<1>1. use \in ActiveUse BY DEF EatingInv, UseType, NoUse
<1>2. kept \in Watched BY DEF EatingInv, KeptType, UseIsKept, Unkept
<1> QED BY <1>1, <1>2 DEF EatingInv, UseIsKept, UseMatches

LEMMA CountedIsTyped == ASSUME EatingInv PROVE Counted \in Watched \cup {Unkept}
<1>1. CASE kept \in Watched
  <2> DEFINE more == IF kept.ticks < Duration THEN kept.ticks + 1 ELSE kept.ticks
  <2>1. more \in 0..Duration BY <1>1, EatingAssumption DEF Watched
  <2>2. [kept EXCEPT !.ticks = more] \in Watched BY <1>1, <2>1 DEF Watched
  <2> QED BY <2>2 DEF Counted
<1>2. CASE kept = Unkept BY <1>2 DEF Counted, Unkept
<1> QED BY <1>1, <1>2 DEF EatingInv, KeptType
-----------------------------------------------------------------------------
LEMMA EatingInitHolds == ASSUME EatingInit PROVE EatingInv
BY EatingAssumption DEF EatingInit, EatingInv, UseType, KeptType, UseIsKept, NoUse, Unkept

LEMMA ForgetIsTyped == ASSUME Forget PROVE KeptType'
BY DEF Forget, KeptType

LEMMA PressKeeps == ASSUME EatingInv, PressUse PROVE EatingInv'
<1>1. selected' = selected /\ selected \in Slot BY DEF PressUse, EatingInv
<1>2. CASE UNCHANGED <<use, kept>> BY <1>1, <1>2, SameKeeps
<1>3. CASE /\ Edible(InHand, food) /\ use' = Using(selected, InHand.item)
           /\ kept' = [on |-> TRUE, slot |-> selected, item |-> InHand.item, ticks |-> 0]
  <2>1. InHand.item \in Food BY <1>3 DEF Edible
  <2> QED BY <1>1, <1>3, <2>1, BeginKeeps
<1>4. CASE CancelUse /\ Forget BY <1>1, <1>4, CancelKeeps, ForgetIsTyped
<1> QED BY <1>2, <1>3, <1>4 DEF PressUse

LEMMA BiteKeeps == ASSUME EatingInv, Bite, UNCHANGED selected PROVE EatingInv'
<1>1. selected' \in Slot BY DEF EatingInv
<1> DEFINE rest == Bitten[selected]
<1>2. CASE pressed /\ Edible(rest, Fed)
  <2>1. rest.item \in Food BY <1>2 DEF Edible
  <2>2. /\ use' = Using(selected, rest.item)
        /\ kept' = [on |-> TRUE, slot |-> selected, item |-> rest.item, ticks |-> 0]
    BY <1>2 DEF Bite
  <2> HIDE DEF rest
  <2> QED BY <1>1, <2>1, <2>2, BeginKeeps
<1>3. CASE ~(pressed /\ Edible(rest, Fed))
  <2>1. CancelUse /\ Forget BY <1>3 DEF Bite
  <2> QED BY <1>1, <2>1, CancelKeeps, ForgetIsTyped
<1> QED BY <1>2, <1>3

LEMMA TickKeeps == ASSUME EatingInv, EatTick PROVE EatingInv'
<1>1. selected' = selected /\ selected \in Slot BY DEF EatTick, EatingInv
<1>2. CASE ~use.on /\ kept' = Counted /\ UNCHANGED use
  <2>1. KeptType' BY <1>2, CountedIsTyped DEF KeptType
  <2> QED BY <1>1, <1>2, <2>1 DEF EatingInv, UseType, UseIsKept
<1>3. CASE CancelUse /\ kept' = Counted
  <2>1. KeptType' BY <1>3, CountedIsTyped DEF KeptType
  <2> QED BY <1>1, <1>3, <2>1, CancelKeeps
<1>4. CASE /\ use.on /\ survival /\ alive /\ UseMatches /\ use.left > 1
           /\ use' = [use EXCEPT !.left = @ - 1]
           /\ kept' = Counted
  <2>1. /\ use \in ActiveUse /\ kept \in Watched
        /\ kept.slot = selected /\ InHand.item = kept.item /\ Edible(InHand, food)
        /\ kept.ticks + use.left = Duration
    BY <1>4, MatchIsWatched
  <2>2. kept.ticks < Duration /\ kept.ticks + 1 \in 0..Duration
    BY <1>4, <2>1, EatingAssumption DEF ActiveUse, Watched
  <2>3. kept' = [kept EXCEPT !.ticks = kept.ticks + 1]
    BY <1>4, <2>1, <2>2 DEF Counted, Watched
  <2>4. use' \in ActiveUse /\ use'.slot = use.slot /\ use'.item = use.item
        /\ use'.left = use.left - 1
    <3>1. use.left - 1 \in 1..Duration BY <1>4, <2>1, EatingAssumption DEF ActiveUse
    <3>2. use' = [use EXCEPT !.left = use.left - 1] BY <1>4
    <3> QED BY <2>1, <3>1, <3>2 DEF ActiveUse
  <2>5. kept' \in Watched /\ kept'.slot = kept.slot /\ kept'.item = kept.item
        /\ kept'.ticks = kept.ticks + 1
    BY <2>1, <2>2, <2>3 DEF Watched
  <2>6. kept'.ticks + use'.left = Duration
    <3>1. kept.ticks \in Int /\ use.left \in Int
      BY <2>1, EatingAssumption DEF ActiveUse, Watched
    <3> QED BY <2>1, <2>4, <2>5, <3>1
  <2>7. kept'.on BY <2>5 DEF Watched
  <2>8. kept.slot = use.slot /\ kept.item = use.item BY <1>4 DEF EatingInv, UseIsKept
  <2> QED BY <1>1, <2>4, <2>5, <2>6, <2>7, <2>8 DEF EatingInv, UseType, KeptType, UseIsKept
<1>5. CASE Bite BY <1>1, <1>5, BiteKeeps
<1> QED BY <1>2, <1>3, <1>4, <1>5 DEF EatTick

LEMMA EatingStepKeeps == ASSUME EatingInv, [EatingNext]_eatingVars PROVE EatingInv'
<1>1. selected \in Slot BY DEF EatingInv
<1>2. CASE PressUse BY <1>2, PressKeeps
<1>3. CASE ReleaseUse BY <1>1, <1>3, CancelKeeps, ForgetIsTyped DEF ReleaseUse
<1>4. ASSUME NEW s \in Slot, HoldSlot(s) PROVE EatingInv'
  BY <1>4, CancelKeeps, ForgetIsTyped DEF HoldSlot
<1>5. ASSUME NEW count, DropItem(count) PROVE EatingInv'
  BY <1>1, <1>5, CancelKeeps, ForgetIsTyped DEF DropItem
<1>6. ASSUME NEW level, SetFood(level) PROVE EatingInv'
  BY <1>1, <1>6, CancelKeeps, ForgetIsTyped DEF SetFood
<1>7. CASE DieHungry BY <1>1, <1>7, CancelKeeps, ForgetIsTyped DEF DieHungry
<1>8. CASE RespawnFed BY <1>1, <1>8, CancelKeeps, ForgetIsTyped DEF RespawnFed
<1>9. ASSUME NEW s, NEW stack, ChangeSlot(s, stack) PROVE EatingInv'
  BY <1>1, <1>9, SameKeeps DEF ChangeSlot
<1>10. CASE SetMode BY <1>1, <1>10, SameKeeps DEF SetMode
<1>11. CASE Hunger BY <1>1, <1>11, SameKeeps DEF Hunger
<1>12. CASE EatTick BY <1>12, TickKeeps
<1>13. CASE UNCHANGED eatingVars BY <1>1, <1>13, SameKeeps DEF eatingVars
<1> QED
  BY <1>2, <1>3, <1>4, <1>5, <1>6, <1>7, <1>8, <1>9, <1>10, <1>11, <1>12, <1>13 DEF EatingNext

\* Only the last tick of a use that matches takes from the slots.
LEMMA BiteIsEarned ==
    ASSUME EatingInv, EatTick, slots' # slots
    PROVE  /\ kept.on /\ kept.slot = selected /\ kept.item = InHand.item
           /\ kept.ticks >= Duration - 1
           /\ survival /\ alive /\ Edible(InHand, food)
<1>1. use.on /\ survival /\ alive /\ UseMatches /\ use.left <= 1 BY DEF EatTick
<1>2. /\ use \in ActiveUse /\ kept \in Watched
      /\ kept.slot = selected /\ InHand.item = kept.item /\ Edible(InHand, food)
      /\ kept.ticks + use.left = Duration
  BY <1>1, MatchIsWatched
<1>3. kept.ticks >= Duration - 1
  BY <1>1, <1>2, EatingAssumption DEF ActiveUse, Watched
<1> QED BY <1>1, <1>2, <1>3 DEF Watched
-----------------------------------------------------------------------------
\* A running use is always one the history has watched from its beginning.
THEOREM EatingCorrect == EatingSpec => []EatingInv
<1>1. EatingInit => EatingInv BY EatingInitHolds
<1>2. EatingInv /\ [EatingNext]_eatingVars => EatingInv' BY EatingStepKeeps
<1> QED BY <1>1, <1>2, PTL DEF EatingSpec

\* Every bite is earned (EatEarned), for all foods and durations.
THEOREM EatEarnedCorrect == EatingSpec => EatEarned
<1>1. EatingInv /\ [EatingNext]_eatingVars =>
         [EatTick /\ slots' # slots =>
             /\ kept.on /\ kept.slot = selected /\ kept.item = InHand.item
             /\ kept.ticks >= Duration - 1
             /\ survival /\ alive /\ Edible(InHand, food)]_eatingVars
  BY BiteIsEarned
<1> QED BY <1>1, EatingCorrect, PTL DEF EatingSpec, EatEarned

-----------------------------------------------------------------------------
(* Hearts, for every health, food level and interval. The invariant: a     *)
(* timer that runs has run for as many ticks as the history has counted,   *)
(* under the difficulty now in force.                                      *)

HealInterval == IF difficulty = "peaceful" THEN PeacefulTicks ELSE RegenTicks

\* Each timer's due tick lies within its interval, and what is gone of it the
\* history has counted; the tick that finds it at 1 is the one that acts.
TimersCounted ==
    /\ regen # 0 => regen \in 1..HealInterval /\ lately.hurtFor >= HealInterval + 1 - regen
    /\ starve # 0 => starve \in 1..StarveTicks /\ lately.emptyFor >= StarveTicks + 1 - starve

SurvivalType ==
    /\ health \in 0..MaxHealth /\ hunger \in 0..MaxFoodLevel
    /\ exhaustion \in 0..1 /\ saturation \in Nat
    /\ regen \in Nat /\ starve \in Nat
    /\ difficulty \in Difficulty
    /\ lately \in [hurtFor : 0..Longest, emptyFor : 0..Longest,
                   cause : {"none", "hit", "command", "regen", "starvation"}]

SurvivalInv == SurvivalType /\ TimersCounted

\* What the player's file holds is a player's.
Filed ==
    saved \in [health : 0..MaxHealth, hunger : 0..MaxFoodLevel, saturation : Nat, exhaustion : 0..1]
-----------------------------------------------------------------------------
\* Exhaustion wears food down by no more than its steps, and never below zero.
LEMMA WornIsTyped ==
    ASSUME SurvivalType, NEW e \in Nat
    PROVE  /\ Worn(e).exhaustion \in 0..1 /\ Worn(e).saturation \in Nat
           /\ Worn(e).hunger \in 0..MaxFoodLevel
<1> DEFINE steps == e \div 2
           soaked == Min2(steps, saturation)
<1>1. steps \in Nat OBVIOUS
<1>2. e % 2 \in 0..1 OBVIOUS
<1>3. soaked \in Nat /\ saturation - soaked \in Nat /\ steps - soaked \in Nat
  <2> HIDE DEF steps
  <2> QED BY <1>1 DEF SurvivalType, Min2
<1>4. Clamp(hunger - (steps - soaked), MaxFoodLevel) \in 0..MaxFoodLevel
  <2> HIDE DEF steps, soaked
  <2> QED BY <1>3, SurvivalAssumption DEF SurvivalType, Clamp, Min2
<1>5. Worn(e) = [exhaustion |-> e % 2, saturation |-> saturation - soaked,
                 hunger |-> Clamp(hunger - (steps - soaked), MaxFoodLevel)]
  BY DEF Worn, ExhaustionStep
<1> HIDE DEF steps, soaked
<1> QED BY <1>2, <1>3, <1>4, <1>5

\* Between two ticks there is less than a step of it, which wears nothing down.
LEMMA WornIsNothing ==
    ASSUME SurvivalType
    PROVE  /\ Worn(exhaustion).exhaustion = exhaustion
           /\ Worn(exhaustion).saturation = saturation
           /\ Worn(exhaustion).hunger = hunger
<1>1. exhaustion \div 2 = 0 /\ exhaustion % 2 = exhaustion BY DEF SurvivalType
<1>2. Min2(0, saturation) = 0 BY DEF SurvivalType, Min2
<1>3. Clamp(hunger - (0 - 0), MaxFoodLevel) = hunger
  BY SurvivalAssumption DEF SurvivalType, Clamp, Min2
<1>4. saturation - 0 = saturation BY DEF SurvivalType
<1> QED BY <1>1, <1>2, <1>3, <1>4 DEF Worn, ExhaustionStep

\* A meal leaves no more than the player can hold.
MealIsMore(meal) ==
    \A most \in 0..MaxFoodLevel : /\ Clamp(hunger + meal.nutrition, MaxFoodLevel) \in 0..MaxFoodLevel
                                  /\ Clamp(saturation + meal.saturation, most) \in 0..most
                                  /\ Clamp(saturation + meal.saturation, most) \in Nat
LEMMA MealsFeed == ASSUME SurvivalType, NEW meal \in Meal PROVE MealIsMore(meal)
<1>1. meal.nutrition \in Nat /\ meal.saturation \in Nat BY SurvivalAssumption
<1>2. hunger \in Nat /\ saturation \in Nat /\ MaxFoodLevel \in Nat
  BY SurvivalAssumption DEF SurvivalType
<1> QED BY <1>1, <1>2 DEF MealIsMore, Clamp, Min2

LEMMA LongestIsLong ==
    /\ Longest \in Nat /\ Longest >= RegenTicks /\ Longest >= PeacefulTicks
    /\ Longest >= StarveTicks /\ Longest >= 1
BY SurvivalAssumption DEF Longest, Larger

LEMMA IntervalIsNat == HealInterval \in Nat \ {0} /\ Longest >= HealInterval
BY SurvivalAssumption, LongestIsLong DEF HealInterval

\* What the history says after one more tick.
LEMMA ObservedCounts ==
    ASSUME SurvivalType, NEW cause \in {"none", "hit", "command", "regen", "starvation"}
    PROVE  /\ Observed(cause) \in [hurtFor : 0..Longest, emptyFor : 0..Longest,
                   cause : {"none", "hit", "command", "regen", "starvation"}]
           /\ Observed(cause).cause = cause
           /\ HurtNow => Observed(cause).hurtFor = Min2(Longest, lately.hurtFor + 1)
           /\ EmptyNow => Observed(cause).emptyFor = Min2(Longest, lately.emptyFor + 1)
<1>1. lately.hurtFor \in 0..Longest /\ lately.emptyFor \in 0..Longest BY DEF SurvivalType
<1>2. /\ Min2(Longest, lately.hurtFor + 1) \in 0..Longest
      /\ Min2(Longest, lately.emptyFor + 1) \in 0..Longest
      /\ 0 \in 0..Longest
  BY <1>1, LongestIsLong DEF Min2
<1> QED BY <1>2 DEF Observed

\* A timer that counts on, for a player the history counts too.
LEMMA TimerCountsOn ==
    ASSUME NEW interval \in Nat \ {0}, NEW top \in Nat, top >= interval,
           NEW timer \in Nat, NEW for \in 0..top,
           timer # 0 => timer \in 1..interval /\ for >= interval + 1 - timer
    PROVE  /\ Left(timer, interval) # 0 =>
                 /\ Left(timer, interval) \in 1..interval
                 /\ Min2(top, for + 1) >= interval + 1 - Left(timer, interval)
           /\ Left(timer, interval) = 0 => for >= interval
           /\ Min2(top, for + 1) >= 1
           /\ Left(timer, interval) = 0 => Min2(top, for + 1) >= 1
BY DEF Left, Min2
-----------------------------------------------------------------------------
LEMMA SurvivalInitHolds == ASSUME SurvivalInit PROVE SurvivalInv
BY SurvivalAssumption, LongestIsLong
   DEF SurvivalInit, SurvivalInv, SurvivalType, TimersCounted, Fresh, Difficulty

\* Without running timers there is nothing to count.
LEMMA StoppedKeeps ==
    ASSUME SurvivalType', regen' = 0, starve' = 0
    PROVE  SurvivalInv'
BY DEF SurvivalInv, TimersCounted

LEMMA SameTimersKeep ==
    ASSUME SurvivalInv, SurvivalType', UNCHANGED <<regen, starve, difficulty>>,
           lately'.hurtFor = lately.hurtFor, lately'.emptyFor = lately.emptyFor
    PROVE  SurvivalInv'
BY DEF SurvivalInv, TimersCounted, HealInterval

LEMMA FreshIsTyped ==
    Fresh \in [hurtFor : 0..Longest, emptyFor : 0..Longest,
               cause : {"none", "hit", "command", "regen", "starvation"}]
BY LongestIsLong DEF Fresh

LEMMA ExertKeeps == ASSUME SurvivalInv, Exert PROVE SurvivalInv'
<1>1. SurvivalType BY DEF SurvivalInv
<1>2. exhaustion + 1 \in Nat BY <1>1 DEF SurvivalType
<1>3. SurvivalType'
  <2>1. CASE difficulty = "peaceful" BY <1>1, <2>1 DEF Exert, Wear, SurvivalType
  <2>2. CASE difficulty # "peaceful"
    BY <1>1, <1>2, <2>2, WornIsTyped DEF Exert, Wear, SurvivalType
  <2> QED BY <2>1, <2>2
<1> QED BY <1>3, SameTimersKeep DEF Exert

LEMMA DyingKeeps ==
    ASSUME SurvivalInv, NEW cause \in {"hit", "command", "starvation"}, DieOf(cause),
           hunger' \in 0..MaxFoodLevel, exhaustion' \in 0..1, saturation' \in Nat
    PROVE  SurvivalInv'
<1>1. lately' \in [hurtFor : 0..Longest, emptyFor : 0..Longest,
                   cause : {"none", "hit", "command", "regen", "starvation"}]
  BY DEF DieOf, SurvivalInv, SurvivalType
<1>2. 0 \in 0..MaxHealth /\ 0 \in Nat BY SurvivalAssumption
<1>3. SurvivalType' BY <1>1, <1>2 DEF SurvivalInv, SurvivalType, DieOf
<1> QED BY <1>3, StoppedKeeps DEF DieOf

LEMMA HurtingKeeps ==
    ASSUME SurvivalInv, NEW h \in 0..MaxHealth, NEW cause \in {"hit", "command"},
           health' = h, lately' = [lately EXCEPT !.cause = cause],
           UNCHANGED <<hunger, saturation, exhaustion, regen, starve, difficulty>>
    PROVE  SurvivalInv'
<1>1. /\ lately' \in [hurtFor : 0..Longest, emptyFor : 0..Longest,
                      cause : {"none", "hit", "command", "regen", "starvation"}]
      /\ lately'.hurtFor = lately.hurtFor /\ lately'.emptyFor = lately.emptyFor
  BY DEF SurvivalInv, SurvivalType
<1>2. SurvivalType' BY <1>1 DEF SurvivalInv, SurvivalType
<1> QED BY <1>1, <1>2, SameTimersKeep

LEMMA CommandsKeep ==
    ASSUME SurvivalInv
    PROVE  /\ \A amount \in 1..MaxHealth : Damage(amount) => SurvivalInv'
           /\ \A h \in 0..MaxHealth : SetHealth(h) => SurvivalInv'
           /\ \A level \in 0..MaxFoodLevel : SetHunger(level) => SurvivalInv'
           /\ ChangeGameMode => SurvivalInv'
           /\ \A d \in Difficulty : SetDifficulty(d) => SurvivalInv'
<1>1. ASSUME NEW amount \in 1..MaxHealth, Damage(amount) PROVE SurvivalInv'
  <2>1. CASE DieOf("hit")
    BY <1>1, <2>1, DyingKeeps DEF Damage, SurvivalInv, SurvivalType
  <2>2. CASE /\ health - amount > 0 /\ health' = health - amount
             /\ lately' = [lately EXCEPT !.cause = "hit"]
             /\ UNCHANGED <<dead, regen, starve, difficulty, mortal, saved>>
    <3>1. health - amount \in 0..MaxHealth
      BY <1>1, <2>2, SurvivalAssumption DEF SurvivalInv, SurvivalType
    <3> QED BY <1>1, <2>2, <3>1, HurtingKeeps DEF Damage
  <2> QED BY <1>1, <2>1, <2>2 DEF Damage
<1>2. ASSUME NEW h \in 0..MaxHealth, SetHealth(h) PROVE SurvivalInv'
  <2>1. CASE DieOf("command")
    BY <1>2, <2>1, DyingKeeps DEF SetHealth, SurvivalInv, SurvivalType
  <2>2. CASE /\ health' = h
             /\ lately' = [lately EXCEPT !.cause = "command"]
             /\ UNCHANGED <<dead, regen, starve, difficulty, mortal>>
    BY <1>2, <2>2, HurtingKeeps DEF SetHealth
  <2> QED BY <1>2, <2>1, <2>2 DEF SetHealth
<1>3. ASSUME NEW level \in 0..MaxFoodLevel, SetHunger(level) PROVE SurvivalInv'
  <2>1. Min2(saturation, level) \in Nat
    BY <1>3, SurvivalAssumption DEF SurvivalInv, SurvivalType, Min2
  <2>2. SurvivalType' BY <1>3, <2>1 DEF SetHunger, SurvivalInv, SurvivalType
  <2> QED BY <1>3, <2>2, StoppedKeeps DEF SetHunger
<1>4. CASE ChangeGameMode
  <2>1. SurvivalType' BY <1>4 DEF ChangeGameMode, SurvivalInv, SurvivalType
  <2> QED BY <1>4, <2>1, SameTimersKeep DEF ChangeGameMode
<1>5. ASSUME NEW d \in Difficulty, SetDifficulty(d) PROVE SurvivalInv'
  <2>1. SurvivalType'
    BY <1>5, FreshIsTyped DEF SetDifficulty, SurvivalInv, SurvivalType
  <2> QED BY <1>5, <2>1, StoppedKeeps DEF SetDifficulty
<1> QED BY <1>1, <1>2, <1>3, <1>4, <1>5

\* Saving, and what else leaves health and timers alone.
LEMMA FeedingKeeps ==
    ASSUME SurvivalInv
    PROVE  /\ Save => SurvivalInv'
           /\ \A level \in 0..hunger : SetSaturation(level) => SurvivalInv'
           /\ \A e \in 0..MaxExhaustion : SetExhaustion(e) => SurvivalInv'
           /\ \A meal \in Meal : Eat(meal) => SurvivalInv'
<1>1. SurvivalType BY DEF SurvivalInv
<1>2. ASSUME UNCHANGED <<health, regen, starve, difficulty, lately>>,
             hunger' \in 0..MaxFoodLevel, exhaustion' \in 0..1, saturation' \in Nat
      PROVE  SurvivalInv'
  <2>1. SurvivalType' BY <1>1, <1>2 DEF SurvivalType
  <2> QED BY <1>2, <2>1, SameTimersKeep
<1>3. CASE Save BY <1>1, <1>2, <1>3 DEF Save, SurvivalType
<1>4. ASSUME NEW level \in 0..hunger, SetSaturation(level) PROVE SurvivalInv'
  <2>1. level \in Nat BY <1>1 DEF SurvivalType
  <2> QED BY <1>1, <1>2, <1>4, <2>1 DEF SetSaturation, SurvivalType
<1>5. ASSUME NEW e \in 0..MaxExhaustion, SetExhaustion(e) PROVE SurvivalInv'
  <2>1. e \in Nat BY SurvivalAssumption
  <2>2. /\ Worn(e).exhaustion \in 0..1 /\ Worn(e).saturation \in Nat
        /\ Worn(e).hunger \in 0..MaxFoodLevel
    BY <1>1, <2>1, WornIsTyped
  <2>3. /\ exhaustion' = Worn(e).exhaustion /\ saturation' = Worn(e).saturation
        /\ hunger' = Worn(e).hunger /\ UNCHANGED <<health, regen, starve, difficulty, lately>>
    BY <1>5 DEF SetExhaustion
  <2> QED BY <1>2, <2>2, <2>3
<1>6. ASSUME NEW meal \in Meal, Eat(meal) PROVE SurvivalInv'
  <2>1. /\ hunger' = Clamp(hunger + meal.nutrition, MaxFoodLevel)
        /\ saturation' = Clamp(saturation + meal.saturation, hunger')
        /\ UNCHANGED <<health, exhaustion, regen, starve, difficulty, lately>>
    BY <1>6 DEF Eat
  <2>2. MealIsMore(meal) BY <1>1, MealsFeed
  <2>3. 0 \in 0..MaxFoodLevel BY SurvivalAssumption
  <2>4. hunger' \in 0..MaxFoodLevel BY <2>1, <2>2, <2>3 DEF MealIsMore
  <2>5. saturation' \in Nat BY <2>1, <2>2, <2>4 DEF MealIsMore
  <2> QED BY <1>1, <1>2, <2>1, <2>4, <2>5 DEF SurvivalType
<1> QED BY <1>3, <1>4, <1>5, <1>6

LEMMA ReturnsKeep ==
    ASSUME SurvivalInv, Filed, Revive \/ Rejoin \/ CrashJoin
    PROVE  SurvivalInv'
<1>1. /\ MaxHealth \in 0..MaxHealth /\ MaxFoodLevel \in 0..MaxFoodLevel
      /\ StartSaturation \in Nat
  BY SurvivalAssumption
<1>2. CASE Revive
  <2>1. SurvivalType' BY <1>1, <1>2, FreshIsTyped DEF Revive, SurvivalInv, SurvivalType
  <2> QED BY <1>2, <2>1, StoppedKeeps DEF Revive
<1>3. ASSUME NEW file \in [health : 0..MaxHealth, hunger : 0..MaxFoodLevel,
                           saturation : Nat, exhaustion : 0..1], LoadedFrom(file)
      PROVE  SurvivalInv'
  <2>1. SurvivalType' BY <1>1, <1>3, FreshIsTyped DEF LoadedFrom, SurvivalInv, SurvivalType
  <2> QED BY <1>3, <2>1, StoppedKeeps DEF LoadedFrom
<1>4. CASE Rejoin
  <2>1. Kept \in [health : 0..MaxHealth, hunger : 0..MaxFoodLevel, saturation : Nat, exhaustion : 0..1]
    BY DEF Kept, SurvivalInv, SurvivalType
  <2> QED BY <1>3, <1>4, <2>1 DEF Rejoin
<1>5. CASE CrashJoin BY <1>3, <1>5 DEF CrashJoin, Filed
<1> QED BY <1>2, <1>4, <1>5
-----------------------------------------------------------------------------
LEMMA PeacefulKeeps == ASSUME SurvivalInv, PeacefulTick PROVE SurvivalInv'
<1> DEFINE left == Left(regen, PeacefulTicks)
<1>1. SurvivalType BY DEF SurvivalInv
<1>2. CASE health = MaxHealth
  <2>1. regen' = 0 /\ lately' = Observed("none") /\ health' = health
    BY <1>2 DEF PeacefulTick
  <2>2. SurvivalType' BY <1>1, <2>1, ObservedCounts DEF PeacefulTick, SurvivalType
  <2> QED BY <2>1, <2>2, StoppedKeeps DEF PeacefulTick
<1>3. CASE health # MaxHealth
  <2>1. HurtNow
    BY <1>1, <1>3, SurvivalAssumption DEF PeacefulTick, HurtNow, SurvivalType
  <2>2. /\ left # 0 => /\ left \in 1..PeacefulTicks
                       /\ Min2(Longest, lately.hurtFor + 1) >= PeacefulTicks + 1 - left
        /\ Min2(Longest, lately.hurtFor + 1) >= 1
    BY TimerCountsOn, LongestIsLong, SurvivalAssumption
    DEF SurvivalInv, SurvivalType, TimersCounted, HealInterval, PeacefulTick
  <2>3. left \in Nat BY <1>1, SurvivalAssumption DEF SurvivalType, Left
  <2> HIDE DEF left
  <2>4. CASE left = 0
    <3>1. regen' = PeacefulTicks /\ health' = health + 1 /\ lately' = Observed("regen")
      BY <1>3, <2>4 DEF PeacefulTick, left
    <3>2. health' \in 0..MaxHealth BY <1>1, <1>3, <3>1, SurvivalAssumption DEF SurvivalType
    <3>3. SurvivalType'
      BY <1>1, <3>1, <3>2, ObservedCounts, SurvivalAssumption DEF PeacefulTick, SurvivalType
    <3>4. lately'.hurtFor >= 1 BY <1>1, <2>1, <2>2, <3>1, ObservedCounts
    <3>5. TimersCounted'
      BY <3>1, <3>4, SurvivalAssumption DEF TimersCounted, HealInterval, PeacefulTick
    <3> QED BY <3>3, <3>5 DEF SurvivalInv
  <2>5. CASE left # 0
    <3>1. regen' = left /\ health' = health /\ lately' = Observed("none")
      BY <1>3, <2>5 DEF PeacefulTick, left
    <3>2. SurvivalType'
      BY <1>1, <2>3, <3>1, ObservedCounts, SurvivalAssumption DEF PeacefulTick, SurvivalType
    <3>3. lately'.hurtFor >= PeacefulTicks + 1 - left
      BY <1>1, <2>1, <2>2, <2>5, <3>1, ObservedCounts
    <3>4. TimersCounted'
      BY <2>2, <2>5, <3>1, <3>3, SurvivalAssumption DEF TimersCounted, HealInterval, PeacefulTick
    <3> QED BY <3>2, <3>4 DEF SurvivalInv
  <2> QED BY <2>4, <2>5
<1> QED BY <1>2, <1>3

LEMMA IdleKeeps == ASSUME SurvivalInv, IdleTick PROVE SurvivalInv'
<1>1. SurvivalType' BY ObservedCounts DEF IdleTick, SurvivalInv, SurvivalType
<1> QED BY <1>1, StoppedKeeps DEF IdleTick

Heals == HurtNow /\ Left(regen, RegenTicks) = 0
Starves == EmptyNow /\ Left(starve, StarveTicks) = 0

\* A tick that heals empties nothing: the food level was high.
LEMMA HealingTick ==
    ASSUME SurvivalType, HungryTick, Heals
    PROVE  /\ health' = health + 1 /\ regen' = RegenTicks /\ starve' = 0
           /\ lately' = Observed("regen")
           /\ exhaustion' \in 0..1 /\ saturation' \in Nat /\ hunger' \in 0..MaxFoodLevel
           /\ UNCHANGED <<difficulty, saved>>
<1> DEFINE tired == exhaustion + RegenExhaustion
           steps == tired \div ExhaustionStep
           soaked == Min2(steps, saturation)
           fed == Clamp(hunger - (steps - soaked), MaxFoodLevel)
<1>1. health < MaxHealth /\ hunger >= RegenFood /\ Hungers /\ difficulty # "peaceful"
  BY DEF Heals, HurtNow, HungryTick
<1>2. tired \in 3..4 BY DEF SurvivalType, RegenExhaustion
<1>3. steps \in 1..2 /\ tired % ExhaustionStep \in 0..1
  <2> HIDE DEF tired
  <2> QED BY <1>2 DEF ExhaustionStep
<1>4. soaked \in 0..2 /\ saturation - soaked \in Nat /\ steps - soaked \in 0..2
  <2> HIDE DEF steps
  <2> QED BY <1>3 DEF SurvivalType, Min2
<1>5. fed \in 0..MaxFoodLevel /\ fed # 0
  <2> HIDE DEF steps, soaked
  <2> QED BY <1>1, <1>4, SurvivalAssumption
         DEF SurvivalType, Clamp, Min2, RegenExhaustion
<1>6. /\ Worn(exhaustion).hunger = hunger /\ Worn(exhaustion).saturation = saturation
      /\ Worn(exhaustion).exhaustion = exhaustion
  BY WornIsNothing
<1>7. Left(regen, RegenTicks) = 0 BY DEF Heals
<1>8. /\ exhaustion' = tired % ExhaustionStep
      /\ saturation' = saturation - soaked
      /\ hunger' = fed
      /\ fed # 0 => /\ health' = health + 1 /\ regen' = RegenTicks /\ starve' = 0
                     /\ lately' = Observed("regen")
                     /\ UNCHANGED <<difficulty, saved>>
  BY <1>1, <1>6, <1>7 DEF HungryTick
<1> HIDE DEF tired, steps, soaked, fed
<1> QED BY <1>3, <1>4, <1>5, <1>8

\* A tick that heals nothing leaves the food level as it is.
LEMMA OtherTick ==
    ASSUME SurvivalType, HungryTick, ~Heals
    PROVE  /\ UNCHANGED <<exhaustion, saturation, hunger, difficulty>>
           /\ \/ Starves /\ health = 1 /\ DieOf("starvation")
              \/ /\ Starves /\ health # 1
                 /\ health' = health - 1 /\ starve' = StarveTicks
                 /\ lately' = Observed("starvation")
                 /\ regen' = IF HurtNow THEN Left(regen, RegenTicks) ELSE 0
                 /\ UNCHANGED saved
              \/ /\ ~Starves
                 /\ health' = health
                 /\ lately' = Observed("none")
                 /\ regen' = IF HurtNow THEN Left(regen, RegenTicks) ELSE 0
                 /\ starve' = IF EmptyNow THEN Left(starve, StarveTicks) ELSE 0
                 /\ UNCHANGED saved
<1>1. Hungers /\ difficulty # "peaceful" BY DEF HungryTick
<1>2. /\ Worn(exhaustion).hunger = hunger /\ Worn(exhaustion).saturation = saturation
      /\ Worn(exhaustion).exhaustion = exhaustion
  BY WornIsNothing
<1>3. Min2(0, saturation) = 0 /\ saturation - 0 = saturation BY DEF SurvivalType, Min2
<1>4. Clamp(hunger - (0 - 0), MaxFoodLevel) = hunger
  BY SurvivalAssumption DEF SurvivalType, Clamp, Min2
<1>5. HurtNow <=> (health < MaxHealth /\ hunger >= RegenFood) BY <1>1 DEF HurtNow
<1>6. EmptyNow <=> (hunger = 0 /\ health > Floor) BY <1>1 DEF EmptyNow
<1>7. ~(health < MaxHealth /\ hunger >= RegenFood /\ Left(regen, RegenTicks) = 0)
  BY <1>5 DEF Heals
<1>8. UNCHANGED <<exhaustion, saturation, hunger, difficulty>>
  <2>1. difficulty' = difficulty BY DEF HungryTick, DieOf
  <2> QED BY <1>2, <1>3, <1>4, <1>7, <2>1 DEF HungryTick
<1>9. IF Starves /\ health = 1 THEN DieOf("starvation")
      ELSE /\ health' = IF Starves THEN health - 1 ELSE health
           /\ regen' = IF HurtNow THEN Left(regen, RegenTicks) ELSE 0
           /\ starve' = IF EmptyNow THEN IF Starves THEN StarveTicks ELSE Left(starve, StarveTicks)
                        ELSE 0
           /\ lately' = Observed(IF Starves THEN "starvation" ELSE "none")
           /\ UNCHANGED saved
  BY <1>1, <1>2, <1>3, <1>4, <1>5, <1>6, <1>7 DEF HungryTick, Starves
<1> QED BY <1>8, <1>9 DEF Starves

\* Both timers after a tick that does not kill.
LEMMA TimersAfterTick ==
    ASSUME SurvivalInv, difficulty # "peaceful", UNCHANGED difficulty,
           NEW cause \in {"none", "regen", "starvation"}, lately' = Observed(cause),
           \/ regen' = 0
           \/ HurtNow /\ regen' = RegenTicks
           \/ HurtNow /\ regen' = Left(regen, RegenTicks),
           \/ starve' = 0
           \/ EmptyNow /\ starve' = StarveTicks
           \/ EmptyNow /\ starve' = Left(starve, StarveTicks)
    PROVE  TimersCounted' /\ regen' \in Nat /\ starve' \in Nat
<1>1. SurvivalType /\ TimersCounted BY DEF SurvivalInv
<1>2. HealInterval = RegenTicks /\ HealInterval' = RegenTicks BY DEF HealInterval
<1>3. /\ RegenTicks \in Nat \ {0} /\ StarveTicks \in Nat \ {0}
      /\ Longest \in Nat /\ Longest >= RegenTicks /\ Longest >= StarveTicks
  BY SurvivalAssumption, LongestIsLong
<1>4. HurtNow => lately'.hurtFor = Min2(Longest, lately.hurtFor + 1) BY <1>1, ObservedCounts
<1>5. EmptyNow => lately'.emptyFor = Min2(Longest, lately.emptyFor + 1) BY <1>1, ObservedCounts
<1>6. regen \in Nat /\ starve \in Nat
      /\ lately.hurtFor \in 0..Longest /\ lately.emptyFor \in 0..Longest
  BY <1>1 DEF SurvivalType
<1>7. regen # 0 => regen \in 1..RegenTicks /\ lately.hurtFor >= RegenTicks + 1 - regen
  BY <1>1, <1>2 DEF TimersCounted
<1>8. starve # 0 => starve \in 1..StarveTicks /\ lately.emptyFor >= StarveTicks + 1 - starve
  BY <1>1 DEF TimersCounted
<1>9. regen' \in Nat /\ (regen' # 0 => regen' \in 1..RegenTicks
                                       /\ lately'.hurtFor >= RegenTicks + 1 - regen')
  <2>1. CASE regen' = 0 BY <2>1
  <2>2. CASE HurtNow /\ regen' = RegenTicks BY <1>3, <1>4, <1>6, <2>2 DEF Min2
  <2>3. CASE HurtNow /\ regen' = Left(regen, RegenTicks)
    BY <1>3, <1>4, <1>6, <1>7, <2>3 DEF Left, Min2
  <2> QED BY <2>1, <2>2, <2>3
<1>10. starve' \in Nat /\ (starve' # 0 => starve' \in 1..StarveTicks
                                          /\ lately'.emptyFor >= StarveTicks + 1 - starve')
  <2>1. CASE starve' = 0 BY <2>1
  <2>2. CASE EmptyNow /\ starve' = StarveTicks BY <1>3, <1>5, <1>6, <2>2 DEF Min2
  <2>3. CASE EmptyNow /\ starve' = Left(starve, StarveTicks)
    BY <1>3, <1>5, <1>6, <1>8, <2>3 DEF Left, Min2
  <2> QED BY <2>1, <2>2, <2>3
<1> QED BY <1>2, <1>9, <1>10 DEF TimersCounted

LEMMA HungryKeeps == ASSUME SurvivalInv, HungryTick PROVE SurvivalInv'
<1>1. SurvivalType /\ difficulty # "peaceful" BY DEF SurvivalInv, HungryTick
<1>2. CASE Heals
  <2>1. /\ health' = health + 1 /\ regen' = RegenTicks /\ starve' = 0
        /\ lately' = Observed("regen")
        /\ exhaustion' \in 0..1 /\ saturation' \in Nat /\ hunger' \in 0..MaxFoodLevel
        /\ UNCHANGED <<difficulty, saved>>
    BY <1>1, <1>2, HealingTick
  <2>2. HurtNow /\ health < MaxHealth BY <1>2 DEF Heals, HurtNow
  <2>3. health' \in 0..MaxHealth BY <1>1, <2>1, <2>2, SurvivalAssumption DEF SurvivalType
  <2>4. TimersCounted' /\ regen' \in Nat /\ starve' \in Nat
    BY <1>1, <2>1, <2>2, TimersAfterTick
  <2>5. SurvivalType' BY <1>1, <2>1, <2>3, <2>4, ObservedCounts DEF SurvivalType
  <2> QED BY <2>4, <2>5 DEF SurvivalInv
<1>3. CASE ~Heals
  <2>1. UNCHANGED <<exhaustion, saturation, hunger, difficulty>> BY <1>1, <1>3, OtherTick
  <2>2. CASE DieOf("starvation")
    BY <1>1, <2>1, <2>2, DyingKeeps DEF SurvivalType
  <2>3. CASE ~DieOf("starvation")
    <3>1. PICK cause \in {"none", "starvation"} :
            /\ lately' = Observed(cause)
            /\ health' = health \/ (Starves /\ health # 1 /\ health' = health - 1)
            /\ regen' = IF HurtNow THEN Left(regen, RegenTicks) ELSE 0
            /\ starve' = 0 \/ (EmptyNow /\ starve' \in {StarveTicks, Left(starve, StarveTicks)})
            /\ saved' = saved
      BY <1>1, <1>3, <2>3, OtherTick DEF Starves
    <3>2. Starves => health # 0
      <4>1. Floor \in 0..MaxHealth
        BY <1>1, SurvivalAssumption DEF Floor, SurvivalType, Difficulty
      <4> QED BY <1>1, <4>1 DEF Starves, EmptyNow, SurvivalType
    <3>3. health' \in 0..MaxHealth
      BY <1>1, <3>1, <3>2, SurvivalAssumption DEF SurvivalType
    <3>4. TimersCounted' /\ regen' \in Nat /\ starve' \in Nat
      BY <1>1, <2>1, <3>1, TimersAfterTick
    <3>5. SurvivalType'
      BY <1>1, <2>1, <3>1, <3>3, <3>4, ObservedCounts DEF SurvivalType
    <3> QED BY <3>4, <3>5 DEF SurvivalInv
  <2> QED BY <2>2, <2>3
<1> QED BY <1>2, <1>3

LEMMA SurvivalStepKeeps ==
    ASSUME SurvivalInv, Filed, [SurvivalNext]_survivalVars
    PROVE  SurvivalInv'
<1>1. CASE UNCHANGED survivalVars
  BY <1>1 DEF survivalVars, SurvivalInv, SurvivalType, TimersCounted, HealInterval
<1> QED
  BY <1>1, ExertKeeps, CommandsKeep, FeedingKeeps, ReturnsKeep, IdleKeeps, PeacefulKeeps, HungryKeeps
  DEF SurvivalNext

\* What a step leaves in the file: what it held, or the player before or after it.
LEMMA FileStep ==
    ASSUME SurvivalInv, [SurvivalNext]_survivalVars
    PROVE  saved' = saved \/ saved' = Kept \/ saved' = Kept'
<1>1. HungryTick => DieOf("starvation") \/ saved' = saved BY DEF HungryTick
<1>2. CASE UNCHANGED survivalVars BY <1>2 DEF survivalVars
<1> QED
  BY <1>1, <1>2
  DEF SurvivalNext, Exert, Save, ChangeGameMode, Revive, Rejoin, CrashJoin, LoadedFrom, Damage,
      SetHealth, SetHunger, SetSaturation, SetExhaustion, Eat, SetDifficulty, IdleTick,
      PeacefulTick, DieOf

LEMMA FileKeeps ==
    ASSUME SurvivalInv, SurvivalInv', Filed, [SurvivalNext]_survivalVars
    PROVE  Filed'
<1>1. Kept \in [health : 0..MaxHealth, hunger : 0..MaxFoodLevel, saturation : Nat, exhaustion : 0..1]
  BY DEF Kept, SurvivalInv, SurvivalType
<1>2. Kept' \in [health : 0..MaxHealth, hunger : 0..MaxFoodLevel, saturation : Nat, exhaustion : 0..1]
  BY DEF Kept, SurvivalInv, SurvivalType
<1> QED BY <1>1, <1>2, FileStep DEF Filed
-----------------------------------------------------------------------------
HeartEarned ==
    /\ lately'.cause = "regen" /\ health' > health =>
           lately.hurtFor >= (IF difficulty = "peaceful" THEN PeacefulTicks ELSE RegenTicks)
    /\ lately'.cause = "starvation" /\ health' < health =>
           /\ lately.emptyFor >= StarveTicks
           /\ health' = 0 => difficulty = "hard"

\* A timer that acts in this tick has counted its whole interval.
LEMMA DueIsCounted ==
    ASSUME SurvivalInv
    PROVE  /\ Left(regen, HealInterval) = 0 => lately.hurtFor >= HealInterval
           /\ Left(starve, StarveTicks) = 0 => lately.emptyFor >= StarveTicks
BY SurvivalAssumption, IntervalIsNat
   DEF SurvivalInv, SurvivalType, TimersCounted, Left

LEMMA OnlyTicksTellHearts ==
    ASSUME SurvivalInv, Filed, SurvivalNext, ~PeacefulTick, ~HungryTick
    PROVE  HeartEarned
<1>1. /\ health' \in 0..MaxHealth /\ health \in 0..MaxHealth
  BY SurvivalStepKeeps DEF SurvivalInv, SurvivalType
<1>2. lately \in [hurtFor : 0..Longest, emptyFor : 0..Longest,
                  cause : {"none", "hit", "command", "regen", "starvation"}]
  BY DEF SurvivalInv, SurvivalType
<1>3. \/ health' = health
      \/ lately' = [lately EXCEPT !.cause = "hit"]
      \/ lately' = [lately EXCEPT !.cause = "command"]
      \/ lately' = Fresh
  BY DEF SurvivalNext, Exert, Save, ChangeGameMode, Revive, Rejoin, CrashJoin, LoadedFrom, Damage,
         SetHealth, SetHunger, SetSaturation, SetExhaustion, Eat, SetDifficulty, IdleTick, DieOf
<1>4. health' = health \/ lately'.cause \in {"hit", "command", "none"}
  BY <1>2, <1>3 DEF Fresh
<1> QED BY <1>1, <1>4 DEF HeartEarned

LEMMA PeacefulHeart == ASSUME SurvivalInv, PeacefulTick PROVE HeartEarned
<1>1. SurvivalType BY DEF SurvivalInv
<1>2. difficulty = "peaceful" /\ HealInterval = PeacefulTicks BY DEF PeacefulTick, HealInterval
<1>3. health \in Nat BY <1>1, SurvivalAssumption DEF SurvivalType
<1>4. CASE health' = health BY <1>3, <1>4 DEF HeartEarned
<1>5. CASE Left(regen, PeacefulTicks) = 0 /\ health' = health + 1
  BY <1>2, <1>3, <1>5, DueIsCounted DEF HeartEarned
<1> QED BY <1>4, <1>5 DEF PeacefulTick

LEMMA HungryHeart == ASSUME SurvivalInv, HungryTick PROVE HeartEarned
<1>1. SurvivalType /\ difficulty # "peaceful" /\ HealInterval = RegenTicks
  BY DEF SurvivalInv, HungryTick, HealInterval
<1>2. health \in Nat BY <1>1, SurvivalAssumption DEF SurvivalType
<1>3. CASE Heals
  <2>1. health' = health + 1 BY <1>1, <1>3, HealingTick
  <2>2. lately.hurtFor >= RegenTicks BY <1>1, <1>3, DueIsCounted DEF Heals
  <2> QED BY <1>1, <1>2, <2>1, <2>2 DEF HeartEarned
<1>4. CASE ~Heals
  <2>1. CASE Starves
    <3>1. lately.emptyFor >= StarveTicks BY <2>1, DueIsCounted DEF Starves
    <3>2. health' \in Int /\ health' < health /\ (health' = 0 => health = 1)
      <4>1. (health' = 0 /\ health = 1) \/ (health # 1 /\ health' = health - 1)
        BY <1>1, <1>4, <2>1, OtherTick DEF DieOf
      <4> QED BY <1>2, <4>1
    <3>3. health = 1 => difficulty = "hard"
      BY <1>1, <2>1, SurvivalAssumption
      DEF Starves, EmptyNow, Floor, SurvivalType, Difficulty
    <3> QED BY <1>2, <3>1, <3>2, <3>3 DEF HeartEarned
  <2>2. CASE ~Starves
    <3>1. health' = health BY <1>1, <1>4, <2>2, OtherTick
    <3> QED BY <1>2, <3>1 DEF HeartEarned
  <2> QED BY <2>1, <2>2
<1> QED BY <1>3, <1>4
-----------------------------------------------------------------------------
\* The timers always agree with what the history has counted.
THEOREM SurvivalCorrect == SurvivalSpec => [](SurvivalInv /\ Filed)
<1>1. SurvivalInit => SurvivalInv /\ Filed
  <2> SUFFICES ASSUME SurvivalInit PROVE SurvivalInv /\ Filed OBVIOUS
  <2>1. SurvivalInv BY SurvivalInitHolds
  <2>2. Filed BY <2>1 DEF SurvivalInit, Kept, Filed, SurvivalInv, SurvivalType
  <2> QED BY <2>1, <2>2
<1>2. (SurvivalInv /\ Filed) /\ [SurvivalNext]_survivalVars => (SurvivalInv /\ Filed)'
  BY SurvivalStepKeeps, FileKeeps
<1> QED BY <1>1, <1>2, PTL DEF SurvivalSpec

\* Every heart is earned (HeartsEarned), for all levels and intervals.
THEOREM HeartsEarnedCorrect == SurvivalSpec => HeartsEarned
<1>1. (SurvivalInv /\ Filed) /\ [SurvivalNext]_survivalVars => [HeartEarned]_survivalVars
  BY OnlyTicksTellHearts, PeacefulHeart, HungryHeart
<1>2. HeartsEarned <=> [][HeartEarned]_survivalVars BY DEF HeartsEarned, HeartEarned
<1> QED BY <1>1, <1>2, SurvivalCorrect, PTL DEF SurvivalSpec

-----------------------------------------------------------------------------
(***************************************************************************)
(* Chests.  Whoever's turn it is to hold the contents, the file or the     *)
(* store, the other one does not contradict it.                            *)
(***************************************************************************)

\* An open window, and the shape of the state.
Opened == [open : BOOLEAN, dirty : BOOLEAN, goods : Nat]
ChestsShape ==
    /\ loaded \in {"absent", "loading", "ready"} /\ here \in Blocks
    /\ unsaved \in BOOLEAN /\ late \in Blocks \cup {"none"}
    /\ onDisk \in [block : Blocks, goods : Nat \cup {NoEntity}]
    /\ entity \in Nat \cup {NoEntity}
    /\ window \in Opened \cup {Shut}
    /\ window.dirty => window \in Opened /\ window.open
    /\ window.open => window \in Opened
    /\ goods \in Nat /\ ground \in Nat
    /\ worker \in {"none", "decoding", "done"} /\ elsewhere \in BOOLEAN /\ overlap \in BOOLEAN

\* The file agrees with the store, and a chunk that is decoded is not ready.
FileHas ==
    /\ worker # "none" => loaded = "loading"
    /\ loaded = "ready" => late = "none"
    /\ FileAgrees

\* The inductive invariant.
ChestsInv == ChestsShape /\ FileHas

\* In the beginning nothing is loaded and nothing is saved.
LEMMA ChestsBegin == ASSUME ChestsInit PROVE ChestsInv
<1>1. PICK filed \in 0..Total \cup {NoEntity} :
        onDisk = [block |-> "chest", goods |-> filed] /\ goods = Total - Count(filed)
  BY DEF ChestsInit
<1>2. /\ loaded = "absent" /\ here = "air" /\ unsaved = FALSE /\ late = "none" /\ entity = NoEntity
      /\ window = Shut /\ closing = FALSE /\ ground = 0
      /\ worker = "none" /\ elsewhere = FALSE /\ overlap = FALSE
  BY DEF ChestsInit
<1>3. goods \in Nat /\ filed \in Nat \cup {NoEntity}
  BY <1>1, ChestsAssumption DEF Count
<1>4. ChestsShape
  BY <1>1, <1>2, <1>3 DEF ChestsShape, Blocks, Shut
<1>5. FileHas
  BY <1>1, <1>2 DEF FileHas, FileAgrees, Count
<1> QED BY <1>4, <1>5 DEF ChestsInv

USE DEF LostPut, LostDecode, Reappears, GivenUp, Outlived, NotFlushed, Blind, Outdated

-----------------------------------------------------------------------------
(* A copy that is put, or cannot be.                                       *)

\* What a flush writes.
LEMMA FileWritten ==
    ASSUME NEW ok \in BOOLEAN, NEW kind \in Blocks, Writes(ok, kind), ChestsInv,
           entity' \in Nat \cup {NoEntity}
    PROVE  /\ onDisk' \in [block : Blocks, goods : Nat \cup {NoEntity}] /\ unsaved' = ~ok
           /\ ok => onDisk'.block = kind /\ onDisk'.goods \in {NoEntity, entity'}
           /\ ok /\ onDisk'.goods # NoEntity => kind = "chest"
           /\ ok /\ ~elsewhere /\ kind = "chest" => onDisk'.goods = entity'
           /\ ~ok => onDisk' = onDisk
BY ChestsAssumption DEF Writes, Encoded, ChestsInv, ChestsShape, Blocks

\* With the put and the flush the file agrees with the store, also when
\* either lost to the other thread.
LEMMA PutAgrees ==
    ASSUME ChestsInv, NEW n \in Nat, NEW ok \in BOOLEAN, Puts(n, ok), UNCHANGED <<here, late, worker, elsewhere>>
    PROVE  /\ FileHas' /\ loaded' = "ready" /\ unsaved' \in BOOLEAN
           /\ onDisk' \in [block : Blocks, goods : Nat \cup {NoEntity}]
           /\ entity' \in Nat \cup {NoEntity}
           /\ There = "chest" /\ There' = "chest" /\ Held = Count(entity) /\ Held' = Count(entity')
           /\ elsewhere \/ entity' = n
           /\ overlap' \in BOOLEAN
<1>1. /\ loaded = "ready" /\ here = "chest" /\ Stores(n) /\ Writes(ok, here) /\ loaded' = "ready"
      /\ here \in Blocks
  BY DEF Puts, Blocks
<1>2. entity' \in Nat \cup {NoEntity} /\ (elsewhere \/ entity' = n) /\ overlap' \in BOOLEAN
  BY <1>1 DEF Stores, ChestsInv, ChestsShape
<1>3. FileHas'
  BY <1>1, <1>2, FileWritten DEF ChestsInv, ChestsShape, FileHas, FileAgrees
<1> QED BY <1>1, <1>2, <1>3, FileWritten DEF Held, There

\* A copy that cannot be put changes nothing of what is held.
LEMMA NothingPut ==
    ASSUME ChestsInv, PutsNothing, UNCHANGED <<here, late, worker, elsewhere>>
    PROVE  /\ FileHas' /\ loaded' \in {"absent", "loading", "ready"} /\ unsaved' \in BOOLEAN
           /\ There' = There /\ Held' = Held /\ UNCHANGED <<onDisk, entity, overlap>>
           /\ loaded = "ready" => loaded' = "ready" /\ There # "chest"
BY ChestsAssumption
   DEF ChestsInv, ChestsShape, FileHas, FileAgrees, PutsNothing, Asked, Blocks, Held, There

-----------------------------------------------------------------------------
(* The viewer's steps.                                                     *)

\* Opening makes an entity of nothing at most.
LEMMA OpenChestKeeps == ASSUME ChestsInv, OpenChest PROVE ChestsInv' /\ ContentsStep
<1>1. /\ ~window.open /\ loaded = "ready" /\ here = "chest" /\ window' = Shown(Count(entity), FALSE)
      /\ UNCHANGED <<loaded, here, unsaved, late, onDisk, closing, goods, ground, worker, elsewhere>>
  BY DEF OpenChest
<1>2. /\ entity' \in Nat \cup {NoEntity} /\ overlap' \in BOOLEAN /\ Count(entity') = Count(entity)
      /\ Count(entity) \in Nat
      /\ entity' = entity \/ Count(entity') = 0
  <2>1. entity \in Nat \cup {NoEntity} /\ overlap \in BOOLEAN /\ (worker = "decoding") \in BOOLEAN
    BY DEF ChestsInv, ChestsShape
  <2>2. CASE entity = NoEntity
    <3>1. entity' \in {0, entity} /\ overlap' = (overlap \/ worker = "decoding")
      BY <2>2 DEF OpenChest, Stores
    <3> QED BY <2>1, <2>2, <3>1, ChestsAssumption DEF Count
  <2>3. CASE entity # NoEntity
    BY <2>1, <2>3 DEF OpenChest, Count
  <2> QED BY <2>2, <2>3
<1>3. ChestsShape'
  BY <1>1, <1>2 DEF ChestsInv, ChestsShape, Shown, Opened
<1>4. FileHas'
  BY <1>1, <1>2 DEF ChestsInv, FileHas, FileAgrees
<1>5. ~window.dirty /\ ~window'.dirty
  BY <1>1 DEF ChestsInv, ChestsShape, Shown
<1>6. Held' = Held
  BY <1>1, <1>2 DEF Held, There
<1>7. Goods' = Goods
  BY <1>1, <1>5, <1>6 DEF Goods
<1> QED BY <1>3, <1>4, <1>7 DEF ChestsInv, ContentsStep

\* A click moves goods between the copy and the viewer.
LEMMA ClickChestKeeps ==
    ASSUME ChestsInv, NEW n \in 0..Total, NEW ok \in BOOLEAN, ClickChest(n, ok)
    PROVE  ChestsInv' /\ ContentsStep
<1>1. /\ n \in Nat /\ window \in Opened /\ window.open /\ goods \in Nat /\ ground \in Nat
      /\ goods' = goods + window.goods - n /\ n <= window.goods + goods /\ n # window.goods
      /\ UNCHANGED <<here, late, ground, worker, elsewhere>>
  BY ChestsAssumption DEF ClickChest, ChestsInv, ChestsShape
<1>2. goods' \in Nat /\ window.goods \in Nat BY <1>1 DEF Opened
<1>3. CASE Puts(n, ok) /\ window' = Shown(n, ~ok) /\ closing' = ~ok
  <2>1. ChestsInv'
    BY <1>1, <1>2, <1>3, PutAgrees DEF ChestsInv, ChestsShape, Shown, Opened
  <2>0. window' # window BY <1>1, <1>3 DEF Shown
  <2>2. CASE elsewhere /\ entity' = entity
    BY <2>0, <2>1, <2>2 DEF ContentsStep
  <2>3. CASE ~window.dirty /\ window.goods # Held
    BY <1>1, <2>0, <2>1, <2>3 DEF ContentsStep
  <2>4. CASE entity' = n /\ (window.dirty \/ window.goods = Held)
    <3>1. Count(entity') = n BY <1>1, <2>4, ChestsAssumption DEF Count
    <3>2. Held' = Count(entity') BY <1>1, <1>3, PutAgrees
    <3>3. Goods = goods + ground + window.goods BY <2>4 DEF Goods
    <3>4. Goods' = goods' + ground' + n
      BY <1>3, <3>1, <3>2 DEF Goods, Shown
    <3> QED BY <1>1, <1>2, <2>1, <3>3, <3>4 DEF ContentsStep
  <2>5. entity' = n \/ (elsewhere /\ entity' = entity)
    BY <1>3 DEF Puts, Stores
  <2> QED BY <2>2, <2>3, <2>4, <2>5
<1>4. CASE PutsNothing /\ window' = Shown(n, TRUE) /\ closing' = (loaded # "ready")
  <2>1. ChestsInv'
    BY <1>1, <1>2, <1>4, NothingPut DEF ChestsInv, ChestsShape, Shown, Opened
  <2>2. Goods' = goods' + ground' + n BY <1>4 DEF Goods, Shown
  <2>3. CASE window.dirty \/ window.goods = Held
    <3>1. Goods = goods + ground + window.goods BY <2>3 DEF Goods
    <3> QED BY <1>1, <1>2, <2>1, <2>2, <3>1 DEF ContentsStep
  <2>4. CASE ~window.dirty /\ window.goods # Held
    <3>1. window' # window BY <1>4, <2>4 DEF Shown
    <3> QED BY <1>1, <2>1, <2>4, <3>1 DEF ContentsStep
  <2> QED BY <2>3, <2>4
<1> QED BY <1>3, <1>4 DEF ClickChest

\* A dirty copy that is put and closed stays where it was put, or was lost.
LEMMA PutAndClosed ==
    ASSUME ChestsInv, window.dirty, NEW ok \in BOOLEAN, Puts(window.goods, ok), window' = Shut,
           UNCHANGED <<here, late, goods, ground, worker, elsewhere>>
    PROVE  ContentsStep
<1>1. window.goods \in Nat /\ ~window'.dirty /\ window' # window
  BY DEF ChestsInv, ChestsShape, Opened, Shut
<1>2. entity' = window.goods \/ (elsewhere /\ entity' = entity)
  BY DEF Puts, Stores
<1>3. CASE elsewhere /\ entity' = entity
  BY <1>1, <1>3 DEF ContentsStep
<1>4. CASE entity' = window.goods
  <2>1. Count(entity') = window.goods BY <1>1, <1>4, ChestsAssumption DEF Count
  <2>2. Held' = Count(entity') BY <1>1, PutAgrees
  <2>3. Goods' = Goods BY <1>1, <2>1, <2>2 DEF Goods
  <2> QED BY <2>3 DEF ContentsStep
<1> QED BY <1>2, <1>3, <1>4

\* A dirty copy is put or kept, or the player leaves with it.
LEMMA CloseChestKeeps ==
    ASSUME ChestsInv, NEW ok \in BOOLEAN, CloseChest(ok)
    PROVE  ChestsInv' /\ ContentsStep
<1>1. /\ window \in Opened /\ window.open /\ window.goods \in Nat /\ window.dirty \in BOOLEAN
      /\ goods \in Nat /\ ground \in Nat
      /\ UNCHANGED <<here, late, goods, ground, worker, elsewhere>>
  BY DEF CloseChest, ChestsInv, ChestsShape, Opened
<1>2. CASE /\ ~window.dirty /\ Asked /\ window' = Shut
           /\ UNCHANGED <<unsaved, onDisk, entity, overlap, closing>>
  <2>1. loaded' \in {"absent", "loading", "ready"} /\ (loaded' = "ready" <=> loaded = "ready")
        /\ (loaded = "loading" => loaded' = "loading")
    BY <1>2 DEF Asked, ChestsInv, ChestsShape
  <2>2. ChestsShape' BY <1>1, <1>2, <2>1 DEF ChestsInv, ChestsShape, Shut
  <2>3. FileHas' BY <1>1, <1>2, <2>1 DEF ChestsInv, FileHas, FileAgrees
  <2>4. Held' = Held BY <1>1, <1>2, <2>1 DEF Held, There
  <2>5. Goods' = Goods BY <1>1, <1>2, <2>4 DEF Goods, Shut
  <2> QED BY <2>2, <2>3, <2>5 DEF ChestsInv, ContentsStep
<1>3. CASE /\ window.dirty /\ Puts(window.goods, ok)
           /\ window' = (IF ok THEN Shut ELSE window) /\ closing' = ~ok
  <2>1. ChestsInv'
    BY <1>1, <1>3, PutAgrees DEF ChestsInv, ChestsShape, Shut
  <2>2. CASE ok BY <1>1, <1>3, <2>1, <2>2, PutAndClosed
  <2>3. CASE ~ok BY <1>1, <1>3, <2>1, <2>3 DEF ContentsStep, Goods
  <2> QED BY <2>2, <2>3
<1>4. CASE /\ window.dirty /\ PutsNothing
           /\ window' = (IF loaded = "ready" THEN Shut ELSE window)
           /\ closing' = (loaded # "ready")
  <2>1. ChestsInv'
    BY <1>1, <1>4, NothingPut DEF ChestsInv, ChestsShape, Shut
  <2>2. CASE loaded = "ready"
    <3>1. here # "chest" BY <1>4, <2>2 DEF PutsNothing
    <3> QED BY <1>1, <1>4, <2>1, <2>2, <3>1 DEF ContentsStep, Shut
  <2>3. CASE loaded # "ready" BY <1>1, <1>4, <2>1, <2>3 DEF ContentsStep, Goods
  <2> QED BY <2>2, <2>3
<1> QED BY <1>2, <1>3, <1>4 DEF CloseChest

\* The cleanup closes the window whatever it had.
LEMMA CleansUpKeeps ==
    ASSUME ChestsInv, NEW ok \in BOOLEAN, CleansUp(ok)
    PROVE  ChestsInv' /\ ContentsStep
<1>1. /\ goods \in Nat /\ ground \in Nat /\ window' = Shut
      /\ UNCHANGED <<here, late, goods, ground, worker, elsewhere>>
  BY DEF CleansUp, ChestsInv, ChestsShape
<1>2. CASE window.dirty
  <2>1. window.goods \in Nat BY <1>2 DEF ChestsInv, ChestsShape, Opened
  <2>3. CASE Puts(window.goods, ok)
    <3>1. ChestsInv' BY <1>1, <2>1, <2>3, PutAgrees DEF ChestsInv, ChestsShape, Shut
    <3> QED BY <1>1, <1>2, <2>3, <3>1, PutAndClosed
  <2>4. CASE PutsNothing
    <3>1. ChestsInv' BY <1>1, <2>4, NothingPut DEF ChestsInv, ChestsShape, Shut
    <3>2. loaded # "ready" \/ here # "chest" BY <2>4 DEF PutsNothing
    <3> QED BY <1>1, <1>2, <3>1, <3>2 DEF ContentsStep, Shut
  <2> QED BY <1>2, <2>3, <2>4 DEF CleansUp
<1>3. CASE ~window.dirty
  <2>1. UNCHANGED <<loaded, unsaved, onDisk, entity, overlap>> BY <1>3 DEF CleansUp
  <2> QED BY <1>1, <1>3, <2>1 DEF ChestsInv, ChestsShape, FileHas, FileAgrees, Shut, ContentsStep, Goods, Held, There
<1> QED BY <1>2, <1>3

\* What lies around is picked up; the viewer may go.
LEMMA PicksUpKeeps == ASSUME ChestsInv, PicksUp \/ Hangs PROVE ChestsInv' /\ ContentsStep
BY DEF ChestsInv, ChestsShape, FileHas, FileAgrees, PicksUp, Hangs, ContentsStep, Goods, Held, There, Count, Opened, Shut

-----------------------------------------------------------------------------
(* The steps of others, of the chunk and of its worker.                    *)

\* What a broken chest had falls, if the flush succeeds.
LEMMA BreakBlockKeeps ==
    ASSUME ChestsInv, NEW ok \in BOOLEAN, BreakBlock(ok)
    PROVE  ChestsInv' /\ ContentsStep
<1>1. /\ loaded = "ready" /\ here # "air" /\ here' = "air" /\ Writes(ok, "air") /\ Stores(NoEntity)
      /\ UNCHANGED <<loaded, late, closing, goods, worker, elsewhere>>
      /\ ground' = IF here = "chest" /\ ok THEN ground + Falls(Count(entity)) ELSE ground
      /\ window' = IF here = "chest" /\ window.open /\ ~closing THEN Shut ELSE window
      /\ "air" \in Blocks
  BY DEF BreakBlock, Blocks
<1>2. entity' \in Nat \cup {NoEntity} /\ (elsewhere \/ entity' = NoEntity) /\ overlap' \in BOOLEAN
  BY <1>1 DEF Stores, ChestsInv, ChestsShape
<1>3. Count(entity) \in Nat /\ Falls(Count(entity)) \in Nat /\ ground' \in Nat
  BY <1>1 DEF Count, Falls, ChestsInv, ChestsShape, Opened
<1>4. FileHas' BY <1>1, <1>2, FileWritten DEF ChestsInv, ChestsShape, FileHas, FileAgrees
<1>5. ChestsShape' BY <1>1, <1>2, <1>3, FileWritten DEF ChestsInv, ChestsShape, Shut
<1>6. Held' = 0 BY <1>1 DEF Held, There
<1>7. CASE here = "chest" /\ ok
  <2>1. Held = Count(entity) BY <1>1, <1>7 DEF Held, There
  <2>2. CASE window.dirty /\ ~closing
    <3>1. window.open /\ window.goods \in Nat BY <2>2 DEF ChestsInv, ChestsShape, Opened
    <3>2. Falls(Count(entity)) = window.goods BY <2>2, <3>1 DEF Falls
    <3>3. ~window'.dirty BY <1>1, <1>7, <2>2, <3>1 DEF Shut
    <3>4. ground' = ground + window.goods BY <1>1, <1>7, <3>2
    <3>5. goods \in Nat /\ ground \in Nat BY DEF ChestsInv, ChestsShape
    <3>6. Goods' = Goods BY <1>1, <1>6, <2>2, <3>1, <3>3, <3>4, <3>5 DEF Goods
    <3> QED BY <1>4, <1>5, <3>6 DEF ChestsInv, ContentsStep
  <2>3. CASE window.dirty /\ closing
    <3>1. There = "chest" /\ There' = "air" BY <1>1, <1>7 DEF There
    <3> QED BY <1>1, <1>4, <1>5, <2>3, <3>1 DEF ChestsInv, ContentsStep
  <2>4. CASE ~window.dirty /\ window.open /\ ~closing /\ window.goods # Count(entity)
    <3>1. window' # window BY <1>1, <1>7, <2>4 DEF Shut
    <3> QED BY <1>4, <1>5, <2>1, <2>4, <3>1 DEF ChestsInv, ContentsStep
  <2>5. CASE ~window.dirty /\ ~(window.open /\ ~closing /\ window.goods # Count(entity))
    <3>1. Falls(Count(entity)) = Count(entity) BY <2>5 DEF Falls
    <3>2. ~window'.dirty BY <1>1, <2>5 DEF Shut
    <3>3. Goods = goods + ground + Count(entity) /\ Goods' = goods + ground + Count(entity)
      BY <1>1, <1>3, <1>6, <1>7, <2>1, <2>5, <3>1, <3>2 DEF Goods, ChestsInv, ChestsShape
    <3> QED BY <1>4, <1>5, <3>3 DEF ChestsInv, ContentsStep
  <2> QED BY <2>2, <2>3, <2>4, <2>5
<1>8. CASE here = "chest" /\ ~ok
  BY <1>1, <1>4, <1>5, <1>8, FileWritten, <1>2 DEF ChestsInv, ContentsStep
<1>9. CASE here # "chest"
  <2>1. Held = 0 /\ ground' = ground /\ window' = window BY <1>1, <1>9 DEF Held, There
  <2> QED BY <1>1, <1>4, <1>5, <1>6, <2>1 DEF ChestsInv, Goods, ContentsStep
<1> QED BY <1>7, <1>8, <1>9

\* A new chest is empty.
LEMMA PlaceBlockKeeps ==
    ASSUME ChestsInv, NEW kind \in {"chest", "stone"}, NEW ok \in BOOLEAN, PlaceBlock(kind, ok)
    PROVE  ChestsInv' /\ ContentsStep
<1>1. kind \in Blocks /\ UNCHANGED <<window, closing, goods, ground, worker, elsewhere>>
  BY DEF PlaceBlock, Blocks
<1>2. CASE loaded = "ready"
  <2>1. here = "air" /\ here' = kind /\ UNCHANGED <<loaded, late>>
    BY <1>2 DEF PlaceBlock
  <2>2. Held = 0 BY <1>2, <2>1 DEF Held, There
  <2>3. CASE kind = "stone"
    <3>1. unsaved' = TRUE /\ UNCHANGED <<entity, overlap, onDisk>> BY <1>2, <2>3 DEF PlaceBlock
    <3>2. Held' = 0 BY <1>2, <2>1, <2>3 DEF Held, There
    <3>3. Goods' = Goods BY <1>1, <2>2, <3>2 DEF Goods
    <3> QED BY <1>1, <1>2, <2>1, <3>1, <3>3 DEF ChestsInv, ChestsShape, FileHas, FileAgrees, ContentsStep
  <2>4. CASE kind = "chest"
    <3>1. Stores(0) /\ Writes(ok, kind) BY <1>2, <2>4 DEF PlaceBlock
    <3>2. entity' \in Nat \cup {NoEntity} /\ (elsewhere \/ entity' = 0) /\ overlap' \in BOOLEAN
      BY <3>1 DEF Stores, ChestsInv, ChestsShape
    <3>3. FileHas' BY <1>1, <1>2, <2>1, <2>4, <3>1, <3>2, FileWritten DEF ChestsInv, ChestsShape, FileHas, FileAgrees
    <3>4. ChestsShape' BY <1>1, <1>2, <2>1, <3>1, <3>2, FileWritten DEF ChestsInv, ChestsShape
    <3>7. (elsewhere /\ entity' = entity) \/ entity' = 0 BY <3>1 DEF Stores
    <3>5. CASE elsewhere /\ entity' = entity
      <4>1. here' # here BY <2>1, <2>4
      <4> QED BY <3>3, <3>4, <3>5, <4>1 DEF ChestsInv, ContentsStep
    <3>6. CASE entity' = 0
      <4>1. Held' = 0 BY <1>2, <2>1, <2>4, <3>6 DEF Held, There, Count
      <4>2. Goods' = Goods BY <1>1, <2>2, <4>1 DEF Goods
      <4> QED BY <3>3, <3>4, <4>2 DEF ChestsInv, ContentsStep
    <3> QED BY <3>5, <3>6, <3>7
  <2> QED BY <2>3, <2>4
<1>3. CASE loaded # "ready"
  <2>1. Asked /\ late' = kind /\ UNCHANGED <<here, unsaved, onDisk, entity, overlap>>
    BY <1>3 DEF PlaceBlock
  <2>2. loaded' \in {"absent", "loading"} BY <1>3, <2>1 DEF Asked, ChestsInv, ChestsShape
  <2>3. worker # "none" => loaded' = "loading" BY <1>3, <2>1 DEF Asked, ChestsInv, FileHas, FileAgrees
  <2>4. ChestsInv' BY <1>1, <1>3, <2>1, <2>2, <2>3 DEF ChestsInv, ChestsShape, FileHas, FileAgrees
  <2>5. CASE late = kind
    <3>1. There' = There /\ Held' = Held BY <1>1, <1>3, <2>1, <2>2, <2>5 DEF There, Held
    <3>2. Goods' = Goods BY <1>1, <3>1 DEF Goods
    <3> QED BY <2>4, <3>2 DEF ContentsStep
  <2>6. CASE late # kind BY <2>1, <2>4, <2>6 DEF ContentsStep
  <2> QED BY <2>5, <2>6
<1> QED BY <1>2, <1>3

\* The file gets what the store has.
LEMMA AutosaveKeeps ==
    ASSUME ChestsInv, NEW ok \in BOOLEAN, Autosave(ok)
    PROVE  ChestsInv' /\ ContentsStep
<1>1. /\ loaded = "ready" /\ Writes(ok, here) /\ here \in Blocks
      /\ UNCHANGED <<entity, loaded, here, late, window, closing, goods, ground, worker, elsewhere, overlap>>
  BY DEF Autosave, ChestsInv, ChestsShape
<1>2. entity' \in Nat \cup {NoEntity} BY <1>1 DEF ChestsInv, ChestsShape
<1>3. FileHas' BY <1>1, <1>2, FileWritten DEF ChestsInv, ChestsShape, FileHas, FileAgrees
<1>4. ChestsShape' BY <1>1, <1>2, FileWritten DEF ChestsInv, ChestsShape
<1>5. There' = There /\ Held' = Held BY <1>1 DEF There, Held
<1>6. Goods' = Goods BY <1>1, <1>5 DEF Goods
<1> QED BY <1>3, <1>4, <1>6 DEF ChestsInv, ContentsStep

\* The store keeps what the chunk had, and the load puts the same again.
LEMMA ChunkKeeps ==
    ASSUME ChestsInv,
           EvictChunk \/ AskChunk \/ DecodeBegins \/ DecodeEnds \/ IntegrateChunk \/ UsesStore \/ OtherLoad
    PROVE  ChestsInv' /\ ContentsStep
<1>1. UNCHANGED <<goods, ground, window>>
  BY DEF EvictChunk, AskChunk, DecodeBegins, DecodeEnds, IntegrateChunk, UsesStore, OtherLoad
<1>2. CASE EvictChunk
  <2>1. ChestsInv' BY <1>2 DEF EvictChunk, ChestsInv, ChestsShape, FileHas, FileAgrees, Blocks
  <2>2. CASE onDisk.goods \in {NoEntity, entity}
    <3>1. There' = There
      BY <1>2 DEF EvictChunk, ChestsInv, ChestsShape, FileHas, FileAgrees, There
    <3>2. Held' = Held
      BY <1>2, <2>2, <3>1, ChestsAssumption DEF EvictChunk, ChestsInv, ChestsShape, FileHas, Held, Count
    <3>3. Goods' = Goods BY <1>1, <3>2 DEF Goods
    <3> QED BY <2>1, <3>3 DEF ContentsStep
  <2>3. CASE onDisk.goods \notin {NoEntity, entity}
    BY <1>2, <2>1, <2>3 DEF EvictChunk, ContentsStep
  <2> QED BY <2>2, <2>3
<1>3. CASE AskChunk \/ DecodeBegins \/ UsesStore \/ OtherLoad
  <2>1. ChestsInv'
    BY <1>3 DEF AskChunk, Asked, DecodeBegins, UsesStore, OtherLoad, ChestsInv, ChestsShape, FileHas, FileAgrees
  <2>2. There' = There /\ Held' = Held
    <3>1. UNCHANGED <<here, late, onDisk, entity>> /\ (loaded' = "ready" <=> loaded = "ready")
      BY <1>3 DEF AskChunk, Asked, DecodeBegins, UsesStore, OtherLoad
    <3>2. worker' = "done" <=> worker = "done"
      BY <1>3 DEF AskChunk, DecodeBegins, UsesStore, OtherLoad
    <3> QED BY <3>1, <3>2 DEF There, Held
  <2>3. Goods' = Goods BY <1>1, <2>2 DEF Goods
  <2> QED BY <2>1, <2>3 DEF ContentsStep
<1>4. CASE DecodeEnds
  <2>1. /\ worker = "decoding" /\ worker' = "done" /\ loaded = "loading"
        /\ UNCHANGED <<loaded, here, unsaved, late, onDisk, window, closing, goods, ground, elsewhere, overlap>>
        /\ IF onDisk.goods = NoEntity THEN entity' = entity
           ELSE entity' = onDisk.goods \/ (overlap /\ entity' = entity)
    BY <1>4 DEF DecodeEnds, ChestsInv, FileHas
  <2>2. entity' \in Nat \cup {NoEntity} BY <2>1 DEF ChestsInv, ChestsShape
  <2>3. ChestsShape' BY <2>1, <2>2 DEF ChestsInv, ChestsShape
  <2>4. FileHas' BY <2>1 DEF ChestsInv, FileHas, FileAgrees
  <2>5. There' = There BY <2>1 DEF There
  <2>6. CASE onDisk.goods # NoEntity /\ entity' # onDisk.goods
    BY <2>1, <2>3, <2>4, <2>6 DEF ChestsInv, ContentsStep
  <2>7. CASE onDisk.goods # NoEntity /\ entity' = onDisk.goods
    <3>1. Held' = Held BY <2>1, <2>5, <2>7 DEF Held, Count
    <3>2. Goods' = Goods BY <2>1, <3>1 DEF Goods
    <3> QED BY <2>3, <2>4, <3>2 DEF ChestsInv, ContentsStep
  <2>8. CASE onDisk.goods = NoEntity
    <3>1. Held' = Held BY <2>1, <2>5, <2>8 DEF Held
    <3>2. Goods' = Goods BY <2>1, <3>1 DEF Goods
    <3> QED BY <2>3, <2>4, <3>2 DEF ChestsInv, ContentsStep
  <2> QED BY <2>6, <2>7, <2>8
<1>5. CASE IntegrateChunk
  <2>1. ChestsInv' /\ There' = There /\ Held' = Held
    BY <1>5 DEF IntegrateChunk, ChestsInv, ChestsShape, FileHas, FileAgrees, There, Held, Count, Blocks
  <2>2. Goods' = Goods BY <1>1, <2>1 DEF Goods
  <2> QED BY <2>1, <2>2 DEF ContentsStep
<1> QED BY <1>2, <1>3, <1>4, <1>5

\* Every step.
LEMMA ChestsStepKeeps == ASSUME ChestsInv, [ChestsNext]_chestVars PROVE ChestsInv' /\ [ContentsStep]_chestVars
<1>1. CASE UNCHANGED chestVars
  BY <1>1 DEF chestVars, ChestsInv, ChestsShape, FileHas, FileAgrees
<1> QED
  BY <1>1, OpenChestKeeps, ClickChestKeeps, CloseChestKeeps, CleansUpKeeps, PicksUpKeeps, BreakBlockKeeps,
     PlaceBlockKeeps, AutosaveKeeps, ChunkKeeps
  DEF ChestsNext

\* However many goods there are: the file never contradicts the store, and goods
\* are made or lost only at the steps that ContentsKept names.
THEOREM ContentsKeptCorrect == ChestsSpec => ContentsKept
<1>1. ChestsInit => ChestsInv BY ChestsBegin
<1>2. ChestsInv /\ [ChestsNext]_chestVars => ChestsInv' BY ChestsStepKeeps
<1>3. ChestsInv /\ [ChestsNext]_chestVars => [FileAgrees' /\ ContentsStep]_chestVars
  BY ChestsStepKeeps DEF ChestsInv, FileHas
<1> QED BY <1>1, <1>2, <1>3, PTL DEF ChestsSpec, ContentsKept

-----------------------------------------------------------------------------
(* The hash table with tombs: searching.                                   *)

\* The cells of a table of n cells.
CellsOf(n) == [0 .. (n - 1) -> Key \cup {Gap, Tomb}]

\* A key is where a search for it comes to.
Met(array, k, i) == \E d \in Probed(array, k) : CellAt(array, k, d) = i
Placed(array) == \A i \in DOMAIN array : array[i] \in Key => Met(array, array[i], i)
Once(array) == \A i, j \in DOMAIN array : array[i] \in Key /\ array[i] = array[j] => i = j
HasGap(array) == \E i \in DOMAIN array : array[i] = Gap
KeysIn(array) == {k \in Key : \E i \in DOMAIN array : array[i] = k}
Live(array) == {i \in DOMAIN array : array[i] \in Key}
Dead(array) == {i \in DOMAIN array : array[i] = Tomb}
Sound(array, n) == array \in CellsOf(n) /\ Placed(array) /\ Once(array)
Lays(t, n) == Sound(t.cells, n) /\ t.len = Cardinality(Live(t.cells)) /\ t.tombs = Cardinality(Dead(t.cells))

LEMMA CapIs == ASSUME NEW n \in Nat, NEW array \in CellsOf(n)
               PROVE  CapOf(array) = n /\ DOMAIN array = 0 .. (n - 1)
<1>1. DOMAIN array = 0 .. (n - 1)
  BY DEF CellsOf
<1>2. Cardinality(0 .. (n - 1)) = n
  BY FS_Interval
<1> QED BY <1>1, <1>2 DEF CapOf

LEMMA Around ==
    ASSUME NEW h \in Nat, NEW n \in Nat \ {0}, NEW i \in 0 .. (n - 1)
    PROVE  \E d \in 0 .. (n - 1) : (h + d) % n = i
<1> DEFINE q == h \div n
           r == h % n
<1>1. q \in Nat /\ r \in 0 .. (n - 1) /\ h = n * q + r /\ n * q \in Nat
  OBVIOUS
<1> HIDE DEF q, r
<1>2. CASE r <= i
  <2>1. i - r \in 0 .. (n - 1) /\ h + (i - r) = n * q + i
    BY <1>1, <1>2
  <2>2. (n * q + i) % n = i
    BY <1>1
  <2> QED BY <2>1, <2>2
<1>3. CASE r > i
  <2>1. (n + i) - r \in 0 .. (n - 1) /\ h + ((n + i) - r) = n * q + n + i
    BY <1>1, <1>3
  <2>2. n * (q + 1) = n * q + n
    BY <1>1
  <2>3. (n * (q + 1) + i) % n = i
    BY <1>1
  <2> QED BY <2>1, <2>2, <2>3, <1>1
<1> QED BY <1>1, <1>2, <1>3

LEMMA CellAtIs ==
    ASSUME NEW n \in Nat \ {0}, NEW array \in CellsOf(n), NEW k \in Key
    PROVE  /\ \A d \in Nat : CellAt(array, k, d) \in DOMAIN array
           /\ \A i \in DOMAIN array : \E d \in 0 .. (n - 1) : CellAt(array, k, d) = i
           /\ Probed(array, k)
                = {d \in 0 .. (n - 1) : \A f \in 0 .. d : array[CellAt(array, k, f)] # Gap}
<1>1. CapOf(array) = n /\ DOMAIN array = 0 .. (n - 1) /\ HashOf[k] \in Nat
  BY CapIs, TablesAssumption
<1>2. \A d \in Nat : CellAt(array, k, d) \in 0 .. (n - 1)
  BY <1>1 DEF CellAt
<1>3. \A i \in 0 .. (n - 1) : \E d \in 0 .. (n - 1) : CellAt(array, k, d) = i
  BY <1>1, Around DEF CellAt
<1>4. Probed(array, k) = {d \in 0 .. (n - 1) : \A f \in 0 .. d : array[CellAt(array, k, f)] # Gap}
  BY <1>1 DEF Probed
<1> QED BY <1>1, <1>2, <1>3, <1>4

\* A search looks at cells of the table only.
LEMMA CellAtThere ==
    ASSUME NEW n \in Nat \ {0}, NEW array \in CellsOf(n), NEW k \in Key, NEW d \in Nat
    PROVE  CellAt(array, k, d) \in DOMAIN array
BY CellAtIs

LEMMA HasIs ==
    ASSUME NEW n \in Nat \ {0}, NEW array \in CellsOf(n), Placed(array), NEW k \in Key
    PROVE  Has(array, k) <=> k \in KeysIn(array)
<1>1. ASSUME Has(array, k) PROVE k \in KeysIn(array)
  <2>1. PICK d \in Probed(array, k) : array[CellAt(array, k, d)] = k
    BY <1>1 DEF Has
  <2>2. d \in Nat /\ CellAt(array, k, d) \in DOMAIN array
    BY CellAtIs
  <2> QED BY <2>1, <2>2 DEF KeysIn
<1>2. ASSUME k \in KeysIn(array) PROVE Has(array, k)
  <2>1. PICK i \in DOMAIN array : array[i] = k
    BY <1>2 DEF KeysIn
  <2>2. Met(array, k, i)
    BY <2>1 DEF Placed
  <2> QED BY <2>1, <2>2 DEF Met, Has
<1> QED BY <1>1, <1>2

LEMMA TargetIs ==
    ASSUME NEW n \in Nat \ {0}, NEW array \in CellsOf(n), HasGap(array), NEW k \in Key
    PROVE  \E d \in 0 .. (n - 1) :
              /\ Target(array, k) = CellAt(array, k, d)
              /\ array[CellAt(array, k, d)] \in {Gap, Tomb}
              /\ \A f \in 0 .. (d - 1) : array[CellAt(array, k, f)] # Gap
<1> DEFINE P == Probed(array, k)
           S == {d \in P : array[CellAt(array, k, d)] = Tomb}
           G == {d \in 0 .. (n - 1) : array[CellAt(array, k, d)] = Gap}
<1>1. P = {d \in 0 .. (n - 1) : \A f \in 0 .. d : array[CellAt(array, k, f)] # Gap}
  BY CellAtIs
<1>2. CASE S # {}
  <2>1. S \in SUBSET Nat
    BY <1>1
  <2>2. Min(S) \in S
    BY <1>2, <2>1, MinOfNat
  <2>3. Target(array, k) = CellAt(array, k, Min(S))
    BY <1>2, Zenon DEF Target
  <2> HIDE DEF S
  <2>4. Min(S) \in 0 .. (n - 1) /\ (\A f \in 0 .. Min(S) : array[CellAt(array, k, f)] # Gap)
        /\ array[CellAt(array, k, Min(S))] = Tomb
    BY <1>1, <2>2 DEF S
  <2> QED BY <2>3, <2>4
<1>3. CASE S = {}
  <2>1. Target(array, k) = CellAt(array, k, Cardinality(P))
    BY <1>3, Zenon DEF Target
  <2>2. G # {} /\ G \in SUBSET Nat
    BY CellAtIs DEF HasGap
  <2> DEFINE m == Min(G)
  <2>3. m \in G /\ \A x \in G : m <= x
    BY <2>2, MinOfNat
  <2> HIDE DEF m
  <2>4. m \in 0 .. (n - 1) /\ array[CellAt(array, k, m)] = Gap
        /\ \A f \in 0 .. (m - 1) : array[CellAt(array, k, f)] # Gap
    BY <2>3
  <2>5. P = 0 .. (m - 1)
    BY <1>1, <2>4
  <2>6. Cardinality(P) = m
    BY <2>4, <2>5, FS_Interval
  <2> QED BY <2>1, <2>4, <2>6
<1> QED BY <1>2, <1>3

LEMMA CellCount ==
    ASSUME NEW n \in Nat, NEW array \in CellsOf(n)
    PROVE  /\ IsFiniteSet(DOMAIN array) /\ IsFiniteSet(Live(array)) /\ IsFiniteSet(Dead(array))
           /\ Cardinality(Live(array)) \in Nat /\ Cardinality(Dead(array)) \in Nat
           /\ Cardinality(Live(array)) + Cardinality(Dead(array)) <= n
           /\ Cardinality(Live(array)) + Cardinality(Dead(array)) < n <=> HasGap(array)
<1>1. DOMAIN array = 0 .. (n - 1) /\ Cardinality(0 .. (n - 1)) = n /\ IsFiniteSet(0 .. (n - 1))
  BY CapIs, FS_Interval
<1>2. Live(array) \subseteq DOMAIN array /\ Dead(array) \subseteq DOMAIN array /\ Live(array) \cap Dead(array) = {}
  BY TablesAssumption DEF Live, Dead
<1>3. IsFiniteSet(Live(array)) /\ IsFiniteSet(Dead(array))
  BY <1>1, <1>2, FS_Subset
<1> DEFINE U == Live(array) \cup Dead(array)
<1>4. Cardinality(U) = Cardinality(Live(array)) + Cardinality(Dead(array)) - Cardinality(Live(array) \cap Dead(array))
      /\ IsFiniteSet(U)
  BY <1>3, FS_Union
<1>5. Cardinality({}) = 0 /\ Cardinality(Live(array)) \in Nat /\ Cardinality(Dead(array)) \in Nat
  BY <1>3, FS_CardinalityType, FS_EmptySet
<1>6. U \subseteq DOMAIN array
  BY <1>2
<1>7. Cardinality(U) <= n /\ (Cardinality(U) = n => U = DOMAIN array)
  BY <1>1, <1>6, FS_Subset
<1>8. U = DOMAIN array <=> ~HasGap(array)
  BY TablesAssumption DEF HasGap, Live, Dead, CellsOf
<1>9. Cardinality(U) = Cardinality(Live(array)) + Cardinality(Dead(array))
  <2> DEFINE a == Cardinality(Live(array))
             b == Cardinality(Dead(array))
             z == Cardinality(Live(array) \cap Dead(array))
             u == Cardinality(U)
  <2>1. z = 0
    BY <1>2, <1>5
  <2>2. u = a + b - z /\ a \in Nat /\ b \in Nat
    BY <1>4, <1>5
  <2> HIDE DEF a, b, z, u
  <2>3. u = a + b
    BY <2>1, <2>2
  <2> QED BY <2>3 DEF a, b, u
<1> HIDE DEF U
<1> QED BY <1>1, <1>3, <1>5, <1>7, <1>8, <1>9

-----------------------------------------------------------------------------
(* The hash table with tombs: changing.                                    *)

LEMMA FilledFits ==
    ASSUME NEW n \in Nat \ {0}, NEW t, Lays(t, n), HasGap(t.cells), NEW k \in Key
    PROVE  /\ Lays(Filled(t, k), n)
           /\ KeysIn(Filled(t, k).cells) = KeysIn(t.cells) \cup {k}
           /\ Filled(t, k).len + Filled(t, k).tombs <= t.len + t.tombs + 1
           /\ t.tombs = 0 => Filled(t, k).tombs = 0
<1> DEFINE array == t.cells
           u == Filled(t, k)
<1>1. array \in CellsOf(n) /\ Placed(array) /\ Once(array) /\ DOMAIN array = 0 .. (n - 1)
  BY CapIs DEF Lays, Sound
<1>2. /\ t.len = Cardinality(Live(array)) /\ t.tombs = Cardinality(Dead(array))
      /\ IsFiniteSet(Live(array)) /\ IsFiniteSet(Dead(array)) /\ t.len \in Nat /\ t.tombs \in Nat
  BY <1>1, CellCount DEF Lays
<1>3. CASE Has(array, k)
  <2>1. u = t /\ k \in KeysIn(array)
    BY <1>1, <1>3, HasIs DEF Filled
  <2>2. KeysIn(array) = KeysIn(array) \cup {k}
    BY <2>1
  <2> QED BY <1>2, <2>1, <2>2
<1>4. CASE ~Has(array, k)
  <2> DEFINE at == Target(array, k)
             new == [array EXCEPT ![at] = k]
  <2>1. u = [cells |-> new, len |-> t.len + 1, tombs |-> t.tombs - (IF array[at] = Tomb THEN 1 ELSE 0)]
    BY <1>4 DEF Filled
  <2>2. PICK d \in 0 .. (n - 1) :
              /\ at = CellAt(array, k, d) /\ array[at] \in {Gap, Tomb}
              /\ \A f \in 0 .. (d - 1) : array[CellAt(array, k, f)] # Gap
    BY <1>1, TargetIs
  <2> HIDE DEF array
  <2>3. at \in DOMAIN array
    <3>1. d \in Nat
      OBVIOUS
    <3> QED BY <1>1, <2>2, <3>1, CellAtIs
  <2> HIDE DEF at
  <2>4. /\ new \in CellsOf(n) /\ DOMAIN new = DOMAIN array /\ new[at] = k
        /\ \A i \in DOMAIN array : i # at => new[i] = array[i]
    BY <1>1, <2>3 DEF CellsOf
  <2> HIDE DEF new
  <2>5. k \notin KeysIn(array) /\ array[at] \notin Key /\ k # Gap /\ k # Tomb
    BY <1>1, <1>4, <2>2, HasIs, TablesAssumption
  <2>6. \A i \in DOMAIN array : array[i] # Gap => new[i] # Gap
    BY <2>4, <2>5
  <2>7. \A j \in Key, e \in Nat : CellAt(new, j, e) = CellAt(array, j, e)
    BY <1>1, <2>4, CapIs DEF CellAt
  <2>8. Once(new)
    BY <1>1, <2>4, <2>5 DEF Once, KeysIn
  <2>9. Placed(new)
    <3> SUFFICES ASSUME NEW i \in DOMAIN new, new[i] \in Key PROVE Met(new, new[i], i)
      BY DEF Placed
    <3>1. CASE i = at
      <4>3. d \in Nat
        OBVIOUS
      <4>1. \A f \in 0 .. d : new[CellAt(new, k, f)] # Gap
        <5> SUFFICES ASSUME NEW f \in 0 .. d PROVE new[CellAt(array, k, f)] # Gap
          BY <2>7
        <5>2. f \in Nat
          OBVIOUS
        <5>1. CellAt(array, k, f) \in DOMAIN array
          BY <1>1, <5>2, CellAtThere
        <5> QED BY <2>2, <2>4, <2>5, <2>6, <5>1
      <4>2. d \in Probed(new, k)
        BY <2>4, <4>1, CellAtIs
      <4> QED BY <2>2, <2>4, <2>7, <3>1, <4>2, <4>3 DEF Met
    <3>2. CASE i # at
      <4>1. i \in DOMAIN array /\ new[i] = array[i] /\ array[i] \in Key
        BY <2>4, <3>2
      <4> DEFINE j == array[i]
      <4>6. j \in Key
        BY <4>1
      <4> HIDE DEF j
      <4>2. PICK e \in Probed(array, j) : CellAt(array, j, e) = i
        BY <1>1, <4>1 DEF Placed, Met, j
      <4>3. e \in 0 .. (n - 1) /\ \A f \in 0 .. e : array[CellAt(array, j, f)] # Gap
        <5>1. Probed(array, j)
                = {x \in 0 .. (n - 1) : \A f \in 0 .. x : array[CellAt(array, j, f)] # Gap}
          BY <1>1, <4>6, CellAtIs
        <5> QED BY <4>2, <5>1
      <4>4. \A f \in 0 .. e : new[CellAt(new, j, f)] # Gap
        <5> SUFFICES ASSUME NEW f \in 0 .. e PROVE new[CellAt(array, j, f)] # Gap
          BY <2>7, <4>6
        <5>2. f \in Nat
          OBVIOUS
        <5>1. CellAt(array, j, f) \in DOMAIN array
          BY <1>1, <4>6, <5>2, CellAtThere
        <5> QED BY <2>6, <4>3, <5>1
      <4>5. e \in Probed(new, j)
        BY <2>4, <4>3, <4>4, <4>6, CellAtIs
      <4>7. e \in Nat /\ CellAt(new, j, e) = i
        BY <2>7, <4>2, <4>3, <4>6
      <4> QED BY <4>1, <4>5, <4>7 DEF Met, j
    <3> QED BY <3>1, <3>2
  <2>10. KeysIn(new) = KeysIn(array) \cup {k}
    <3>1. \A j \in Key : j \in KeysIn(array) => j \in KeysIn(new)
      BY <2>2, <2>4, <2>5 DEF KeysIn
    <3>2. \A j \in KeysIn(new) : j \in KeysIn(array) \cup {k}
      BY <2>4 DEF KeysIn
    <3>3. k \in KeysIn(new)
      BY <2>3, <2>4 DEF KeysIn
    <3> QED BY <3>1, <3>2, <3>3 DEF KeysIn
  <2>11. Live(new) = Live(array) \cup {at} /\ at \notin Live(array)
    BY <2>3, <2>4, <2>5 DEF Live
  <2>12. Cardinality(Live(new)) = t.len + 1
    BY <1>2, <2>11, FS_AddElement
  <2>13. Cardinality(Dead(new)) = t.tombs - (IF array[at] = Tomb THEN 1 ELSE 0)
    <3>1. CASE array[at] = Tomb
      <4>1. Dead(new) = Dead(array) \ {at} /\ at \in Dead(array)
        BY <2>3, <2>4, <2>5, <3>1 DEF Dead
      <4> QED BY <1>2, <3>1, <4>1, FS_RemoveElement
    <3>2. CASE array[at] # Tomb
      <4>1. Dead(new) = Dead(array)
        BY <2>3, <2>4, <2>5, <3>2 DEF Dead
      <4> QED BY <1>2, <3>2, <4>1
    <3> QED BY <3>1, <3>2
  <2>14. u.cells = new /\ u.len = t.len + 1 /\ u.tombs = Cardinality(Dead(new)) /\ u.tombs \in Nat
    <3>1. Cardinality(Dead(new)) \in Nat
      BY <2>4, CellCount
    <3> QED BY <2>1, <2>13, <3>1
  <2>15. u.len + u.tombs <= t.len + t.tombs + 1 /\ (t.tombs = 0 => u.tombs = 0)
    BY <1>2, <2>1, <2>14
  <2>16. Lays(u, n)
    BY <2>4, <2>8, <2>9, <2>12, <2>14 DEF Lays, Sound
  <2> QED BY <2>10, <2>14, <2>15, <2>16 DEF array
<1> QED BY <1>3, <1>4

-----------------------------------------------------------------------------
(* The hash table with tombs: growing.                                     *)

TablesOf(cap) == [cells : CellsOf(cap), len : Int, tombs : Int]
RehashWalk(g, t, cap) ==
    g = [i \in 0 .. CapOf(t.cells) |->
            IF i = 0 THEN Bare(cap)
            ELSE IF t.cells[i - 1] \in Key THEN Filled(g[i - 1], t.cells[i - 1])
            ELSE g[i - 1]]

LEMMA BareFits ==
    ASSUME NEW n \in Nat \ {0}
    PROVE  /\ Lays(Bare(n), n) /\ KeysIn(Bare(n).cells) = {} /\ HasGap(Bare(n).cells)
           /\ Bare(n).len = 0 /\ Bare(n).tombs = 0 /\ Bare(n) \in TablesOf(n)
<1> DEFINE array == Bare(n).cells
<1>1. array = [i \in 0 .. (n - 1) |-> Gap] /\ Bare(n).len = 0 /\ Bare(n).tombs = 0
  BY DEF Bare, Blanks
<1>2. array \in CellsOf(n) /\ (\A i \in DOMAIN array : array[i] = Gap) /\ 0 \in DOMAIN array
  BY <1>1 DEF CellsOf
<1> HIDE DEF array
<1>3. Live(array) = {} /\ Dead(array) = {} /\ KeysIn(array) = {} /\ HasGap(array) /\ Placed(array) /\ Once(array)
  BY <1>2, TablesAssumption DEF Live, Dead, KeysIn, HasGap, Placed, Once
<1>4. Cardinality({}) = 0
  BY FS_EmptySet
<1>5. Bare(n) \in TablesOf(n)
  <2>1. Blanks(n) \in CellsOf(n)
    BY DEF Blanks, CellsOf
  <2> QED BY <2>1 DEF Bare, TablesOf
<1> QED BY <1>1, <1>2, <1>3, <1>4, <1>5 DEF Lays, Sound, array

LEMMA FilledTyped ==
    ASSUME NEW n, NEW t \in TablesOf(n), NEW k \in Key PROVE Filled(t, k) \in TablesOf(n)
<1>1. t.cells \in CellsOf(n) /\ t.len \in Int /\ t.tombs \in Int
  BY DEF TablesOf
<1>2. [t.cells EXCEPT ![Target(t.cells, k)] = k] \in CellsOf(n)
  BY <1>1 DEF CellsOf
<1> QED BY <1>1, <1>2 DEF Filled, TablesOf

LEMMA RehashExists ==
    ASSUME NEW m \in Nat, NEW t, CapOf(t.cells) = m, NEW n \in Nat \ {0}
    PROVE  \E g \in [0 .. m -> TablesOf(n)] : RehashWalk(g, t, n)
<1> DEFINE T == TablesOf(n)
           F == [p \in (1 .. m) \X T |-> IF t.cells[p[1] - 1] \in Key THEN Filled(p[2], t.cells[p[1] - 1])
                                         ELSE p[2]]
<1>1. Bare(n) \in T
  BY BareFits
<1>2. F \in [(1 .. m) \X T -> T]
  <2> HIDE DEF T
  <2>1. \A p \in (1 .. m) \X T : (IF t.cells[p[1] - 1] \in Key THEN Filled(p[2], t.cells[p[1] - 1]) ELSE p[2]) \in T
    BY FilledTyped DEF T
  <2> QED BY <2>1
<1>3. PICK g \in [0 .. m -> T] : StepsUp(g, m, Bare(n), F)
  <2> HIDE DEF T, F
  <2> QED BY <1>1, <1>2, StepsExist
<1>4. \A i \in 1 .. m : g[i] = IF t.cells[i - 1] \in Key THEN Filled(g[i - 1], t.cells[i - 1]) ELSE g[i - 1]
  <2> HIDE DEF T
  <2> SUFFICES ASSUME NEW i \in 1 .. m
               PROVE  g[i] = IF t.cells[i - 1] \in Key THEN Filled(g[i - 1], t.cells[i - 1]) ELSE g[i - 1]
    OBVIOUS
  <2>1. <<i, g[i - 1]>> \in (1 .. m) \X T
    BY <1>3
  <2> QED BY <1>3, <2>1 DEF StepsUp
<1>5. RehashWalk(g, t, n)
  <2> HIDE DEF T
  <2> QED BY <1>3, <1>4 DEF RehashWalk, StepsUp
<1> QED BY <1>5

LEMMA RehashIs ==
    ASSUME NEW m \in Nat, NEW t, CapOf(t.cells) = m, NEW n \in Nat \ {0}
    PROVE  \E g : RehashWalk(g, t, n) /\ Rehashed(t, n) = g[m]
<1> DEFINE E(g) == RehashWalk(g, t, n)
<1>1. Rehashed(t, n) = (CHOOSE g : E(g))[CapOf(t.cells)]
  BY Zenon DEF Rehashed, RehashWalk
<1>2. \E g : E(g)
  BY RehashExists
<1>3. E(CHOOSE g : E(g))
  <2> HIDE DEF E
  <2> QED BY <1>2
<1> QED BY <1>1, <1>3

LEMMA RehashedFits ==
    ASSUME NEW m \in Nat, m >= 2, NEW t, Lays(t, m), NEW n \in Nat, n >= 2 * m
    PROVE  /\ Lays(Rehashed(t, n), n) /\ KeysIn(Rehashed(t, n).cells) = KeysIn(t.cells)
           /\ Rehashed(t, n).len + Rehashed(t, n).tombs <= n - 2
<1> DEFINE array == t.cells
           First(i) == {k \in Key : \E j \in 0 .. (i - 1) : array[j] = k}
<1>1. array \in CellsOf(m) /\ CapOf(array) = m /\ DOMAIN array = 0 .. (m - 1)
  BY CapIs DEF Lays, Sound
<1>2. PICK g : RehashWalk(g, t, n) /\ Rehashed(t, n) = g[m]
  BY <1>1, RehashIs
<1>3. g[0] = Bare(n)
      /\ \A i \in 1 .. m : g[i] = IF array[i - 1] \in Key THEN Filled(g[i - 1], array[i - 1]) ELSE g[i - 1]
  BY <1>1, <1>2 DEF RehashWalk
<1> DEFINE Ok(i) == /\ Lays(g[i], n) /\ KeysIn(g[i].cells) = First(i)
                    /\ g[i].len + g[i].tombs <= i /\ g[i].tombs = 0
           S == {i \in 0 .. m : Ok(i)}
<1>4. 0 \in S
  <2>1. First(0) = {}
    OBVIOUS
  <2> QED BY <1>3, <2>1, BareFits
<1>5. \A i \in 0 .. m : i < m /\ i \in S => i + 1 \in S
  <2> SUFFICES ASSUME NEW i \in 0 .. m, i < m, Ok(i) PROVE Ok(i + 1)
    <3>1. \A i \in 0 .. m : i < m => i + 1 \in 0 .. m
      OBVIOUS
    <3> HIDE DEF Ok
    <3> QED BY <3>1
  <2> DEFINE u == g[i]
             k == array[i]
  <2>1. g[i + 1] = IF k \in Key THEN Filled(u, k) ELSE u
    BY <1>3
  <2>2. u.cells \in CellsOf(n) /\ u.len = Cardinality(Live(u.cells)) /\ u.tombs = Cardinality(Dead(u.cells))
    BY DEF Lays, Sound
  <2>3. HasGap(u.cells)
    <3>1. u.len + u.tombs < n
      BY <2>2, CellCount
    <3> QED BY <2>2, <3>1, CellCount
  <2>4. First(i + 1) = IF k \in Key THEN First(i) \cup {k} ELSE First(i)
    <3>1. 0 .. ((i + 1) - 1) = (0 .. (i - 1)) \cup {i}
      OBVIOUS
    <3> QED BY <3>1
  <2>5. u.len + u.tombs + 1 <= i + 1 /\ u.len + u.tombs <= i + 1
    BY <2>2, CellCount
  <2>6. CASE k \in Key
    <3> DEFINE v == Filled(u, k)
    <3>1. /\ Lays(v, n) /\ KeysIn(v.cells) = KeysIn(u.cells) \cup {k} /\ v.len + v.tombs <= u.len + u.tombs + 1
          /\ v.tombs = 0
      <4>1. Lays(u, n) /\ u.tombs = 0
        OBVIOUS
      <4> HIDE DEF u, k
      <4> QED BY <2>3, <2>6, <4>1, FilledFits
    <3>2. v.len \in Nat /\ v.tombs \in Nat
      BY <3>1, CellCount DEF Lays, Sound
    <3>3. u.len \in Nat /\ u.tombs \in Nat
      BY <2>2, CellCount
    <3> HIDE DEF v
    <3>4. v.len + v.tombs <= i + 1
      BY <2>5, <3>1, <3>2, <3>3
    <3> QED BY <2>1, <2>4, <2>6, <3>1, <3>4 DEF v
  <2>7. CASE k \notin Key
    BY <2>1, <2>4, <2>5, <2>7
  <2> QED BY <2>6, <2>7
<1>6. m \in S
  <2> HIDE DEF S
  <2> QED BY <1>4, <1>5, CountUp
<1>7. First(m) = KeysIn(array)
  BY <1>1 DEF KeysIn
<1>8. m <= n - 2
  OBVIOUS
<1>9. g[m].len \in Nat /\ g[m].tombs \in Nat
  BY <1>6, CellCount DEF Lays, Sound
<1>10. /\ Lays(g[m], n) /\ KeysIn(g[m].cells) = KeysIn(t.cells)
       /\ g[m].len + g[m].tombs <= m
  BY <1>6, <1>7
<1>11. g[m].len + g[m].tombs <= n - 2
  <2> DEFINE a == g[m].len
             b == g[m].tombs
  <2>1. a \in Nat /\ b \in Nat /\ a + b <= m
    BY <1>9, <1>10
  <2> HIDE DEF a, b
  <2>2. a + b <= n - 2
    BY <1>8, <2>1
  <2> QED BY <2>2 DEF a, b
<1> QED BY <1>2, <1>10, <1>11

-----------------------------------------------------------------------------
(* The hash table with tombs: it holds what was put into it.               *)

\* A table of n cells with the keys S, and room for a search to end.
Tabled(t, n, S) ==
    /\ n \in MinCap .. MaxCap /\ Lays(t, n) /\ KeysIn(t.cells) = S
    /\ t.len + t.tombs < n
TableInv == Tabled(table, CapOf(table.cells), members)

LEMMA ProbedIs ==
    ASSUME NEW n \in Nat \ {0}, NEW array \in CellsOf(n), NEW k \in Key
    PROVE  \A d : d \in Probed(array, k)
                 <=> d \in 0 .. (n - 1) /\ \A f \in 0 .. d : array[CellAt(array, k, f)] # Gap
BY CapIs DEF Probed

LEMMA StoresIs ==
    ASSUME NEW t, NEW n, NEW S, Tabled(t, n, S)
    PROVE  /\ n \in Nat /\ n >= 4 /\ t.cells \in CellsOf(n) /\ CapOf(t.cells) = n /\ DOMAIN t.cells = 0 .. (n - 1)
           /\ Placed(t.cells) /\ Once(t.cells) /\ HasGap(t.cells)
           /\ t.len = Cardinality(Live(t.cells)) /\ t.tombs = Cardinality(Dead(t.cells))
           /\ t.len \in Nat /\ t.tombs \in Nat /\ IsFiniteSet(Live(t.cells)) /\ IsFiniteSet(Dead(t.cells))
           /\ S \subseteq Key
<1>1. n \in Nat /\ n >= 4
  BY TablesAssumption DEF Tabled
<1>2. /\ t.cells \in CellsOf(n) /\ Placed(t.cells) /\ Once(t.cells)
      /\ t.len = Cardinality(Live(t.cells)) /\ t.tombs = Cardinality(Dead(t.cells)) /\ t.len + t.tombs < n
  BY DEF Tabled, Lays, Sound
<1>3. CapOf(t.cells) = n /\ DOMAIN t.cells = 0 .. (n - 1)
  BY <1>1, <1>2, CapIs
<1>4. S \subseteq Key
  BY DEF Tabled, KeysIn
<1> QED BY <1>1, <1>2, <1>3, <1>4, CellCount

LEMMA GrownStores ==
    ASSUME NEW t, NEW n, NEW S, Tabled(t, n, S)
    PROVE  \E c \in Nat : /\ c >= n /\ CapOf(Grown(t).cells) = c /\ Lays(Grown(t), c)
                          /\ KeysIn(Grown(t).cells) = S /\ Grown(t).len + Grown(t).tombs <= c - 2
<1>1. /\ n \in Nat /\ n >= 4 /\ CapOf(t.cells) = n /\ t.len \in Nat /\ t.tombs \in Nat /\ Lays(t, n)
      /\ KeysIn(t.cells) = S
  BY StoresIs DEF Tabled
<1>2. CASE Crowded(t)
  <2>1. Grown(t) = Rehashed(t, 2 * n)
    BY <1>1, <1>2 DEF Grown
  <2>2. 2 * n \in Nat /\ n >= 2
    BY <1>1
  <2>3. /\ Lays(Rehashed(t, 2 * n), 2 * n) /\ KeysIn(Rehashed(t, 2 * n).cells) = S
        /\ Rehashed(t, 2 * n).len + Rehashed(t, 2 * n).tombs <= 2 * n - 2
    BY <1>1, <2>2, RehashedFits
  <2>4. CapOf(Rehashed(t, 2 * n).cells) = 2 * n
    BY <2>2, <2>3, CapIs DEF Lays, Sound
  <2> QED BY <1>1, <2>1, <2>2, <2>3, <2>4
<1>3. CASE ~Crowded(t)
  <2>1. Grown(t) = t /\ (t.len + t.tombs) * 10 < n * 7
    BY <1>1, <1>3 DEF Grown, Crowded
  <2> DEFINE a == t.len
             b == t.tombs
  <2>2. (a + b) * 10 < n * 7 /\ a \in Nat /\ b \in Nat
    BY <1>1, <2>1
  <2> HIDE DEF a, b
  <2>3. a + b <= n - 2
    BY <1>1, <2>2
  <2> QED BY <1>1, <2>1, <2>3 DEF a, b
<1> QED BY <1>2, <1>3

LEMMA InitTable == TablesInit => TableInv
<1> SUFFICES ASSUME TablesInit PROVE TableInv
  OBVIOUS
<1>1. MinCap \in Nat \ {0} /\ MinCap \in MinCap .. MaxCap
  BY TablesAssumption
<1>2. table = Bare(MinCap) /\ members = {}
  BY DEF TablesInit
<1>3. /\ Lays(Bare(MinCap), MinCap) /\ KeysIn(Bare(MinCap).cells) = {} /\ Bare(MinCap).len = 0
      /\ Bare(MinCap).tombs = 0
  BY <1>1, BareFits
<1>4. CapOf(Bare(MinCap).cells) = MinCap
  BY <1>1, <1>3, CapIs DEF Lays, Sound
<1> QED BY <1>1, <1>2, <1>3, <1>4 DEF TableInv, Tabled

LEMMA PutTable == ASSUME TableInv, NEW k \in Key, PutKey(k) PROVE TableInv'
<1> DEFINE n == CapOf(table.cells)
           g == Grown(table)
           u == Filled(g, k)
<1>1. Tabled(table, n, members)
  BY DEF TableInv
<1>2. PICK c \in Nat : /\ c >= n /\ CapOf(g.cells) = c /\ Lays(g, c)
                       /\ KeysIn(g.cells) = members /\ g.len + g.tombs <= c - 2
  BY <1>1, GrownStores
<1>3. n \in Nat /\ n >= 4 /\ n >= MinCap /\ c <= MaxCap /\ c \in MinCap .. MaxCap /\ c # 0
  BY <1>1, <1>2, StoresIs, TablesAssumption DEF PutKey, Tabled
<1>4. g.cells \in CellsOf(c) /\ g.len = Cardinality(Live(g.cells)) /\ g.tombs = Cardinality(Dead(g.cells))
  BY <1>2 DEF Lays, Sound
<1>5. HasGap(g.cells) /\ g.len \in Nat /\ g.tombs \in Nat
  <2>1. g.len \in Nat /\ g.tombs \in Nat
    BY <1>4, CellCount
  <2>2. g.len + g.tombs < c
    BY <1>2, <2>1
  <2> QED BY <1>4, <2>1, <2>2, CellCount
<1> HIDE DEF g
<1>6. /\ Lays(u, c) /\ KeysIn(u.cells) = members \cup {k}
      /\ u.len + u.tombs <= g.len + g.tombs + 1
  BY <1>2, <1>3, <1>5, FilledFits
<1>7. u.len \in Nat /\ u.tombs \in Nat /\ CapOf(u.cells) = c
  BY <1>6, CellCount, CapIs DEF Lays, Sound
<1>8. table' = u /\ members' = members \cup {k}
  BY DEF PutKey, g
<1> HIDE DEF u
<1>9. u.len + u.tombs < c
  BY <1>2, <1>5, <1>6, <1>7
<1>10. Tabled(u, c, members \cup {k})
  BY <1>3, <1>6, <1>9 DEF Tabled
<1> QED BY <1>7, <1>8, <1>10 DEF TableInv

LEMMA RemoveTable == ASSUME TableInv, NEW k \in Key, RemoveKey(k) PROVE TableInv'
<1> DEFINE n == CapOf(table.cells)
           array == table.cells
<1>1. Tabled(table, n, members)
  BY DEF TableInv
<1>2. /\ n \in Nat \ {0} /\ CapOf(array) = n /\ array \in CellsOf(n) /\ DOMAIN array = 0 .. (n - 1)
      /\ Placed(array) /\ Once(array)
      /\ table.len = Cardinality(Live(array)) /\ table.tombs = Cardinality(Dead(array))
      /\ table.len \in Nat /\ table.tombs \in Nat /\ IsFiniteSet(Live(array)) /\ IsFiniteSet(Dead(array))
  BY <1>1, StoresIs
<1>3. n \in MinCap .. MaxCap /\ KeysIn(array) = members /\ table.len + table.tombs < n
  BY <1>1 DEF Tabled
<1>4. members' = members \ {k}
  BY DEF RemoveKey
<1>5. CASE ~Has(array, k)
  <2>1. table' = table
    BY <1>5 DEF RemoveKey
  <2>2. k \notin members
    BY <1>2, <1>3, <1>5, HasIs
  <2> QED BY <1>1, <1>4, <2>1, <2>2 DEF TableInv
<1>6. CASE Has(array, k)
  <2> HIDE DEF n, array
  <2> DEFINE D == {d \in Probed(array, k) : array[CellAt(array, k, d)] = k}
             P(d) == /\ array[CellAt(array, k, d)] = k
                     /\ \A f \in 0 .. (d - 1) : array[CellAt(array, k, f)] # k
             e == CHOOSE d \in Probed(array, k) : P(d)
             at == CellAt(array, k, e)
             new == [array EXCEPT ![at] = Tomb]
  <2>0. n \in Nat \ {0} /\ array \in CellsOf(n)
    BY <1>2
  <2>1. \A d : d \in Probed(array, k)
              <=> d \in 0 .. (n - 1) /\ \A f \in 0 .. d : array[CellAt(array, k, f)] # Gap
    BY <2>0, ProbedIs
  <2>2. D # {} /\ D \in SUBSET Nat
    BY <1>6, <2>1 DEF Has
  <2>3. PICK m \in D : \A x \in D : m <= x
    BY <2>2, MinOfNat
  <2>4. m \in Probed(array, k) /\ P(m)
    <3>2. m \in Probed(array, k) /\ m \in 0 .. (n - 1) /\ array[CellAt(array, k, m)] = k
      BY <2>1, <2>3
    <3>3. \A f \in 0 .. m : array[CellAt(array, k, f)] # Gap
      BY <2>1, <3>2
    <3>1. ASSUME NEW f \in 0 .. (m - 1) PROVE array[CellAt(array, k, f)] # k
      <4>1. f \in 0 .. (n - 1) /\ f \in 0 .. m /\ 0 .. f \subseteq 0 .. m /\ ~(m <= f)
        BY <2>0, <3>2
      <4>2. f \in Probed(array, k)
        BY <2>1, <3>3, <4>1
      <4> QED BY <2>3, <4>1, <4>2
    <3> QED BY <3>1, <3>2
  <2>5. e \in Probed(array, k) /\ P(e)
    <3> HIDE DEF P
    <3> QED BY <2>4
  <2>6. e \in Nat /\ at \in DOMAIN array /\ array[at] = k
    <3>1. e \in Nat
      <4> HIDE DEF e
      <4> QED BY <2>1, <2>5
    <3>2. \A d \in Nat : CellAt(array, k, d) \in DOMAIN array
      BY <1>2, CellAtIs
    <3> QED BY <2>5, <3>1, <3>2
  <2>7. table' = [cells |-> new, len |-> table.len - 1, tombs |-> table.tombs + 1]
    BY <1>6, Zenon DEF RemoveKey, array
  <2> HIDE DEF e, at, D, P
  <2>8. /\ new \in CellsOf(n) /\ DOMAIN new = DOMAIN array /\ new[at] = Tomb
        /\ \A i \in DOMAIN array : i # at => new[i] = array[i]
    BY <1>2, <2>6 DEF CellsOf
  <2> HIDE DEF new
  <2>9. k # Gap /\ k # Tomb /\ Tomb \notin Key /\ Gap # Tomb
    BY TablesAssumption
  <2>10. \A i \in DOMAIN array : array[i] # Gap => new[i] # Gap
    BY <2>6, <2>8, <2>9
  <2>11. \A j \in Key, d \in Nat : CellAt(new, j, d) = CellAt(array, j, d)
    BY <1>2, <2>8, CapIs DEF CellAt
  <2>12. Once(new)
    BY <1>2, <2>8, <2>9 DEF Once
  <2>13. Placed(new)
    <3> SUFFICES ASSUME NEW i \in DOMAIN new, new[i] \in Key PROVE Met(new, new[i], i)
      BY DEF Placed
    <3>1. i \in DOMAIN array /\ new[i] = array[i] /\ array[i] \in Key
      BY <2>8, <2>9
    <3> DEFINE j == array[i]
    <3>2. j \in Key /\ new[i] = j
      BY <3>1
    <3>3. PICK d \in Probed(array, j) : CellAt(array, j, d) = i
      BY <1>2, <3>1 DEF Placed, Met
    <3> HIDE DEF j
    <3>4. d \in 0 .. (n - 1) /\ \A f \in 0 .. d : array[CellAt(array, j, f)] # Gap
      BY <2>0, <3>2, <3>3, ProbedIs
    <3>5. \A f \in 0 .. d : new[CellAt(new, j, f)] # Gap
      <4> SUFFICES ASSUME NEW f \in 0 .. d PROVE new[CellAt(array, j, f)] # Gap
        BY <2>11, <3>2
      <4>1. f \in Nat
        BY <3>4
      <4>2. CellAt(array, j, f) \in DOMAIN array
        BY <2>0, <3>2, <4>1, CellAtIs
      <4> QED BY <2>10, <3>4, <4>2
    <3>6. d \in Probed(new, j)
      BY <2>0, <2>8, <3>2, <3>4, <3>5, ProbedIs
    <3>7. d \in Nat /\ CellAt(new, j, d) = i
      BY <2>11, <3>2, <3>3, <3>4
    <3> QED BY <3>2, <3>6, <3>7 DEF Met
  <2>14. KeysIn(new) = members \ {k}
    <3>1. \A j \in KeysIn(new) : j \in KeysIn(array) /\ j # k
      BY <1>2, <2>6, <2>8, <2>9 DEF KeysIn, Once
    <3>2. \A j \in KeysIn(array) : j # k => j \in KeysIn(new)
      BY <2>6, <2>8 DEF KeysIn
    <3> QED BY <1>3, <3>1, <3>2
  <2>15. Live(new) = Live(array) \ {at} /\ at \in Live(array) /\ Dead(new) = Dead(array) \cup {at} /\ at \notin Dead(array)
    BY <2>6, <2>8, <2>9 DEF Live, Dead
  <2>16. Cardinality(Live(new)) = table.len - 1 /\ Cardinality(Dead(new)) = table.tombs + 1
    <3>1. Cardinality(Live(array) \ {at}) = Cardinality(Live(array)) - 1
      BY <1>2, <2>15, FS_RemoveElement
    <3>2. Cardinality(Dead(array) \cup {at}) = Cardinality(Dead(array)) + 1
      BY <1>2, <2>15, FS_AddElement
    <3> QED BY <1>2, <2>15, <3>1, <3>2
  <2> DEFINE u == [cells |-> new, len |-> table.len - 1, tombs |-> table.tombs + 1]
  <2>17. u.cells = new /\ u.len = table.len - 1 /\ u.tombs = table.tombs + 1
    OBVIOUS
  <2> HIDE DEF u
  <2>18. u.len + u.tombs < n
    BY <1>2, <1>3, <2>17
  <2>19. Tabled(u, n, members \ {k})
    BY <1>3, <2>8, <2>12, <2>13, <2>14, <2>16, <2>17, <2>18 DEF Tabled, Lays, Sound
  <2>20. CapOf(u.cells) = n
    BY <2>8, <2>17, <1>2, CapIs
  <2> QED BY <1>4, <2>7, <2>19, <2>20 DEF TableInv, u
<1> QED BY <1>5, <1>6

LEMMA ClearTable == ASSUME TableInv, ClearKeys PROVE TableInv'
<1> DEFINE n == CapOf(table.cells)
<1>1. n \in Nat \ {0} /\ n \in MinCap .. MaxCap
  BY StoresIs DEF TableInv, Tabled
<1>2. table' = Bare(n) /\ members' = {}
  BY DEF ClearKeys
<1> HIDE DEF n
<1>3. Lays(Bare(n), n) /\ KeysIn(Bare(n).cells) = {} /\ Bare(n).len = 0 /\ Bare(n).tombs = 0
  BY <1>1, BareFits
<1>4. CapOf(Bare(n).cells) = n
  BY <1>1, <1>3, CapIs DEF Lays, Sound
<1>5. Tabled(Bare(n), n, {})
  BY <1>1, <1>3 DEF Tabled
<1> QED BY <1>2, <1>4, <1>5 DEF TableInv

LEMMA NextTable == ASSUME TableInv, [TablesNext]_tableVars PROVE TableInv'
<1>1. CASE UNCHANGED tableVars
  BY <1>1 DEF TableInv, tableVars
<1>2. ASSUME NEW k \in Key, PutKey(k) \/ RemoveKey(k) PROVE TableInv'
  BY <1>2, PutTable, RemoveTable
<1>3. CASE ClearKeys
  BY <1>3, ClearTable
<1> QED BY <1>1, <1>2, <1>3 DEF TablesNext

LEMMA TableInvHolds == TableInv => TableHolds /\ TablesTypeOK
<1> SUFFICES ASSUME TableInv PROVE TableHolds /\ TablesTypeOK
  OBVIOUS
<1> DEFINE n == CapOf(table.cells)
           array == table.cells
<1>1. Tabled(table, n, members)
  BY DEF TableInv
<1>2. /\ n \in Nat /\ n >= 4 /\ array \in CellsOf(n)
      /\ Placed(array) /\ HasGap(array)
      /\ table.len = Cardinality(Live(array)) /\ table.tombs = Cardinality(Dead(array))
      /\ members \subseteq Key /\ KeysIn(array) = members /\ n \in MinCap .. MaxCap
  BY <1>1, StoresIs DEF Tabled
<1>3. \A k \in Key : Has(array, k) <=> k \in members
  BY <1>2, HasIs
<1>4. TableHolds
  BY <1>2, <1>3 DEF TableHolds, Live, Dead, HasGap
<1>5. TablesTypeOK
  BY <1>2 DEF TablesTypeOK, CellsOf
<1> QED BY <1>4, <1>5

\* A key is found exactly when it was put and not removed, and every search ends
\* (chunk_map_get, chunk_map_put_loading, chunk_map_remove_key, chunk_map_rehash and
\* the same of the block entities and the sent chunks).
THEOREM TableHoldsCorrect == TablesSpec => []TableHolds
<1>1. TablesInit => TableInv
  BY InitTable
<1>2. TableInv /\ [TablesNext]_tableVars => TableInv'
  BY NextTable
<1>3. TableInv => TableHolds
  BY TableInvHolds
<1> QED BY <1>1, <1>2, <1>3, PTL DEF TablesSpec

-----------------------------------------------------------------------------
(* Packed sections: bits and numbers.                                      *)

LEMMA ShiftedIs ==
    /\ Shifted[0] = 1
    /\ \A j \in 0 .. WordBits : Shifted[j] \in Nat \ {0}
    /\ \A j \in 1 .. WordBits : Shifted[j] = 2 * Shifted[j - 1]
<1> DEFINE E(g) == g = [j \in 0 .. WordBits |-> IF j = 0 THEN 1 ELSE 2 * g[j - 1]]
           T == Nat \ {0}
           F == [p \in (1 .. WordBits) \X T |-> 2 * p[2]]
<1>1. WordBits \in Nat
  BY SectionsAssumption
<1>2. F \in [(1 .. WordBits) \X T -> T] /\ 1 \in T
  OBVIOUS
<1>3. PICK g \in [0 .. WordBits -> T] : StepsUp(g, WordBits, 1, F)
  <2> HIDE DEF F, T
  <2> QED BY <1>1, <1>2, StepsExist
<1>4. E(g)
  <2>1. ASSUME NEW j \in 1 .. WordBits PROVE g[j] = 2 * g[j - 1]
    <3> HIDE DEF T
    <3>1. <<j, g[j - 1]>> \in (1 .. WordBits) \X T
      BY <1>1, <1>3
    <3> QED BY <1>3, <3>1 DEF StepsUp
  <2> QED BY <1>1, <1>3, <2>1 DEF StepsUp
<1>5. E(CHOOSE h : E(h))
  <2> HIDE DEF E
  <2> QED BY <1>4
<1>6. E(Shifted)
  BY <1>5, Zenon DEF Shifted
<1>7. Shifted[0] = 1 /\ \A j \in 1 .. WordBits : Shifted[j] = 2 * Shifted[j - 1]
  BY <1>1, <1>6
<1> DEFINE S == {j \in 0 .. WordBits : Shifted[j] \in Nat \ {0}}
<1>8. 0 \in S
  BY <1>1, <1>7
<1>9. \A j \in 0 .. WordBits : j < WordBits /\ j \in S => j + 1 \in S
  <2> SUFFICES ASSUME NEW j \in 0 .. WordBits, j < WordBits, Shifted[j] \in Nat \ {0}
               PROVE  j + 1 \in 0 .. WordBits /\ Shifted[j + 1] \in Nat \ {0}
    OBVIOUS
  <2>1. j + 1 \in 1 .. WordBits /\ (j + 1) - 1 = j
    BY <1>1
  <2> QED BY <1>7, <2>1
<1>10. \A j \in 0 .. WordBits : j \in S
  <2> HIDE DEF S
  <2> QED BY <1>1, <1>8, <1>9, CountUp
<1> QED BY <1>7, <1>10

LEMMA BitIs ==
    ASSUME NEW v \in Nat, NEW j \in 0 .. WordBits
    PROVE  /\ Bit(v, j) \in {0, 1}
           /\ v % Shifted[j] \in Nat
           /\ j + 1 \in 0 .. WordBits => v % Shifted[j + 1] = (v % Shifted[j]) + Bit(v, j) * Shifted[j]
<1> DEFINE p == Shifted[j]
           q == v \div p
           r == v % p
           b == q % 2
           h == q \div 2
<1>1. p \in Nat \ {0}
  BY ShiftedIs
<1> HIDE DEF p
<1>2. q \in Nat /\ r \in 0 .. (p - 1) /\ v = p * q + r
  BY <1>1
<1> HIDE DEF q, r
<1>3. b \in {0, 1} /\ h \in Nat /\ q = 2 * h + b
  BY <1>2
<1>4. Bit(v, j) = b
  BY DEF Bit, b, q, p
<1> HIDE DEF b, h
<1>5. ASSUME j + 1 \in 0 .. WordBits PROVE v % Shifted[j + 1] = r + b * p
  <2>1. Shifted[j + 1] = 2 * p
    <3>1. j + 1 \in 1 .. WordBits /\ (j + 1) - 1 = j
      BY <1>5, SectionsAssumption
    <3> QED BY <3>1, ShiftedIs DEF p
  <2>2. b * p + r \in 0 .. (2 * p - 1)
    BY <1>1, <1>2, <1>3
  <2>3. v = (2 * p) * h + (b * p + r)
    BY <1>1, <1>2, <1>3
  <2>4. 2 * p \in Nat \ {0}
    BY <1>1
  <2> DEFINE n == 2 * p
             s == b * p + r
  <2>5. n \in Nat \ {0} /\ s \in 0 .. (n - 1) /\ v = n * h + s
    BY <2>2, <2>3, <2>4
  <2> HIDE DEF n, s
  <2>6. v % n = s
    BY <1>3, <2>5
  <2>7. s = r + b * p
    BY <1>1, <1>2, <1>3 DEF s
  <2> QED BY <2>1, <2>6, <2>7 DEF n
<1>6. r \in Nat
  BY <1>1, <1>2
<1> QED BY <1>3, <1>4, <1>5, <1>6 DEF p, r

-----------------------------------------------------------------------------
(* Packed sections: where a value lies.                                    *)

Bits == 1 .. WordBits
WordsOf(bits) == [0 .. (WordCount(bits) - 1) -> [0 .. (WordBits - 1) -> {0, 1}]]
At(i, bits) == (i * bits) % WordBits
Word(i, bits) == (i * bits) \div WordBits

\* Bit j of the value at i.
BitAt(ws, i, bits, j) ==
    IF j < WordBits - At(i, bits) THEN ws[Word(i, bits)][At(i, bits) + j]
    ELSE IF At(i, bits) + bits - WordBits > 0
         THEN ws[Word(i, bits) + 1][j - (bits - (At(i, bits) + bits - WordBits))] ELSE 0
UnpackWalk(g, ws, i, bits) ==
    g = [j \in 0 .. bits |-> IF j = 0 THEN 0 ELSE g[j - 1] + BitAt(ws, i, bits, j - 1) * Shifted[j - 1]]

LEMMA WordBitsIs == WordBits \in Nat \ {0} /\ Volume \in Nat \ {0}
BY SectionsAssumption

LEMMA PlaceIs ==
    ASSUME NEW bits \in Bits, NEW i \in Cell
    PROVE  /\ At(i, bits) \in 0 .. (WordBits - 1) /\ Word(i, bits) \in 0 .. (WordCount(bits) - 1)
           /\ i * bits = WordBits * Word(i, bits) + At(i, bits)
           /\ At(i, bits) + bits > WordBits => Word(i, bits) + 1 \in 0 .. (WordCount(bits) - 1)
<1> DEFINE p == i * bits
           all == Volume * bits
           n == WordCount(bits)
           w == Word(i, bits)
           a == At(i, bits)
<1>1. WordBits \in Nat \ {0} /\ Volume \in Nat /\ i \in Nat /\ i < Volume /\ bits \in Nat \ {0} /\ bits <= WordBits
  BY WordBitsIs DEF Bits, Cell
<1>2. p \in Nat /\ all \in Nat /\ p + bits <= all
  BY <1>1
<1>3. a \in 0 .. (WordBits - 1) /\ w \in Nat /\ p = WordBits * w + a
  BY <1>1, <1>2 DEF At, Word
<1>4. n \in Nat /\ all + WordBits - 1 < WordBits * n + WordBits
  <2> DEFINE x == all + WordBits - 1
  <2>1. x \in Nat
    BY <1>1, <1>2
  <2>2. n = x \div WordBits
    BY DEF WordCount
  <2> HIDE DEF x, n
  <2>3. n \in Nat /\ x = WordBits * n + (x % WordBits) /\ x % WordBits \in 0 .. (WordBits - 1)
    BY <1>1, <2>1, <2>2
  <2>4. WordBits * n \in Nat
    BY <1>1, <2>3
  <2>5. x < WordBits * n + WordBits
    BY <1>1, <2>1, <2>3, <2>4
  <2> QED BY <2>3, <2>5 DEF x
<1> HIDE DEF p, all, n, w, a
<1>5. WordBits * n \in Nat /\ WordBits * w \in Nat /\ all <= WordBits * n
  BY <1>1, <1>2, <1>3, <1>4
<1>6. w < n
  <2> SUFFICES ASSUME n <= w PROVE FALSE
    BY <1>3, <1>4
  <2>1. WordBits * n <= WordBits * w
    BY <1>1, <1>3, <1>4
  <2> QED BY <1>1, <1>2, <1>3, <1>5, <2>1
<1>7. ASSUME a + bits > WordBits PROVE w + 1 < n
  <2> SUFFICES ASSUME n <= w + 1 PROVE FALSE
    BY <1>3, <1>4
  <2>1. WordBits * n <= WordBits * (w + 1)
    BY <1>1, <1>3, <1>4
  <2>2. WordBits * (w + 1) = WordBits * w + WordBits
    BY <1>1, <1>3
  <2> QED BY <1>1, <1>2, <1>3, <1>5, <1>7, <2>1, <2>2
<1> QED BY <1>1, <1>3, <1>4, <1>6, <1>7 DEF p, n, w, a

LEMMA Apart ==
    ASSUME NEW bits \in Bits, NEW i \in Cell, NEW k \in Cell, i < k
    PROVE  /\ Word(i, bits) <= Word(k, bits)
           /\ Word(i, bits) = Word(k, bits) => At(i, bits) + bits <= At(k, bits)
           /\ Word(i, bits) + 1 = Word(k, bits) => At(i, bits) + bits - WordBits <= At(k, bits)
<1> DEFINE p == i * bits
           q == k * bits
           w == Word(i, bits)
           x == Word(k, bits)
           a == At(i, bits)
           b == At(k, bits)
<1>1. WordBits \in Nat \ {0} /\ i \in Nat /\ k \in Nat /\ bits \in Nat \ {0} /\ bits <= WordBits
  BY WordBitsIs DEF Bits, Cell
<1>2. p \in Nat /\ q \in Nat /\ p + bits <= q
  BY <1>1
<1>3. /\ a \in 0 .. (WordBits - 1) /\ w \in Nat /\ p = WordBits * w + a
      /\ b \in 0 .. (WordBits - 1) /\ x \in Nat /\ q = WordBits * x + b
  <2>1. /\ a \in 0 .. (WordBits - 1) /\ w \in 0 .. (WordCount(bits) - 1) /\ p = WordBits * w + a
    BY PlaceIs
  <2>2. /\ b \in 0 .. (WordBits - 1) /\ x \in 0 .. (WordCount(bits) - 1) /\ q = WordBits * x + b
    BY PlaceIs
  <2> HIDE DEF p, q, w, x, a, b
  <2> QED BY <2>1, <2>2
<1> HIDE DEF p, q, w, x, a, b
<1>4. WordBits * w \in Nat /\ WordBits * x \in Nat
  BY <1>1, <1>3
<1>5. w <= x
  <2> SUFFICES ASSUME x + 1 <= w PROVE FALSE
    BY <1>3
  <2>1. WordBits * (x + 1) <= WordBits * w
    BY <1>1, <1>3
  <2>2. WordBits * (x + 1) = WordBits * x + WordBits
    BY <1>1, <1>3
  <2> QED BY <1>1, <1>2, <1>3, <1>4, <2>1, <2>2
<1>6. w = x => a + bits <= b
  BY <1>1, <1>2, <1>3, <1>4
<1>7. ASSUME w + 1 = x PROVE a + bits - WordBits <= b
  <2>1. WordBits * x = WordBits * w + WordBits
    BY <1>1, <1>3, <1>7
  <2> QED BY <1>1, <1>2, <1>3, <1>4, <2>1
<1> QED BY <1>5, <1>6, <1>7 DEF w, x, a, b

LEMMA BitAtTyped ==
    ASSUME NEW bits \in Bits, NEW i \in Cell, NEW ws \in WordsOf(bits), NEW j \in 0 .. (bits - 1)
    PROVE  BitAt(ws, i, bits, j) \in {0, 1}
<1> DEFINE w == Word(i, bits)
           a == At(i, bits)
           n == WordCount(bits)
<1>1. /\ a \in 0 .. (WordBits - 1) /\ w \in 0 .. (n - 1)
      /\ a + bits > WordBits => w + 1 \in 0 .. (n - 1)
  BY PlaceIs
<1>2. WordBits \in Nat /\ bits \in 1 .. WordBits /\ ws \in [0 .. (n - 1) -> [0 .. (WordBits - 1) -> {0, 1}]]
  BY WordBitsIs DEF Bits, WordsOf
<1>3. BitAt(ws, i, bits, j) =
        IF j < WordBits - a THEN ws[w][a + j]
        ELSE IF a + bits - WordBits > 0 THEN ws[w + 1][j - (bits - (a + bits - WordBits))] ELSE 0
  BY DEF BitAt
<1> HIDE DEF w, a, n
<1>4. CASE j < WordBits - a
  <2>1. a + j \in 0 .. (WordBits - 1)
    BY <1>1, <1>2, <1>4
  <2> QED BY <1>1, <1>2, <1>3, <1>4, <2>1
<1>5. CASE ~(j < WordBits - a) /\ a + bits - WordBits > 0
  <2>1. j - (bits - (a + bits - WordBits)) \in 0 .. (WordBits - 1) /\ a + bits > WordBits
    BY <1>1, <1>2, <1>5
  <2> QED BY <1>1, <1>2, <1>3, <1>5, <2>1
<1>6. CASE ~(j < WordBits - a) /\ ~(a + bits - WordBits > 0)
  BY <1>3, <1>6
<1> QED BY <1>4, <1>5, <1>6

LEMMA UnpackIs ==
    ASSUME NEW bits \in Bits, NEW i \in Cell, NEW ws \in WordsOf(bits)
    PROVE  \E g : UnpackWalk(g, ws, i, bits) /\ Unpack(ws, i, bits) = g[bits]
<1> DEFINE E(g) == UnpackWalk(g, ws, i, bits)
<1>1. Unpack(ws, i, bits) = (CHOOSE g : E(g))[bits]
  BY Zenon DEF Unpack, UnpackWalk, BitAt, At, Word
<1>2. \E g : E(g)
  <2> DEFINE F == [p \in (1 .. bits) \X Int |-> p[2] + BitAt(ws, i, bits, p[1] - 1) * Shifted[p[1] - 1]]
  <2>1. bits \in Nat /\ bits <= WordBits /\ WordBits \in Nat
    BY WordBitsIs DEF Bits
  <2>2. \A j \in 1 .. bits : BitAt(ws, i, bits, j - 1) * Shifted[j - 1] \in Int
    <3> SUFFICES ASSUME NEW j \in 1 .. bits PROVE BitAt(ws, i, bits, j - 1) * Shifted[j - 1] \in Int
      OBVIOUS
    <3>1. j - 1 \in 0 .. (bits - 1) /\ j - 1 \in 0 .. WordBits
      BY <2>1
    <3>2. BitAt(ws, i, bits, j - 1) \in {0, 1} /\ Shifted[j - 1] \in Nat
      BY <3>1, BitAtTyped, ShiftedIs
    <3> QED BY <3>2
  <2>3. F \in [(1 .. bits) \X Int -> Int] /\ 0 \in Int
    BY <2>1, <2>2
  <2>4. PICK g \in [0 .. bits -> Int] : StepsUp(g, bits, 0, F)
    <3> HIDE DEF F
    <3> QED BY <2>1, <2>3, StepsExist
  <2>5. ASSUME NEW j \in 1 .. bits PROVE g[j] = g[j - 1] + BitAt(ws, i, bits, j - 1) * Shifted[j - 1]
    <3>1. <<j, g[j - 1]>> \in (1 .. bits) \X Int
      BY <2>1, <2>4
    <3> QED BY <2>4, <3>1 DEF StepsUp
  <2>6. E(g)
    BY <2>1, <2>4, <2>5 DEF StepsUp, UnpackWalk
  <2> QED BY <2>6
<1>3. E(CHOOSE g : E(g))
  <2> HIDE DEF E
  <2> QED BY <1>2
<1> QED BY <1>1, <1>3

\* A value is told by its bits.
LEMMA UnpackValue ==
    ASSUME NEW bits \in Bits, NEW i \in Cell, NEW ws \in WordsOf(bits),
           NEW v \in 0 .. (Shifted[bits] - 1), \A j \in 0 .. (bits - 1) : BitAt(ws, i, bits, j) = Bit(v, j)
    PROVE  Unpack(ws, i, bits) = v
<1>1. PICK g : UnpackWalk(g, ws, i, bits) /\ Unpack(ws, i, bits) = g[bits]
  BY UnpackIs
<1>2. bits \in Nat /\ bits <= WordBits /\ WordBits \in Nat /\ bits \in 0 .. WordBits
  BY WordBitsIs DEF Bits
<1>3. Shifted[bits] \in Nat \ {0} /\ Shifted[0] = 1
  BY <1>2, ShiftedIs
<1>4. v \in Nat /\ v < Shifted[bits]
  BY <1>3
<1>5. g[0] = 0 /\ \A j \in 1 .. bits : g[j] = g[j - 1] + BitAt(ws, i, bits, j - 1) * Shifted[j - 1]
  BY <1>1, <1>2 DEF UnpackWalk
<1> DEFINE S == {j \in 0 .. bits : g[j] = v % Shifted[j]}
<1>6. 0 \in S
  BY <1>2, <1>3, <1>4, <1>5
<1>7. \A j \in 0 .. bits : j < bits /\ j \in S => j + 1 \in S
  <2> SUFFICES ASSUME NEW j \in 0 .. bits, j < bits, g[j] = v % Shifted[j]
               PROVE  j + 1 \in 0 .. bits /\ g[j + 1] = v % Shifted[j + 1]
    OBVIOUS
  <2>1. j + 1 \in 1 .. bits /\ (j + 1) - 1 = j /\ j \in 0 .. (bits - 1) /\ j \in 0 .. WordBits /\ j + 1 \in 0 .. WordBits
    BY <1>2
  <2>2. g[j + 1] = g[j] + BitAt(ws, i, bits, j) * Shifted[j]
    BY <1>5, <2>1
  <2>3. v % Shifted[j + 1] = (v % Shifted[j]) + Bit(v, j) * Shifted[j]
    BY <1>4, <2>1, BitIs
  <2>4. BitAt(ws, i, bits, j) = Bit(v, j)
    BY <2>1
  <2> QED BY <2>1, <2>2, <2>3, <2>4
<1>8. g[bits] = v % Shifted[bits]
  <2>1. \A j \in 0 .. bits : j \in S
    <3> HIDE DEF S
    <3> QED BY <1>2, <1>6, <1>7, CountUp
  <2> QED BY <1>2, <2>1
<1>9. v % Shifted[bits] = v
  BY <1>3, <1>4
<1> QED BY <1>1, <1>8, <1>9

\* Equal bits, equal values.
LEMMA UnpackSame ==
    ASSUME NEW bits \in Bits, NEW i \in Cell, NEW ws \in WordsOf(bits), NEW us \in WordsOf(bits),
           \A j \in 0 .. (bits - 1) : BitAt(ws, i, bits, j) = BitAt(us, i, bits, j)
    PROVE  Unpack(ws, i, bits) = Unpack(us, i, bits)
<1>1. PICK g : UnpackWalk(g, ws, i, bits) /\ Unpack(ws, i, bits) = g[bits]
  BY UnpackIs
<1>2. PICK h : UnpackWalk(h, us, i, bits) /\ Unpack(us, i, bits) = h[bits]
  BY UnpackIs
<1>3. bits \in Nat /\ bits <= WordBits /\ WordBits \in Nat
  BY WordBitsIs DEF Bits
<1>4. g[0] = 0 /\ \A j \in 1 .. bits : g[j] = g[j - 1] + BitAt(ws, i, bits, j - 1) * Shifted[j - 1]
  BY <1>1, <1>3 DEF UnpackWalk
<1>5. h[0] = 0 /\ \A j \in 1 .. bits : h[j] = h[j - 1] + BitAt(us, i, bits, j - 1) * Shifted[j - 1]
  BY <1>2, <1>3 DEF UnpackWalk
<1> DEFINE S == {j \in 0 .. bits : g[j] = h[j]}
<1>6. 0 \in S
  BY <1>3, <1>4, <1>5
<1>7. \A j \in 0 .. bits : j < bits /\ j \in S => j + 1 \in S
  <2> SUFFICES ASSUME NEW j \in 0 .. bits, j < bits, g[j] = h[j]
               PROVE  j + 1 \in 0 .. bits /\ g[j + 1] = h[j + 1]
    OBVIOUS
  <2>1. j + 1 \in 1 .. bits /\ (j + 1) - 1 = j /\ j \in 0 .. (bits - 1)
    BY <1>3
  <2> QED BY <1>4, <1>5, <2>1
<1>8. \A j \in 0 .. bits : j \in S
  <2> HIDE DEF S
  <2> QED BY <1>3, <1>6, <1>7, CountUp
<1> QED BY <1>1, <1>2, <1>3, <1>8

-----------------------------------------------------------------------------
(* Packed sections: packing.                                               *)

\* Bit b of word w after v was packed at i.
Packed(ws, i, bits, v, w, b) ==
    IF w = Word(i, bits) /\ b \in At(i, bits) .. (At(i, bits) + bits - 1) THEN Bit(v, b - At(i, bits))
    ELSE IF w = Word(i, bits) + 1 /\ b < At(i, bits) + bits - WordBits
         THEN Bit(v, b + bits - (At(i, bits) + bits - WordBits))
    ELSE ws[w][b]

LEMMA PackIs ==
    ASSUME NEW bits \in Bits, NEW i \in Cell, NEW ws \in WordsOf(bits), NEW v \in Nat
    PROVE  /\ Pack(ws, i, bits, v) \in WordsOf(bits)
           /\ \A w \in 0 .. (WordCount(bits) - 1), b \in 0 .. (WordBits - 1) :
                 Pack(ws, i, bits, v)[w][b] = Packed(ws, i, bits, v, w, b)
<1> DEFINE n == WordCount(bits)
           a == At(i, bits)
           us == [w \in 0 .. (n - 1) |-> [b \in 0 .. (WordBits - 1) |-> Packed(ws, i, bits, v, w, b)]]
<1>1. ws \in [0 .. (n - 1) -> [0 .. (WordBits - 1) -> {0, 1}]]
  BY DEF WordsOf
<1>2. Pack(ws, i, bits, v) = us
  <2>1. DOMAIN ws = 0 .. (n - 1)
    BY <1>1
  <2> QED BY <2>1, Zenon DEF Pack, Packed, At, Word
<1>3. \A w \in 0 .. (n - 1), b \in 0 .. (WordBits - 1) : Packed(ws, i, bits, v, w, b) \in {0, 1}
  <2> SUFFICES ASSUME NEW w \in 0 .. (n - 1), NEW b \in 0 .. (WordBits - 1)
               PROVE  Packed(ws, i, bits, v, w, b) \in {0, 1}
    OBVIOUS
  <2>1. a \in 0 .. (WordBits - 1) /\ WordBits \in Nat /\ bits \in 1 .. WordBits
    BY PlaceIs, WordBitsIs DEF Bits
  <2>2. ws[w][b] \in {0, 1}
    BY <1>1
  <2>3. b \in a .. (a + bits - 1) => b - a \in 0 .. WordBits
    BY <2>1
  <2>4. b < a + bits - WordBits => b + bits - (a + bits - WordBits) \in 0 .. WordBits
    BY <2>1
  <2>5. b \in a .. (a + bits - 1) => Bit(v, b - a) \in {0, 1}
    BY <2>3, BitIs
  <2>6. b < a + bits - WordBits => Bit(v, b + bits - (a + bits - WordBits)) \in {0, 1}
    BY <2>4, BitIs
  <2> QED BY <2>2, <2>5, <2>6 DEF Packed
<1>4. us \in WordsOf(bits)
  BY <1>3 DEF WordsOf
<1> HIDE DEF n
<1> QED BY <1>2, <1>4 DEF n

LEMMA PackSame ==
    ASSUME NEW bits \in Bits, NEW i \in Cell, NEW ws \in WordsOf(bits), NEW v \in Nat, NEW j \in 0 .. (bits - 1)
    PROVE  BitAt(Pack(ws, i, bits, v), i, bits, j) = Bit(v, j)
<1> DEFINE w == Word(i, bits)
           a == At(i, bits)
           n == WordCount(bits)
           us == Pack(ws, i, bits, v)
           P(x, b) == Packed(ws, i, bits, v, x, b)
<1>1. /\ a \in 0 .. (WordBits - 1) /\ w \in 0 .. (n - 1)
      /\ a + bits > WordBits => w + 1 \in 0 .. (n - 1)
  BY PlaceIs
<1>2. WordBits \in Nat /\ bits \in 1 .. WordBits
  BY WordBitsIs DEF Bits
<1>3. \A x \in 0 .. (n - 1), b \in 0 .. (WordBits - 1) : us[x][b] = P(x, b)
  BY PackIs
<1>4. BitAt(us, i, bits, j) =
        IF j < WordBits - a THEN us[w][a + j]
        ELSE IF a + bits - WordBits > 0 THEN us[w + 1][j - (bits - (a + bits - WordBits))] ELSE 0
  BY DEF BitAt
<1>5. \A x, b : P(x, b) = IF x = w /\ b \in a .. (a + bits - 1) THEN Bit(v, b - a)
                          ELSE IF x = w + 1 /\ b < a + bits - WordBits
                               THEN Bit(v, b + bits - (a + bits - WordBits))
                          ELSE ws[x][b]
  BY DEF Packed
<1> HIDE DEF w, a, n, us, P
<1>6. CASE j < WordBits - a
  <2>1. a + j \in 0 .. (WordBits - 1) /\ a + j \in a .. (a + bits - 1) /\ (a + j) - a = j
    BY <1>1, <1>2, <1>6
  <2>2. us[w][a + j] = P(w, a + j)
    BY <1>1, <1>3, <2>1
  <2>3. P(w, a + j) = Bit(v, j)
    BY <1>5, <2>1
  <2>4. BitAt(us, i, bits, j) = Bit(v, j)
    BY <1>4, <1>6, <2>2, <2>3
  <2> QED BY <2>4 DEF us
<1>7. CASE ~(j < WordBits - a)
  <2> DEFINE b == j - (bits - (a + bits - WordBits))
  <2>1. b \in 0 .. (WordBits - 1) /\ a + bits > WordBits /\ a + bits - WordBits > 0
        /\ b < a + bits - WordBits /\ b + bits - (a + bits - WordBits) = j /\ w + 1 # w
    BY <1>1, <1>2, <1>7
  <2> HIDE DEF b
  <2>2. us[w + 1][b] = P(w + 1, b)
    BY <1>1, <1>3, <2>1
  <2>3. P(w + 1, b) = Bit(v, j)
    BY <1>5, <2>1
  <2>4. BitAt(us, i, bits, j) = us[w + 1][b]
    BY <1>4, <1>7, <2>1 DEF b
  <2> QED BY <2>2, <2>3, <2>4 DEF us
<1> QED BY <1>6, <1>7

\* The bits of the values at i and k lie apart.
LEMMA NotShared ==
    ASSUME NEW bits \in Bits, NEW i \in Cell, NEW k \in Cell, i # k,
           NEW b, NEW c \in Nat, c = At(k, bits) + b, b \in 0 .. (bits - 1)
    PROVE  /\ c < WordBits =>
                /\ ~(Word(k, bits) = Word(i, bits) /\ c \in At(i, bits) .. (At(i, bits) + bits - 1))
                /\ ~(Word(k, bits) = Word(i, bits) + 1 /\ c < At(i, bits) + bits - WordBits)
           /\ c >= WordBits =>
                /\ ~(Word(k, bits) + 1 = Word(i, bits)
                     /\ c - WordBits \in At(i, bits) .. (At(i, bits) + bits - 1))
                /\ ~(Word(k, bits) + 1 = Word(i, bits) + 1 /\ c - WordBits < At(i, bits) + bits - WordBits)
<1> DEFINE w == Word(i, bits)
           x == Word(k, bits)
           a == At(i, bits)
           e == At(k, bits)
<1>1. /\ a \in 0 .. (WordBits - 1) /\ w \in Nat
      /\ e \in 0 .. (WordBits - 1) /\ x \in Nat
  <2>1. a \in 0 .. (WordBits - 1) /\ w \in 0 .. (WordCount(bits) - 1)
    BY PlaceIs
  <2>2. e \in 0 .. (WordBits - 1) /\ x \in 0 .. (WordCount(bits) - 1)
    BY PlaceIs
  <2> HIDE DEF w, x, a, e
  <2> QED BY <2>1, <2>2
<1>2. WordBits \in Nat /\ bits \in 1 .. WordBits /\ i \in Nat /\ k \in Nat
  BY WordBitsIs DEF Bits, Cell
<1>3. i < k => /\ w <= x
               /\ w = x => a + bits <= e
               /\ w + 1 = x => a + bits - WordBits <= e
  BY Apart
<1>4. k < i => /\ x <= w
               /\ x = w => e + bits <= a
               /\ x + 1 = w => e + bits - WordBits <= a
  BY Apart
<1>5. c = e + b
  OBVIOUS
<1> HIDE DEF w, x, a, e
<1>6. c < WordBits => ~(x = w /\ c \in a .. (a + bits - 1)) /\ ~(x = w + 1 /\ c < a + bits - WordBits)
  BY <1>1, <1>2, <1>3, <1>4, <1>5
<1>7. c >= WordBits => ~(x + 1 = w /\ c - WordBits \in a .. (a + bits - 1))
                       /\ ~(x + 1 = w + 1 /\ c - WordBits < a + bits - WordBits)
  BY <1>1, <1>2, <1>3, <1>4, <1>5
<1> QED BY <1>6, <1>7 DEF w, x, a

LEMMA PackOther ==
    ASSUME NEW bits \in Bits, NEW i \in Cell, NEW ws \in WordsOf(bits), NEW v \in Nat,
           NEW k \in Cell, i # k, NEW j \in 0 .. (bits - 1)
    PROVE  BitAt(Pack(ws, i, bits, v), k, bits, j) = BitAt(ws, k, bits, j)
<1> DEFINE w == Word(i, bits)
           a == At(i, bits)
           x == Word(k, bits)
           e == At(k, bits)
           n == WordCount(bits)
           us == Pack(ws, i, bits, v)
           P(m, b) == Packed(ws, i, bits, v, m, b)
<1>1. /\ e \in 0 .. (WordBits - 1) /\ x \in 0 .. (n - 1)
      /\ e + bits > WordBits => x + 1 \in 0 .. (n - 1)
  BY PlaceIs
<1>2. WordBits \in Nat /\ bits \in 1 .. WordBits
  BY WordBitsIs DEF Bits
<1>3. \A m \in 0 .. (n - 1), b \in 0 .. (WordBits - 1) : us[m][b] = P(m, b)
  BY PackIs
<1>4. /\ BitAt(us, k, bits, j) =
            IF j < WordBits - e THEN us[x][e + j]
            ELSE IF e + bits - WordBits > 0 THEN us[x + 1][j - (bits - (e + bits - WordBits))] ELSE 0
      /\ BitAt(ws, k, bits, j) =
            IF j < WordBits - e THEN ws[x][e + j]
            ELSE IF e + bits - WordBits > 0 THEN ws[x + 1][j - (bits - (e + bits - WordBits))] ELSE 0
  BY DEF BitAt
<1>5. \A m, b : ~(m = w /\ b \in a .. (a + bits - 1)) /\ ~(m = w + 1 /\ b < a + bits - WordBits)
                => P(m, b) = ws[m][b]
  BY DEF Packed
<1> DEFINE c == e + j
<1>6. c \in Nat /\ c = e + j
  BY <1>1, <1>2
<1>7. /\ c < WordBits => ~(x = w /\ c \in a .. (a + bits - 1)) /\ ~(x = w + 1 /\ c < a + bits - WordBits)
      /\ c >= WordBits => ~(x + 1 = w /\ c - WordBits \in a .. (a + bits - 1))
                          /\ ~(x + 1 = w + 1 /\ c - WordBits < a + bits - WordBits)
  <2> HIDE DEF c
  <2> QED BY <1>6, NotShared
<1> HIDE DEF w, a, x, e, n, us, P, c
<1>8. CASE j < WordBits - e
  <2>1. c \in 0 .. (WordBits - 1) /\ c < WordBits
    BY <1>1, <1>2, <1>6, <1>8
  <2>2. us[x][c] = ws[x][c]
    BY <1>1, <1>3, <1>5, <1>7, <2>1
  <2>3. BitAt(us, k, bits, j) = BitAt(ws, k, bits, j)
    BY <1>4, <1>6, <1>8, <2>2
  <2> QED BY <2>3 DEF us
<1>9. CASE ~(j < WordBits - e)
  <2> DEFINE b == j - (bits - (e + bits - WordBits))
  <2>1. b \in 0 .. (WordBits - 1) /\ e + bits > WordBits /\ e + bits - WordBits > 0
        /\ b = c - WordBits /\ c >= WordBits
    BY <1>1, <1>2, <1>6, <1>9
  <2> HIDE DEF b
  <2>2. us[x + 1][b] = ws[x + 1][b]
    BY <1>1, <1>3, <1>5, <1>7, <2>1
  <2>3. BitAt(us, k, bits, j) = us[x + 1][b]
    BY <1>4, <1>9, <2>1 DEF b
  <2>4. BitAt(ws, k, bits, j) = ws[x + 1][b]
    BY <1>4, <1>9, <2>1 DEF b
  <2> QED BY <2>2, <2>3, <2>4 DEF us
<1> QED BY <1>8, <1>9

\* What packing and unpacking do: an array of numbers.
LEMMA PackUnpack ==
    ASSUME NEW bits \in Bits, NEW i \in Cell, NEW ws \in WordsOf(bits), NEW v \in 0 .. (Shifted[bits] - 1)
    PROVE  /\ Pack(ws, i, bits, v) \in WordsOf(bits)
           /\ Unpack(Pack(ws, i, bits, v), i, bits) = v
           /\ \A k \in Cell : k # i => Unpack(Pack(ws, i, bits, v), k, bits) = Unpack(ws, k, bits)
<1> DEFINE us == Pack(ws, i, bits, v)
<1>1. v \in Nat
  BY ShiftedIs DEF Bits
<1>2. us \in WordsOf(bits)
  BY <1>1, PackIs
<1>3. \A j \in 0 .. (bits - 1) : BitAt(us, i, bits, j) = Bit(v, j)
  BY <1>1, PackSame
<1>4. \A k \in Cell, j \in 0 .. (bits - 1) : k # i => BitAt(us, k, bits, j) = BitAt(ws, k, bits, j)
  BY <1>1, PackOther
<1> HIDE DEF us
<1>5. Unpack(us, i, bits) = v
  BY <1>2, <1>3, UnpackValue
<1>6. \A k \in Cell : k # i => Unpack(us, k, bits) = Unpack(ws, k, bits)
  BY <1>2, <1>4, UnpackSame
<1> QED BY <1>2, <1>5, <1>6 DEF us

LEMMA BlankUnpack ==
    ASSUME NEW bits \in Bits
    PROVE  Blank(bits) \in WordsOf(bits) /\ \A i \in Cell : Unpack(Blank(bits), i, bits) = 0
<1>1. Blank(bits) \in WordsOf(bits)
  BY DEF Blank, WordsOf
<1>2. ASSUME NEW i \in Cell PROVE Unpack(Blank(bits), i, bits) = 0
  <2>1. Shifted[bits] \in Nat \ {0} /\ 0 \in 0 .. (Shifted[bits] - 1)
    <3>1. bits \in 0 .. WordBits
      BY WordBitsIs DEF Bits
    <3> QED BY <3>1, ShiftedIs
  <2>2. ASSUME NEW j \in 0 .. (bits - 1) PROVE BitAt(Blank(bits), i, bits, j) = Bit(0, j)
    <3> DEFINE w == Word(i, bits)
               a == At(i, bits)
               n == WordCount(bits)
    <3>1. /\ a \in 0 .. (WordBits - 1) /\ w \in 0 .. (n - 1)
          /\ a + bits > WordBits => w + 1 \in 0 .. (n - 1)
      BY PlaceIs
    <3>2. WordBits \in Nat /\ bits \in 1 .. WordBits /\ j \in 0 .. WordBits
      BY WordBitsIs DEF Bits
    <3>3. Shifted[j] \in Nat \ {0}
      BY <3>2, ShiftedIs
    <3>4. Bit(0, j) = 0
      <4> DEFINE p == Shifted[j]
      <4>1. p \in Nat \ {0}
        BY <3>3
      <4> HIDE DEF p
      <4>2. (0 \div p) % 2 = 0
        BY <4>1
      <4> QED BY <4>2 DEF Bit, p
    <3>5. \A x \in 0 .. (n - 1), b \in 0 .. (WordBits - 1) : Blank(bits)[x][b] = 0
      BY DEF Blank
    <3>6. BitAt(Blank(bits), i, bits, j) =
            IF j < WordBits - a THEN Blank(bits)[w][a + j]
            ELSE IF a + bits - WordBits > 0
                 THEN Blank(bits)[w + 1][j - (bits - (a + bits - WordBits))] ELSE 0
      BY DEF BitAt
    <3> HIDE DEF w, a, n
    <3>7. CASE j < WordBits - a
      <4>1. a + j \in 0 .. (WordBits - 1)
        BY <3>1, <3>2, <3>7
      <4> QED BY <3>1, <3>4, <3>5, <3>6, <3>7, <4>1
    <3>8. CASE ~(j < WordBits - a)
      <4>1. j - (bits - (a + bits - WordBits)) \in 0 .. (WordBits - 1) /\ a + bits > WordBits
        BY <3>1, <3>2, <3>8
      <4> QED BY <3>1, <3>4, <3>5, <3>6, <3>8, <4>1
    <3> QED BY <3>7, <3>8
  <2> QED BY <1>1, <2>1, <2>2, UnpackValue
<1> QED BY <1>1, <1>2

-----------------------------------------------------------------------------
(* Packed sections: palettes.                                              *)

PaletteOK(p) ==
    /\ p \in Seq(BlockStates) /\ Len(p) <= Capacity
    /\ \A i, j \in 1 .. Len(p) : p[i] = p[j] => i = j

\* The words of a section with the palette p, and without one, that has the cells c.
Indexes(ws, p, c) ==
    /\ ws \in WordsOf(PaletteBits)
    /\ \A k \in Cell : /\ Unpack(ws, k, PaletteBits) \in 0 .. (Len(p) - 1)
                       /\ p[Unpack(ws, k, PaletteBits) + 1] = c[k]
Stated(ws, c) ==
    /\ ws \in WordsOf(DirectBits)
    /\ \A k \in Cell : Unpack(ws, k, DirectBits) = c[k]

\* The widths are legal and apart, and a palette has room for two states.
LEMMA WidthsAre ==
    /\ PaletteBits \in Bits /\ DirectBits \in Bits
    /\ PaletteBits # 0 /\ DirectBits # 0 /\ PaletteBits # DirectBits
    /\ Capacity \in Nat /\ Capacity >= 2 /\ Capacity = Shifted[PaletteBits]
    /\ BlockStates \subseteq 0 .. (Shifted[DirectBits] - 1)
<1>1. PaletteBits \in 1 .. WordBits /\ WordBits \in Nat
  BY SectionsAssumption
<1>2. PaletteBits - 1 \in 0 .. WordBits
  BY <1>1
<1>3. Shifted[PaletteBits - 1] \in Nat \ {0} /\ Shifted[PaletteBits] = 2 * Shifted[PaletteBits - 1]
  BY <1>1, <1>2, ShiftedIs
<1>4. Capacity \in Nat /\ Capacity >= 2
  BY <1>3 DEF Capacity
<1> QED BY <1>1, <1>4, SectionsAssumption DEF Bits, Capacity

\* The index of a state that the palette has.
LEMMA LocalIdIs ==
    ASSUME NEW p, PaletteOK(p), NEW s, InPalette(p, s)
    PROVE  LocalId(p, s) \in 0 .. (Len(p) - 1) /\ p[LocalId(p, s) + 1] = s
<1>1. PICK j \in 1 .. Len(p) : p[j] = s
  BY DEF InPalette, PaletteOK
<1>2. Len(p) \in Nat
  BY DEF PaletteOK
<1>3. j - 1 \in 0 .. (Len(p) - 1) /\ p[(j - 1) + 1] = s
  BY <1>1, <1>2
<1>4. \E i \in 0 .. (Len(p) - 1) : p[i + 1] = s
  BY <1>3
<1> QED BY <1>4, Zenon DEF LocalId

\* A cell set to a state of the palette changes that cell and no other.
LEMMA PaletteStep ==
    ASSUME NEW p, PaletteOK(p), NEW ws, NEW c \in [Cell -> BlockStates], Indexes(ws, p, c),
           NEW i \in Cell, NEW s \in BlockStates, InPalette(p, s)
    PROVE  Indexes(Pack(ws, i, PaletteBits, LocalId(p, s)), p, [c EXCEPT ![i] = s])
<1> DEFINE v == LocalId(p, s)
           us == Pack(ws, i, PaletteBits, v)
           d == [c EXCEPT ![i] = s]
<1>1. v \in 0 .. (Len(p) - 1) /\ p[v + 1] = s
  BY LocalIdIs
<1>2. v \in 0 .. (Shifted[PaletteBits] - 1)
  <2>1. Len(p) \in Nat /\ Len(p) <= Capacity
    BY DEF PaletteOK
  <2> HIDE DEF v
  <2> QED BY <1>1, <2>1, WidthsAre
<1>3. ws \in WordsOf(PaletteBits) /\ PaletteBits \in Bits
  BY WidthsAre DEF Indexes
<1>4. /\ us \in WordsOf(PaletteBits)
      /\ Unpack(us, i, PaletteBits) = v
      /\ \A k \in Cell : k # i => Unpack(us, k, PaletteBits) = Unpack(ws, k, PaletteBits)
  <2> HIDE DEF v
  <2> QED BY <1>2, <1>3, PackUnpack
<1>5. d[i] = s /\ \A k \in Cell : k # i => d[k] = c[k]
  OBVIOUS
<1> HIDE DEF v, us, d
<1>6. ASSUME NEW k \in Cell
      PROVE  Unpack(us, k, PaletteBits) \in 0 .. (Len(p) - 1) /\ p[Unpack(us, k, PaletteBits) + 1] = d[k]
  <2>1. CASE k = i
    BY <1>1, <1>4, <1>5, <2>1
  <2>2. CASE k # i
    BY <1>4, <1>5, <2>2 DEF Indexes
  <2> QED BY <2>1, <2>2
<1>7. Indexes(us, p, d)
  BY <1>4, <1>6 DEF Indexes
<1> QED BY <1>7 DEF us, v, d

\* A cell set to a state itself changes that cell and no other.
LEMMA DirectStep ==
    ASSUME NEW ws, NEW c \in [Cell -> BlockStates], Stated(ws, c), NEW i \in Cell, NEW s \in BlockStates
    PROVE  Stated(Pack(ws, i, DirectBits, s), [c EXCEPT ![i] = s])
<1> DEFINE us == Pack(ws, i, DirectBits, s)
           d == [c EXCEPT ![i] = s]
<1>1. ws \in WordsOf(DirectBits) /\ DirectBits \in Bits /\ s \in 0 .. (Shifted[DirectBits] - 1)
  BY WidthsAre DEF Stated
<1>2. /\ us \in WordsOf(DirectBits)
      /\ Unpack(us, i, DirectBits) = s
      /\ \A k \in Cell : k # i => Unpack(us, k, DirectBits) = Unpack(ws, k, DirectBits)
  BY <1>1, PackUnpack
<1>3. d[i] = s /\ \A k \in Cell : k # i => d[k] = c[k]
  OBVIOUS
<1> HIDE DEF us, d
<1>4. \A k \in Cell : Unpack(us, k, DirectBits) = d[k]
  BY <1>2, <1>3 DEF Stated
<1>5. Stated(us, d)
  BY <1>2, <1>4 DEF Stated
<1> QED BY <1>5 DEF us, d

\* A palette with one more state still shows the same cells.
LEMMA PaletteGrown ==
    ASSUME NEW p, PaletteOK(p), NEW ws, NEW c, Indexes(ws, p, c), NEW s \in BlockStates,
           ~InPalette(p, s), Len(p) < Capacity
    PROVE  /\ PaletteOK(Append(p, s)) /\ Indexes(ws, Append(p, s), c)
           /\ InPalette(Append(p, s), s)
<1> DEFINE q == Append(p, s)
           n == Len(p)
<1>1. p \in Seq(BlockStates) /\ n \in Nat /\ Capacity \in Nat /\ n < Capacity
  BY WidthsAre DEF PaletteOK
<1>2. q \in Seq(BlockStates) /\ Len(q) = n + 1 /\ q[n + 1] = s /\ \A j \in 1 .. n : q[j] = p[j]
  BY <1>1
<1>3. \A j \in 1 .. n : p[j] # s
  BY <1>1 DEF InPalette
<1> HIDE DEF q, n
<1>4. ASSUME NEW j \in 1 .. (n + 1), NEW k \in 1 .. (n + 1), q[j] = q[k] PROVE j = k
  <2>1. \A x, m \in 1 .. n : p[x] = p[m] => x = m
    BY DEF PaletteOK, n
  <2> QED BY <1>1, <1>2, <1>3, <1>4, <2>1
<1>5. PaletteOK(q)
  BY <1>1, <1>2, <1>4 DEF PaletteOK
<1>6. InPalette(q, s)
  BY <1>1, <1>2 DEF InPalette
<1>7. ASSUME NEW k \in Cell
      PROVE  Unpack(ws, k, PaletteBits) \in 0 .. (Len(q) - 1) /\ q[Unpack(ws, k, PaletteBits) + 1] = c[k]
  <2> DEFINE v == Unpack(ws, k, PaletteBits)
  <2>1. v \in 0 .. (n - 1) /\ p[v + 1] = c[k]
    BY DEF Indexes, n
  <2> HIDE DEF v
  <2>2. v \in 0 .. ((n + 1) - 1) /\ v + 1 \in 1 .. n
    BY <1>1, <2>1
  <2>3. v \in 0 .. (Len(q) - 1) /\ q[v + 1] = c[k]
    BY <1>2, <2>1, <2>2
  <2> QED BY <2>3 DEF v
<1>8. Indexes(ws, q, c)
  BY <1>7 DEF Indexes
<1> QED BY <1>5, <1>6, <1>8 DEF q

\* The first palette: the state the section was filled with, and the new one.
LEMMA PaletteMade ==
    ASSUME NEW u \in BlockStates, NEW s \in BlockStates, u # s, NEW c, \A k \in Cell : c[k] = u
    PROVE  /\ PaletteOK(<<u, s>>) /\ Indexes(Blank(PaletteBits), <<u, s>>, c)
           /\ InPalette(<<u, s>>, s)
<1> DEFINE q == <<u, s>>
<1>1. q \in Seq(BlockStates) /\ Len(q) = 2 /\ q[1] = u /\ q[2] = s /\ 2 \in DOMAIN q
  OBVIOUS
<1> HIDE DEF q
<1>2. PaletteOK(q) /\ InPalette(q, s)
  BY <1>1, WidthsAre DEF PaletteOK, InPalette
<1>3. /\ Blank(PaletteBits) \in WordsOf(PaletteBits)
      /\ \A k \in Cell : Unpack(Blank(PaletteBits), k, PaletteBits) = 0
  BY WidthsAre, BlankUnpack
<1>4. Indexes(Blank(PaletteBits), q, c)
  BY <1>1, <1>3 DEF Indexes
<1> QED BY <1>2, <1>4 DEF q

-----------------------------------------------------------------------------
(* Packed sections: every cell has the state it was last given.            *)

\* The words of the palette read cell by cell, a state in the place of each index.
LEMMA UnpalettedIs ==
    ASSUME NEW c \in [Cell -> BlockStates], Indexes(words, palette, c)
    PROVE  Stated(Unpaletted, c)
<1> DEFINE T == WordsOf(DirectBits)
           St(i) == palette[Unpack(words, i - 1, PaletteBits) + 1]
           E(g) == g = [i \in 0 .. Volume |-> IF i = 0 THEN Blank(DirectBits)
                                              ELSE Pack(g[i - 1], i - 1, DirectBits, St(i))]
           F == [q \in (1 .. Volume) \X T |-> Pack(q[2], q[1] - 1, DirectBits, St(q[1]))]
<1>1. Unpaletted = (CHOOSE g : E(g))[Volume]
  BY Zenon DEF Unpaletted
<1>2. Volume \in Nat /\ \A i \in 1 .. Volume : i - 1 \in Cell
  BY WordBitsIs DEF Cell
<1>3. ASSUME NEW i \in 1 .. Volume PROVE St(i) = c[i - 1] /\ St(i) \in 0 .. (Shifted[DirectBits] - 1)
  BY <1>2, WidthsAre DEF Indexes
<1>4. \A i \in 1 .. Volume : St(i) \in Nat
  <2> HIDE DEF St
  <2>1. Shifted[DirectBits] \in Nat
    BY WidthsAre, ShiftedIs DEF Bits
  <2> QED BY <1>3, <2>1
<1>5. Blank(DirectBits) \in T /\ DirectBits \in Bits
  BY WidthsAre, BlankUnpack
<1> HIDE DEF St
<1>6. F \in [(1 .. Volume) \X T -> T]
  <2>1. ASSUME NEW i \in 1 .. Volume, NEW x \in T PROVE Pack(x, i - 1, DirectBits, St(i)) \in T
    BY <1>2, <1>4, <1>5, PackIs
  <2> HIDE DEF T
  <2> QED BY <2>1
<1>7. PICK g \in [0 .. Volume -> T] : StepsUp(g, Volume, Blank(DirectBits), F)
  <2> HIDE DEF T, F
  <2> QED BY <1>2, <1>5, <1>6, StepsExist
<1>8. ASSUME NEW i \in 1 .. Volume PROVE g[i] = Pack(g[i - 1], i - 1, DirectBits, St(i))
  <2> HIDE DEF T
  <2>1. <<i, g[i - 1]>> \in (1 .. Volume) \X T
    BY <1>2, <1>7
  <2> QED BY <1>7, <2>1 DEF StepsUp
<1>9. E(g)
  <2>1. g[0] = Blank(DirectBits) /\ DOMAIN g = 0 .. Volume
    BY <1>7 DEF StepsUp
  <2> QED BY <1>2, <1>7, <1>8, <2>1
<1>10. E(CHOOSE h : E(h))
  <2> HIDE DEF E
  <2> QED BY <1>9
<1> DEFINE h == CHOOSE x : E(x)
<1>11. h[0] = Blank(DirectBits) /\ \A i \in 1 .. Volume : h[i] = Pack(h[i - 1], i - 1, DirectBits, St(i))
  <2>1. E(h)
    BY <1>10
  <2> HIDE DEF h
  <2> QED BY <1>2, <2>1
<1> HIDE DEF h, F
<1> DEFINE S == {i \in 0 .. Volume : h[i] \in T /\ \A k \in Cell : k < i => Unpack(h[i], k, DirectBits) = c[k]}
<1>12. 0 \in S
  BY <1>2, <1>5, <1>11 DEF Cell
<1>13. \A i \in 0 .. Volume : i < Volume /\ i \in S => i + 1 \in S
  <2> SUFFICES ASSUME NEW i \in 0 .. Volume, i < Volume, i \in S PROVE i + 1 \in S
    OBVIOUS
  <2>1. i + 1 \in 1 .. Volume /\ (i + 1) - 1 = i /\ i \in Cell
    BY <1>2 DEF Cell
  <2>2. h[i + 1] = Pack(h[i], i, DirectBits, St(i + 1))
    BY <1>11, <2>1
  <2>3. St(i + 1) = c[i] /\ St(i + 1) \in 0 .. (Shifted[DirectBits] - 1)
    BY <1>3, <2>1
  <2>4. h[i] \in T
    OBVIOUS
  <2>5. /\ h[i + 1] \in T /\ Unpack(h[i + 1], i, DirectBits) = c[i]
        /\ \A k \in Cell : k # i => Unpack(h[i + 1], k, DirectBits) = Unpack(h[i], k, DirectBits)
    BY <1>5, <2>1, <2>2, <2>3, <2>4, PackUnpack
  <2>6. ASSUME NEW k \in Cell, k < i + 1 PROVE Unpack(h[i + 1], k, DirectBits) = c[k]
    <3>1. CASE k = i
      BY <2>5, <3>1
    <3>2. CASE k # i
      <4>1. k < i
        BY <1>2, <2>6, <3>2 DEF Cell
      <4> QED BY <2>5, <3>2, <4>1
    <3> QED BY <3>1, <3>2
  <2> QED BY <1>2, <2>1, <2>5, <2>6
<1>14. \A i \in 0 .. Volume : i \in S
  <2> HIDE DEF S
  <2> QED BY <1>2, <1>12, <1>13, CountUp
<1>15. h[Volume] \in T /\ \A k \in Cell : Unpack(h[Volume], k, DirectBits) = c[k]
  BY <1>2, <1>14 DEF Cell
<1> QED BY <1>1, <1>15 DEF Stated, h

\* The cells that are not air.
Solids(c) == {i \in Cell : c[i] \notin AirStates}

\* One cell set changes the number of cells that are not air by one at most.
LEMMA FilledStep ==
    ASSUME NEW c \in [Cell -> BlockStates], NEW i \in Cell, NEW s \in BlockStates
    PROVE  Cardinality(Solids([c EXCEPT ![i] = s])) = Cardinality(Solids(c)) + CountChange(c[i], s)
<1> DEFINE d == [c EXCEPT ![i] = s]
<1>1. d[i] = s /\ \A k \in Cell : k # i => d[k] = c[k]
  OBVIOUS
<1>2. IsFiniteSet(Cell)
  BY WordBitsIs, FS_Interval DEF Cell
<1>3. IsFiniteSet(Solids(c))
  BY <1>2, FS_Subset DEF Solids
<1>4. Cardinality(Solids(c)) \in Nat
  BY <1>3, FS_CardinalityType
<1> HIDE DEF d
<1>5. CASE (c[i] \in AirStates) <=> (s \in AirStates)
  <2>1. Solids(d) = Solids(c)
    BY <1>1, <1>5 DEF Solids
  <2>2. CountChange(c[i], s) = 0
    BY <1>5 DEF CountChange
  <2> QED BY <1>4, <2>1, <2>2 DEF d
<1>6. CASE c[i] \in AirStates /\ s \notin AirStates
  <2>1. Solids(d) = Solids(c) \cup {i} /\ i \notin Solids(c)
    BY <1>1, <1>6 DEF Solids
  <2>2. CountChange(c[i], s) = 1
    BY <1>6 DEF CountChange
  <2>3. Cardinality(Solids(d)) = Cardinality(Solids(c)) + 1
    BY <1>3, <2>1, FS_AddElement
  <2> QED BY <2>2, <2>3 DEF d
<1>7. CASE c[i] \notin AirStates /\ s \in AirStates
  <2>1. Solids(d) = Solids(c) \ {i} /\ i \in Solids(c)
    BY <1>1, <1>7 DEF Solids
  <2>2. CountChange(c[i], s) = -1
    BY <1>7 DEF CountChange
  <2>3. Cardinality(Solids(d)) = Cardinality(Solids(c)) - 1
    BY <1>3, <2>1, FS_RemoveElement
  <2> QED BY <1>4, <2>2, <2>3 DEF d
<1> QED BY <1>5, <1>6, <1>7

\* The inductive invariant: what the words, with the palette or without, say of
\* each cell.
SectionInv ==
    /\ cells \in [Cell -> BlockStates]
    /\ nonAir = Cardinality(Solids(cells))
    /\ PaletteOK(palette)
    /\ \/ width = 0 /\ \A i \in Cell : cells[i] = uniform
       \/ width = PaletteBits /\ Indexes(words, palette, cells)
       \/ width = DirectBits /\ Stated(words, cells)

LEMMA StateIs == SectionInv => \A i \in Cell : StateAt(i) = cells[i]
<1> SUFFICES ASSUME SectionInv, NEW i \in Cell PROVE StateAt(i) = cells[i]
  OBVIOUS
<1>1. CASE width = 0 /\ \A k \in Cell : cells[k] = uniform
  BY <1>1 DEF StateAt
<1>2. CASE width = PaletteBits /\ Indexes(words, palette, cells)
  <2>1. Len(palette) \in Nat
    BY DEF SectionInv, PaletteOK
  <2> DEFINE v == Unpack(words, i, PaletteBits)
  <2>2. v \in 0 .. (Len(palette) - 1) /\ palette[v + 1] = cells[i]
    BY <1>2 DEF Indexes
  <2>3. StateAt(i) = IF v >= Len(palette) THEN 0 ELSE palette[v + 1]
    BY <1>2, WidthsAre DEF StateAt
  <2> HIDE DEF v
  <2> QED BY <2>1, <2>2, <2>3
<1>3. CASE width = DirectBits /\ Stated(words, cells)
  BY <1>3, WidthsAre DEF StateAt, Stated
<1> QED BY <1>1, <1>2, <1>3 DEF SectionInv

LEMMA SectionInvHolds == SectionsSpec => []SectionInv
<1>1. SectionsInit => SectionInv
  <2> SUFFICES ASSUME SectionsInit PROVE SectionInv
    OBVIOUS
  <2>1. PICK f \in AirStates : /\ width = 0 /\ uniform = f /\ palette = << >> /\ words = << >>
                               /\ nonAir = 0 /\ cells = [i \in Cell |-> f]
    BY DEF SectionsInit
  <2>2. f \in BlockStates
    BY SectionsAssumption
  <2>3. cells \in [Cell -> BlockStates] /\ \A i \in Cell : cells[i] = f
    BY <2>1, <2>2
  <2>4. Solids(cells) = {}
    BY <2>3 DEF Solids
  <2>5. nonAir = Cardinality(Solids(cells))
    BY <2>1, <2>4, FS_EmptySet
  <2>6. PaletteOK(palette)
    BY <2>1, WidthsAre DEF PaletteOK
  <2> QED BY <2>1, <2>3, <2>5, <2>6 DEF SectionInv
<1>2. SectionInv /\ [SectionsNext]_sectionVars => SectionInv'
  <2> SUFFICES ASSUME SectionInv, [SectionsNext]_sectionVars PROVE SectionInv'
    OBVIOUS
  <2>1. CASE UNCHANGED sectionVars
    BY <2>1 DEF sectionVars, SectionInv, Solids, PaletteOK, Indexes, Stated
  <2>2. ASSUME NEW i \in Cell, NEW s \in BlockStates, SetSection(i, s) PROVE SectionInv'
    <3> DEFINE d == [cells EXCEPT ![i] = s]
    <3>1. cells \in [Cell -> BlockStates] /\ cells' = d /\ d \in [Cell -> BlockStates]
      BY <2>2 DEF SectionInv, SetSection
    <3>2. StateAt(i) = cells[i] /\ cells[i] # s
      BY <2>2, StateIs DEF SetSection
    <3>3. nonAir' = Cardinality(Solids(d))
      <4>1. nonAir' = Cardinality(Solids(cells)) + CountChange(cells[i], s)
        BY <2>2, <3>2 DEF SectionInv, SetSection
      <4>2. Cardinality(Solids(d)) = Cardinality(Solids(cells)) + CountChange(cells[i], s)
        BY <3>1, FilledStep
      <4> QED BY <4>1, <4>2
    <3>4. nonAir' = Cardinality(Solids(cells))'
      BY <3>1, <3>3 DEF Solids
    <3>5. PaletteOK(palette)
      BY DEF SectionInv
    <3>6. ASSUME NEW p, PaletteOK(p), NEW ws, Indexes(ws, p, cells), InPalette(p, s), SetPaletted(i, s, p, ws)
          PROVE  SectionInv'
      <4>1. Indexes(Pack(ws, i, PaletteBits, LocalId(p, s)), p, d)
        BY <3>1, <3>6, PaletteStep
      <4>2. width' = PaletteBits /\ palette' = p /\ words' = Pack(ws, i, PaletteBits, LocalId(p, s))
        BY <3>6 DEF SetPaletted
      <4> HIDE DEF d
      <4>3. PaletteOK(palette')
        BY <3>6, <4>2
      <4>4. Indexes(words', palette', cells')
        BY <3>1, <4>1, <4>2
      <4> QED BY <3>1, <3>4, <4>2, <4>3, <4>4 DEF SectionInv, PaletteOK, Indexes
    <3>7. ASSUME NEW ws, Stated(ws, cells), SetDirect(i, s, ws) PROVE SectionInv'
      <4>1. Stated(Pack(ws, i, DirectBits, s), d)
        BY <3>1, <3>7, DirectStep
      <4>2. width' = DirectBits /\ palette' = << >> /\ words' = Pack(ws, i, DirectBits, s)
        BY <3>7 DEF SetDirect
      <4> HIDE DEF d
      <4>3. PaletteOK(palette')
        BY <4>2, WidthsAre DEF PaletteOK
      <4>4. Stated(words', cells')
        BY <3>1, <4>1, <4>2
      <4> QED BY <3>1, <3>4, <4>2, <4>3, <4>4 DEF SectionInv, PaletteOK, Stated
    <3>8. CASE width = 0 /\ SetPaletted(i, s, <<uniform, s>>, Blank(PaletteBits))
      <4>1. \A k \in Cell : cells[k] = uniform
        BY <3>8, WidthsAre DEF SectionInv
      <4>2. uniform \in BlockStates /\ uniform # s
        BY <3>1, <3>2, <4>1
      <4>3. /\ PaletteOK(<<uniform, s>>) /\ Indexes(Blank(PaletteBits), <<uniform, s>>, cells)
            /\ InPalette(<<uniform, s>>, s)
        BY <4>1, <4>2, PaletteMade
      <4> QED BY <3>6, <3>8, <4>3
    <3>9. width = PaletteBits => Indexes(words, palette, cells)
      BY WidthsAre DEF SectionInv
    <3>10. CASE width = PaletteBits /\ InPalette(palette, s) /\ SetPaletted(i, s, palette, words)
      BY <3>5, <3>6, <3>9, <3>10
    <3>11. CASE /\ width = PaletteBits /\ ~InPalette(palette, s) /\ Len(palette) < Capacity
                /\ SetPaletted(i, s, Append(palette, s), words)
      BY <3>5, <3>6, <3>9, <3>11, PaletteGrown
    <3>12. CASE width = PaletteBits /\ SetDirect(i, s, Unpaletted)
      BY <3>1, <3>7, <3>9, <3>12, UnpalettedIs
    <3>13. CASE width = DirectBits /\ SetDirect(i, s, words)
      <4>1. Stated(words, cells)
        BY <3>13, WidthsAre DEF SectionInv
      <4> QED BY <3>7, <3>13, <4>1
    <3> QED BY <2>2, <3>8, <3>10, <3>11, <3>12, <3>13 DEF SetSection
  <2> QED BY <2>1, <2>2 DEF SectionsNext
<1> QED BY <1>1, <1>2, PTL DEF SectionsSpec

\* The palette has no state twice and no more states than the width can number,
\* and the count of cells that are not air is one of the section (paletted_container.c).
THEOREM SectionsTypeCorrect == SectionsSpec => []SectionsTypeOK
<1>1. SectionInv => SectionsTypeOK
  <2> SUFFICES ASSUME SectionInv PROVE SectionsTypeOK
    OBVIOUS
  <2>1. IsFiniteSet(Cell) /\ Cardinality(Cell) = Volume
    <3>1. Volume \in Nat /\ Cell = 0 .. (Volume - 1)
      BY WordBitsIs DEF Cell
    <3> QED BY <3>1, FS_Interval
  <2>2. Cardinality(Solids(cells)) \in Nat /\ Cardinality(Solids(cells)) <= Volume
    <3>1. Solids(cells) \subseteq Cell
      BY DEF Solids
    <3>2. IsFiniteSet(Solids(cells))
      BY <2>1, <3>1, FS_Subset
    <3> QED BY <2>1, <3>1, <3>2, FS_Subset, FS_CardinalityType
  <2>3. nonAir \in 0 .. Volume
    BY <2>2, WordBitsIs DEF SectionInv
  <2>4. DOMAIN palette = 1 .. Len(palette)
    BY DEF SectionInv, PaletteOK
  <2> QED BY <2>3, <2>4 DEF SectionInv, SectionsTypeOK, PaletteOK
<1> QED BY <1>1, SectionInvHolds, PTL

\* Every cell reads the state it was last given and the count of cells that are
\* not air is exact, through both promotions and with values across two words
\* (mc_paletted_container_set_block).
THEOREM SectionHoldsCorrect == SectionsSpec => []SectionHolds
<1>1. SectionInv => SectionHolds
  BY StateIs DEF SectionInv, SectionHolds, Solids
<1> QED BY <1>1, SectionInvHolds, PTL

-----------------------------------------------------------------------------
(* Framing: VarInts.                                                       *)

LEMMA WeightIs ==
    /\ Weight[0] = 1
    /\ \A j \in 0 .. VarIntBytes : Weight[j] \in Nat \ {0}
    /\ \A j \in 1 .. VarIntBytes : Weight[j] = 2 * Weight[j - 1]
<1> DEFINE n == VarIntBytes
           E(g) == g = [j \in 0 .. VarIntBytes |-> IF j = 0 THEN 1 ELSE Base * g[j - 1]]
           T == Nat \ {0}
           F == [p \in (1 .. n) \X T |-> 2 * p[2]]
<1>1. n \in Nat
  BY FramingAssumption
<1>2. F \in [(1 .. n) \X T -> T] /\ 1 \in T
  OBVIOUS
<1>3. PICK g \in [0 .. n -> T] : StepsUp(g, n, 1, F)
  <2> HIDE DEF F, T, n
  <2> QED BY <1>1, <1>2, StepsExist
<1>4. E(g)
  <2>1. ASSUME NEW j \in 1 .. n PROVE g[j] = 2 * g[j - 1]
    <3> HIDE DEF T
    <3>1. <<j, g[j - 1]>> \in (1 .. n) \X T
      BY <1>1, <1>3
    <3> QED BY <1>3, <3>1 DEF StepsUp
  <2> QED BY <1>1, <1>3, <2>1 DEF StepsUp, Base
<1>5. E(CHOOSE h : E(h))
  <2> HIDE DEF E
  <2> QED BY <1>4
<1>6. E(Weight)
  BY <1>5, Zenon DEF Weight
<1>7. Weight[0] = 1 /\ \A j \in 1 .. n : Weight[j] = 2 * Weight[j - 1]
  BY <1>1, <1>6 DEF Base
<1> DEFINE S == {j \in 0 .. n : Weight[j] \in Nat \ {0}}
<1>8. 0 \in S
  BY <1>1, <1>7
<1>9. \A j \in 0 .. n : j < n /\ j \in S => j + 1 \in S
  <2> SUFFICES ASSUME NEW j \in 0 .. n, j < n, Weight[j] \in Nat \ {0}
               PROVE  j + 1 \in 0 .. n /\ Weight[j + 1] \in Nat \ {0}
    OBVIOUS
  <2>1. j + 1 \in 1 .. n /\ (j + 1) - 1 = j
    BY <1>1
  <2> QED BY <1>7, <2>1
<1>10. \A j \in 0 .. n : j \in S
  <2> HIDE DEF S, n
  <2> QED BY <1>1, <1>8, <1>9, CountUp
<1> QED BY <1>7, <1>10

\* Numbers that a VarInt holds.
Number == 0 .. (Weight[VarIntBytes] - 1)
Digit(v, j) == (v \div Weight[j]) % Base

LEMMA DigitIs ==
    ASSUME NEW v \in Nat, NEW j \in 0 .. VarIntBytes
    PROVE  /\ Digit(v, j) \in {0, 1}
           /\ v % Weight[j] \in Nat
           /\ j + 1 \in 0 .. VarIntBytes =>
                v % Weight[j + 1] = (v % Weight[j]) + Digit(v, j) * Weight[j]
<1> DEFINE p == Weight[j]
           q == v \div p
           r == v % p
           b == q % 2
           h == q \div 2
<1>1. p \in Nat \ {0}
  BY WeightIs
<1> HIDE DEF p
<1>2. q \in Nat /\ r \in 0 .. (p - 1) /\ v = p * q + r
  BY <1>1
<1> HIDE DEF q, r
<1>3. b \in {0, 1} /\ h \in Nat /\ q = 2 * h + b
  BY <1>2
<1>4. Digit(v, j) = b
  BY DEF Digit, Base, b, q, p
<1> HIDE DEF b, h
<1>5. ASSUME j + 1 \in 0 .. VarIntBytes PROVE v % Weight[j + 1] = r + b * p
  <2>1. Weight[j + 1] = 2 * p
    <3>1. j + 1 \in 1 .. VarIntBytes /\ (j + 1) - 1 = j
      BY <1>5, FramingAssumption
    <3> QED BY <3>1, WeightIs DEF p
  <2>2. b * p + r \in 0 .. (2 * p - 1)
    BY <1>1, <1>2, <1>3
  <2>3. v = (2 * p) * h + (b * p + r)
    BY <1>1, <1>2, <1>3
  <2>4. 2 * p \in Nat \ {0}
    BY <1>1
  <2> DEFINE n == 2 * p
             s == b * p + r
  <2>5. n \in Nat \ {0} /\ s \in 0 .. (n - 1) /\ v = n * h + s
    BY <2>2, <2>3, <2>4
  <2> HIDE DEF n, s
  <2>6. v % n = s
    BY <1>3, <2>5
  <2>7. s = r + b * p
    BY <1>1, <1>2, <1>3 DEF s
  <2> QED BY <2>1, <2>6, <2>7 DEF n
<1>6. r \in Nat
  BY <1>1, <1>2
<1> QED BY <1>3, <1>4, <1>5, <1>6 DEF p, r

\* How many bytes a number takes.
Fills(n, k) == n < Weight[k] /\ (k = 1 \/ n >= Weight[k - 1])
Size(n) == CHOOSE k \in 1 .. VarIntBytes : Fills(n, k)

LEMMA SizeIs == ASSUME NEW n \in Number PROVE Size(n) \in 1 .. VarIntBytes /\ Fills(n, Size(n))
<1> DEFINE top == VarIntBytes - 1
<1>1. VarIntBytes \in Nat \ {0} /\ top \in Nat
  BY FramingAssumption
<1>2. \E k \in 1 .. VarIntBytes : Fills(n, k)
  <2> SUFFICES ASSUME \A k \in 1 .. VarIntBytes : ~Fills(n, k) PROVE FALSE
    OBVIOUS
  <2> DEFINE S == {k \in 0 .. top : n >= Weight[k + 1]}
  <2>1. n \in Nat /\ n < Weight[VarIntBytes]
    BY <1>1, WeightIs DEF Number
  <2>2. \A k \in 1 .. VarIntBytes : n >= Weight[k] \/ (k # 1 /\ n < Weight[k - 1])
    <3> SUFFICES ASSUME NEW k \in 1 .. VarIntBytes PROVE n >= Weight[k] \/ (k # 1 /\ n < Weight[k - 1])
      OBVIOUS
    <3>1. Weight[k] \in Nat /\ Weight[k - 1] \in Nat
      <4>1. k \in 0 .. VarIntBytes /\ k - 1 \in 0 .. VarIntBytes
        BY <1>1
      <4> QED BY <4>1, WeightIs
    <3> QED BY <2>1, <3>1 DEF Fills
  <2>3. 0 \in S
    <3>1. 1 \in 1 .. VarIntBytes /\ 0 \in 0 .. top /\ 0 + 1 = 1
      BY <1>1
    <3>2. n >= Weight[1]
      BY <2>2, <3>1
    <3> QED BY <3>1, <3>2
  <2>4. \A k \in 0 .. top : k < top /\ k \in S => k + 1 \in S
    <3> SUFFICES ASSUME NEW k \in 0 .. top, k < top, n >= Weight[k + 1]
                 PROVE  k + 1 \in 0 .. top /\ n >= Weight[(k + 1) + 1]
      OBVIOUS
    <3> DEFINE m == (k + 1) + 1
    <3>1. m \in 1 .. VarIntBytes /\ m # 1 /\ m - 1 = k + 1 /\ k + 1 \in 0 .. top /\ k + 1 \in 0 .. VarIntBytes
      BY <1>1
    <3>2. Weight[k + 1] \in Nat
      BY <3>1, WeightIs
    <3> HIDE DEF m
    <3>3. n >= Weight[m] \/ n < Weight[k + 1]
      BY <2>2, <3>1
    <3>4. n >= Weight[m]
      BY <2>1, <3>2, <3>3
    <3> QED BY <3>1, <3>4 DEF m
  <2>5. \A k \in 0 .. top : k \in S
    <3> HIDE DEF S
    <3> QED BY <1>1, <2>3, <2>4, CountUp
  <2>6. top \in 0 .. top /\ top + 1 = VarIntBytes
    BY <1>1
  <2>7. n >= Weight[VarIntBytes]
    BY <2>5, <2>6
  <2>8. Weight[VarIntBytes] \in Nat
    BY <1>1, WeightIs
  <2> QED BY <2>1, <2>7, <2>8
<1> QED BY <1>2, Zenon DEF Size

\* The bytes of a number: its digits, the last of them told by what is missing.
LEMMA VarIntIs ==
    ASSUME NEW n \in Number
    PROVE  /\ VarInt(n) \in Seq(Octet) /\ Len(VarInt(n)) = Size(n) /\ Size(n) \in 1 .. VarIntBytes
           /\ n \in Nat
           /\ \A i \in 1 .. Size(n) : /\ VarInt(n)[i] % Base = Digit(n, i - 1)
                                      /\ VarInt(n)[i] < Base <=> i = Size(n)
<1> DEFINE k == Size(n)
           v == [i \in 1 .. k |-> Digit(n, i - 1) + (IF i < k THEN Base ELSE 0)]
<1>1. VarInt(n) = v
  BY Zenon DEF VarInt, Size, Fills, Digit
<1>2. k \in 1 .. VarIntBytes /\ VarIntBytes \in Nat
  BY SizeIs, FramingAssumption
<1>3. n \in Nat
  BY WeightIs, <1>2 DEF Number
<1> HIDE DEF k
<1>4. ASSUME NEW i \in 1 .. k PROVE Digit(n, i - 1) \in {0, 1}
  <2>1. i - 1 \in 0 .. VarIntBytes
    BY <1>2
  <2> QED BY <1>3, <2>1, DigitIs
<1>5. ASSUME NEW i \in 1 .. k
      PROVE  v[i] \in Octet /\ v[i] % Base = Digit(n, i - 1) /\ (v[i] < Base <=> i = k)
  <2> DEFINE d == Digit(n, i - 1)
  <2>1. d \in {0, 1} /\ v[i] = d + (IF i < k THEN 2 ELSE 0)
    BY <1>4 DEF Base
  <2> HIDE DEF d
  <2>2. v[i] \in Octet /\ v[i] % 2 = d /\ (v[i] < 2 <=> i = k)
    <3>1. CASE i < k
      <4>1. v[i] = d + 2 /\ i # k
        BY <1>2, <2>1, <3>1
      <4> HIDE DEF v
      <4> QED BY <2>1, <4>1 DEF Octet, Base
    <3>2. CASE ~(i < k)
      <4>1. v[i] = d /\ i = k
        BY <1>2, <2>1, <3>2
      <4> HIDE DEF v
      <4> QED BY <2>1, <4>1 DEF Octet, Base
    <3> QED BY <3>1, <3>2
  <2> QED BY <2>2 DEF Base, d
<1>6. v \in Seq(Octet) /\ Len(v) = k
  BY <1>2, <1>5
<1> HIDE DEF v
<1> QED BY <1>1, <1>2, <1>3, <1>5, <1>6 DEF k

-----------------------------------------------------------------------------
(* Framing: what varint_read makes of what varint_write wrote.             *)

\* b begins with t.
Begins(b, t) == Len(t) <= Len(b) /\ \A i \in 1 .. Len(t) : b[i] = t[i]

\* The value of the first k bytes.
ValueWalk(g, b, k) == g = [i \in 0 .. k |-> IF i = 0 THEN 0 ELSE g[i - 1] + (b[i] % Base) * Weight[i - 1]]

LEMMA ValueIs ==
    ASSUME NEW b \in Seq(Octet), VarIntLen(b) \in 1 .. VarIntBytes, VarIntLen(b) <= Len(b)
    PROVE  \E g : ValueWalk(g, b, VarIntLen(b)) /\ VarIntOf(b) = g[VarIntLen(b)]
<1> DEFINE k == VarIntLen(b)
           E(g) == ValueWalk(g, b, k)
           c == [i \in 1 .. k |-> (b[i] % Base) * Weight[i - 1]]
           F == [p \in (1 .. k) \X Int |-> p[2] + c[p[1]]]
<1>1. VarIntOf(b) = (CHOOSE g : E(g))[k]
  BY Zenon DEF VarIntOf, ValueWalk
<1>2. k \in Nat /\ k <= VarIntBytes /\ VarIntBytes \in Nat /\ Len(b) \in Nat /\ k <= Len(b)
  BY FramingAssumption
<1> HIDE DEF k
<1>3. \A i \in 1 .. k : (b[i] % Base) * Weight[i - 1] \in Int
  <2> SUFFICES ASSUME NEW i \in 1 .. k PROVE (b[i] % Base) * Weight[i - 1] \in Int
    OBVIOUS
  <2> DEFINE x == b[i] % Base
             m == Weight[i - 1]
  <2>1. b[i] \in Octet
    BY <1>2
  <2>2. x \in Int
    BY <2>1 DEF Octet, Base
  <2>3. i - 1 \in 0 .. VarIntBytes
    BY <1>2
  <2>4. m \in Int
    BY <2>3, WeightIs
  <2> HIDE DEF x, m
  <2>5. x * m \in Int
    BY <2>2, <2>4
  <2> QED BY <2>5 DEF x, m
<1>4. F \in [(1 .. k) \X Int -> Int] /\ 0 \in Int
  <2>1. \A i \in 1 .. k : c[i] \in Int
    BY <1>3
  <2> HIDE DEF c
  <2> QED BY <2>1
<1>5. PICK g \in [0 .. k -> Int] : StepsUp(g, k, 0, F)
  <2> HIDE DEF F
  <2> QED BY <1>2, <1>4, StepsExist
<1>6. ASSUME NEW i \in 1 .. k PROVE g[i] = g[i - 1] + (b[i] % Base) * Weight[i - 1]
  <2>1. <<i, g[i - 1]>> \in (1 .. k) \X Int
    BY <1>2, <1>5
  <2> QED BY <1>5, <2>1 DEF StepsUp
<1>7. E(g)
  BY <1>2, <1>5, <1>6 DEF StepsUp, ValueWalk
<1>8. E(CHOOSE h : E(h))
  <2> HIDE DEF E
  <2> QED BY <1>7
<1> QED BY <1>1, <1>8 DEF k

\* What starts with the bytes of a number reads as that number, and ends there.
LEMMA ReadBack ==
    ASSUME NEW n \in Number, NEW b \in Seq(Octet), Begins(b, VarInt(n))
    PROVE  HasVarInt(b) /\ VarIntLen(b) = Len(VarInt(n)) /\ VarIntOf(b) = n
<1> DEFINE v == VarInt(n)
           k == Size(n)
<1>1. /\ Len(v) = k /\ k \in 1 .. VarIntBytes /\ n \in Nat /\ VarIntBytes \in Nat
      /\ \A i \in 1 .. k : v[i] % Base = Digit(n, i - 1) /\ (v[i] < Base <=> i = k)
  BY VarIntIs, FramingAssumption
<1>2. Len(b) \in Nat /\ k <= Len(b) /\ \A i \in 1 .. k : b[i] = v[i]
  BY <1>1 DEF Begins
<1>3. \A i \in 1 .. Len(b) : b[i] \in Nat
  BY DEF Octet, Base
<1> HIDE DEF v, k
<1>4. k \in Ends(b)
  <2>1. \A j \in 1 .. (k - 1) : b[j] >= Base
    <3> SUFFICES ASSUME NEW j \in 1 .. (k - 1) PROVE b[j] >= Base
      OBVIOUS
    <3>1. j \in 1 .. k /\ j # k /\ j \in 1 .. Len(b)
      BY <1>1, <1>2
    <3>2. ~(b[j] < Base) /\ b[j] \in Nat
      BY <1>1, <1>2, <1>3, <3>1
    <3> QED BY <3>2 DEF Base
  <2>2. b[k] < Base
    BY <1>1, <1>2
  <2> QED BY <1>1, <1>2, <2>1, <2>2 DEF Ends
<1>5. \A i \in Ends(b) : i = k
  <2> SUFFICES ASSUME NEW i \in Ends(b), i # k PROVE FALSE
    OBVIOUS
  <2>1. i \in 1 .. VarIntBytes /\ i <= Len(b) /\ b[i] < Base /\ \A j \in 1 .. (i - 1) : b[j] >= Base
    BY DEF Ends
  <2>2. CASE i < k
    BY <1>1, <1>2, <2>1, <2>2
  <2>3. CASE k < i
    <3>1. k \in 1 .. (i - 1) /\ k \in 1 .. k /\ k \in 1 .. Len(b)
      BY <1>1, <1>2, <2>1, <2>3
    <3>2. b[k] >= Base /\ b[k] < Base /\ b[k] \in Nat
      BY <1>1, <1>2, <1>3, <2>1, <3>1
    <3> QED BY <3>2 DEF Base
  <2> QED BY <1>1, <2>1, <2>2, <2>3
<1>6. VarIntLen(b) = k
  <2>1. VarIntLen(b) \in Ends(b)
    BY <1>4, Zenon DEF VarIntLen
  <2> QED BY <1>5, <2>1
<1>7. PICK g : ValueWalk(g, b, k) /\ VarIntOf(b) = g[k]
  BY <1>1, <1>2, <1>6, ValueIs
<1>8. g[0] = 0 /\ \A i \in 1 .. k : g[i] = g[i - 1] + Digit(n, i - 1) * Weight[i - 1]
  <2>1. g[0] = 0 /\ \A i \in 1 .. k : g[i] = g[i - 1] + (b[i] % Base) * Weight[i - 1]
    BY <1>1, <1>7 DEF ValueWalk
  <2>2. \A i \in 1 .. k : b[i] % Base = Digit(n, i - 1)
    BY <1>1, <1>2
  <2> QED BY <2>1, <2>2
<1> DEFINE S == {i \in 0 .. k : g[i] = n % Weight[i]}
<1>9. 0 \in S
  <2>1. n % 1 = 0
    BY <1>1
  <2> QED BY <1>1, <1>8, <2>1, WeightIs
<1>10. \A i \in 0 .. k : i < k /\ i \in S => i + 1 \in S
  <2> SUFFICES ASSUME NEW i \in 0 .. k, i < k, g[i] = n % Weight[i]
               PROVE  i + 1 \in 0 .. k /\ g[i + 1] = n % Weight[i + 1]
    OBVIOUS
  <2>1. i + 1 \in 1 .. k /\ (i + 1) - 1 = i /\ i \in 0 .. VarIntBytes /\ i + 1 \in 0 .. VarIntBytes
    BY <1>1
  <2>2. g[i + 1] = g[i] + Digit(n, i) * Weight[i]
    BY <1>8, <2>1
  <2>3. n % Weight[i + 1] = (n % Weight[i]) + Digit(n, i) * Weight[i]
    BY <1>1, <2>1, DigitIs
  <2> QED BY <2>1, <2>2, <2>3
<1>11. \A i \in 0 .. k : i \in S
  <2>1. k \in Nat
    BY <1>1
  <2> HIDE DEF S
  <2> QED BY <1>9, <1>10, <2>1, CountUp
<1>12. g[k] = n % Weight[k]
  <2>1. k \in 0 .. k
    BY <1>1
  <2> QED BY <1>11, <2>1
<1>13. n % Weight[k] = n
  <2> DEFINE w == Weight[k]
  <2>1. n < w
    BY SizeIs DEF Fills, k
  <2>2. w \in Nat \ {0}
    <3>1. k \in 0 .. VarIntBytes
      BY <1>1
    <3> QED BY <3>1, WeightIs
  <2> HIDE DEF w
  <2>3. n % w = n
    BY <1>1, <2>1, <2>2
  <2> QED BY <2>3 DEF w
<1>14. HasVarInt(b)
  BY <1>4 DEF HasVarInt
<1> QED BY <1>1, <1>6, <1>7, <1>12, <1>13, <1>14 DEF v, k

\* What ends inside a number has none.
LEMMA CutOff ==
    ASSUME NEW n \in Number, NEW b \in Seq(Octet), Len(b) < Len(VarInt(n)),
           \A i \in 1 .. Len(b) : b[i] = VarInt(n)[i]
    PROVE  ~HasVarInt(b)
<1> DEFINE v == VarInt(n)
<1>1. Len(v) \in Nat /\ \A i \in 1 .. Len(v) : v[i] < Base <=> i = Len(v)
  BY VarIntIs
<1>2. Len(b) \in Nat /\ Len(b) < Len(v) /\ \A i \in 1 .. Len(b) : b[i] = v[i]
  OBVIOUS
<1> HIDE DEF v
<1>3. \A i \in 1 .. Len(b) : ~(b[i] < Base)
  BY <1>1, <1>2
<1> QED BY <1>2, <1>3 DEF HasVarInt, Ends

-----------------------------------------------------------------------------
(* Framing: frames.                                                        *)

\* A packet's frame: a length, and as many bytes.
LEMMA FrameIs ==
    ASSUME NEW p \in Packets
    PROVE  /\ p = [id |-> p.id, payload |-> p.payload] /\ p.id \in Number /\ p.payload \in Seq(Octet)
           /\ IdAndPayload(p) \in Seq(Octet) /\ Len(IdAndPayload(p)) \in Number /\ Len(IdAndPayload(p)) \in Nat \ {0}
           /\ Begins(IdAndPayload(p), VarInt(p.id))
           /\ Len(IdAndPayload(p)) = Len(VarInt(p.id)) + Len(p.payload)
           /\ \A i \in 1 .. Len(p.payload) : IdAndPayload(p)[Len(VarInt(p.id)) + i] = p.payload[i]
           /\ Frame(p) \in Seq(Octet)
           /\ Len(Frame(p)) = Len(VarInt(Len(IdAndPayload(p)))) + Len(IdAndPayload(p))
           /\ Len(Frame(p)) \in Nat \ {0}
           /\ Begins(Frame(p), VarInt(Len(IdAndPayload(p))))
           /\ \A i \in 1 .. Len(IdAndPayload(p)) :
                 Frame(p)[Len(VarInt(Len(IdAndPayload(p)))) + i] = IdAndPayload(p)[i]
<1> DEFINE v == VarInt(p.id)
           t == p.payload
           c == IdAndPayload(p)
           h == VarInt(Len(c))
           f == Frame(p)
<1>1. /\ p = [id |-> p.id, payload |-> t] /\ p.id \in Nat /\ t \in Seq(Octet)
      /\ p.id < Weight[VarIntBytes] /\ Len(c) < Weight[VarIntBytes]
  <2>1. p \in [id : Nat, payload : Seq(Octet)]
    BY FramingAssumption
  <2> QED BY <2>1, FramingAssumption
<1>2. Weight[VarIntBytes] \in Nat
  BY WeightIs, FramingAssumption
<1>3. p.id \in Number
  BY <1>1, <1>2 DEF Number
<1>4. v \in Seq(Octet) /\ Len(v) \in Nat \ {0}
  BY <1>3, VarIntIs, FramingAssumption
<1>5. c = v \o t
  BY DEF IdAndPayload
<1> HIDE DEF v, t, c
<1>6. /\ c \in Seq(Octet) /\ Len(c) = Len(v) + Len(t) /\ Len(t) \in Nat
      /\ \A i \in 1 .. Len(v) : c[i] = v[i]
      /\ \A i \in Len(v) + 1 .. Len(v) + Len(t) : c[i] = t[i - Len(v)]
  BY <1>1, <1>4, <1>5, ConcatElements
<1>7. \A i \in 1 .. Len(t) : c[Len(v) + i] = t[i]
  <2> SUFFICES ASSUME NEW i \in 1 .. Len(t) PROVE c[Len(v) + i] = t[i]
    OBVIOUS
  <2>1. Len(v) + i \in Len(v) + 1 .. Len(v) + Len(t) /\ (Len(v) + i) - Len(v) = i
    BY <1>4, <1>6
  <2> QED BY <1>6, <2>1
<1>8. Begins(c, v) /\ Len(c) \in Nat \ {0} /\ Len(c) \in Number
  BY <1>1, <1>2, <1>4, <1>6 DEF Begins, Number
<1>9. h \in Seq(Octet) /\ Len(h) \in Nat \ {0}
  BY <1>8, VarIntIs, FramingAssumption
<1>10. f = h \o c
  BY DEF Frame, c
<1> HIDE DEF h, f
<1>11. /\ f \in Seq(Octet) /\ Len(f) = Len(h) + Len(c)
       /\ \A i \in 1 .. Len(h) : f[i] = h[i]
       /\ \A i \in Len(h) + 1 .. Len(h) + Len(c) : f[i] = c[i - Len(h)]
  <2>1. c \in Seq(Octet) /\ h \in Seq(Octet)
    BY <1>6, <1>9
  <2> QED BY <1>10, <2>1, ConcatElements
<1>12. \A i \in 1 .. Len(c) : f[Len(h) + i] = c[i]
  <2> SUFFICES ASSUME NEW i \in 1 .. Len(c) PROVE f[Len(h) + i] = c[i]
    OBVIOUS
  <2>1. Len(h) + i \in Len(h) + 1 .. Len(h) + Len(c) /\ (Len(h) + i) - Len(h) = i
    BY <1>8, <1>9
  <2> QED BY <1>11, <2>1
<1>13. Begins(f, h) /\ Len(f) \in Nat \ {0}
  BY <1>8, <1>9, <1>11 DEF Begins
<1> QED BY <1>1, <1>3, <1>6, <1>7, <1>8, <1>11, <1>12, <1>13 DEF v, t, c, h, f

\* A part of a sequence.
LEMMA PartElements ==
    ASSUME NEW T, NEW s \in Seq(T), NEW m \in Nat, NEW n \in Nat, m <= n, n <= Len(s)
    PROVE  /\ SubSeq(s, m + 1, n) \in Seq(T) /\ Len(SubSeq(s, m + 1, n)) = n - m
           /\ \A i \in 1 .. (n - m) : SubSeq(s, m + 1, n)[i] = s[m + i]
<1>1. Len(s) \in Nat /\ \A i \in 1 .. Len(s) : s[i] \in T
  OBVIOUS
<1>2. \A i \in (m + 1) .. n : s[i] \in T
  BY <1>1
<1> QED BY <1>1, <1>2

\* Two sequences with the same elements.
LEMMA SameElements ==
    ASSUME NEW T, NEW s \in Seq(T), NEW t \in Seq(T), Len(s) = Len(t),
           \A i \in 1 .. Len(s) : s[i] = t[i]
    PROVE  s = t
OBVIOUS

\* Bytes that begin with a frame have its packet first, and go on after it.
LEMMA FrameWhole ==
    ASSUME NEW p \in Packets, NEW b \in Seq(Octet), Begins(b, Frame(p))
    PROVE  /\ ~Malformed(b) /\ ~Waits(b) /\ PacketIn(Body(b)) = p
           /\ VarIntLen(b) + VarIntOf(b) = Len(Frame(p))
<1> DEFINE v == VarInt(p.id)
           t == p.payload
           c == IdAndPayload(p)
           h == VarInt(Len(c))
           f == Frame(p)
<1>1. /\ p = [id |-> p.id, payload |-> t] /\ p.id \in Number /\ t \in Seq(Octet)
      /\ c \in Seq(Octet) /\ Len(c) \in Number /\ Len(c) \in Nat \ {0}
      /\ Begins(c, v) /\ Len(c) = Len(v) + Len(t)
      /\ \A i \in 1 .. Len(t) : c[Len(v) + i] = t[i]
      /\ f \in Seq(Octet) /\ Len(f) = Len(h) + Len(c)
      /\ Begins(f, h)
      /\ \A i \in 1 .. Len(c) : f[Len(h) + i] = c[i]
  BY FrameIs
<1>2. h \in Seq(Octet) /\ Len(h) \in Nat \ {0} /\ v \in Seq(Octet) /\ Len(v) \in Nat \ {0} /\ Len(t) \in Nat
  BY <1>1, VarIntIs, FramingAssumption
<1>3. Len(b) \in Nat /\ Len(f) <= Len(b) /\ \A i \in 1 .. Len(f) : b[i] = f[i]
  BY DEF Begins
<1>4. Begins(b, h)
  <2> HIDE DEF f, h
  <2> QED BY <1>1, <1>2, <1>3 DEF Begins
<1>5. HasVarInt(b) /\ VarIntLen(b) = Len(h) /\ VarIntOf(b) = Len(c)
  <2> HIDE DEF c
  <2> QED BY <1>1, <1>4, ReadBack
<1>6. HasVarInt(c) /\ VarIntLen(c) = Len(v) /\ VarIntOf(c) = p.id
  <2> HIDE DEF c
  <2> QED BY <1>1, ReadBack
<1> HIDE DEF v, t, c, h, f
<1>7. Body(b) = c
  <2> DEFINE m == Len(h)
             n == Len(h) + Len(c)
  <2>1. m \in Nat /\ n \in Nat /\ m <= n /\ n <= Len(b) /\ n - m = Len(c) /\ Len(f) = n
    BY <1>1, <1>2, <1>3
  <2>2. \A i \in 1 .. Len(c) : b[m + i] = c[i]
    <3> SUFFICES ASSUME NEW i \in 1 .. Len(c) PROVE b[m + i] = c[i]
      OBVIOUS
    <3>1. m + i \in 1 .. Len(f)
      BY <1>1, <1>2
    <3> QED BY <1>1, <1>3, <3>1
  <2>3. Body(b) = SubSeq(b, m + 1, n)
    BY <1>5 DEF Body
  <2> HIDE DEF m, n
  <2>4. /\ Body(b) \in Seq(Octet) /\ Len(Body(b)) = n - m
        /\ \A i \in 1 .. (n - m) : Body(b)[i] = b[m + i]
    BY <2>1, <2>3, PartElements
  <2> QED BY <1>1, <2>1, <2>2, <2>4, SameElements
<1>8. PacketIn(c) = p
  <2> DEFINE m == Len(v)
             n == Len(c)
  <2>1. m \in Nat /\ n \in Nat /\ m <= n /\ n <= Len(c) /\ n - m = Len(t)
    BY <1>1, <1>2
  <2>2. After(c, m) = SubSeq(c, m + 1, n)
    BY DEF After
  <2> HIDE DEF m
  <2>3. /\ SubSeq(c, m + 1, n) \in Seq(Octet) /\ Len(SubSeq(c, m + 1, n)) = n - m
        /\ \A i \in 1 .. (n - m) : SubSeq(c, m + 1, n)[i] = c[m + i]
    <3>1. c \in Seq(Octet)
      BY <1>1
    <3> HIDE DEF n
    <3> QED BY <2>1, <3>1, PartElements
  <2>4. After(c, m) = t
    <3> DEFINE r == SubSeq(c, m + 1, n)
    <3>1. r \in Seq(Octet) /\ Len(r) = Len(t) /\ \A i \in 1 .. Len(t) : r[i] = t[i]
      BY <1>1, <2>1, <2>3 DEF m
    <3> HIDE DEF r
    <3>2. r = t
      BY <1>1, <3>1, SameElements
    <3> QED BY <2>2, <3>2 DEF r
  <2> QED BY <1>1, <1>6, <2>4 DEF PacketIn, m
<1>9. ~Waits(b)
  BY <1>1, <1>2, <1>3, <1>5 DEF Waits
<1>10. ~Malformed(b)
  BY <1>1, <1>5, <1>6, <1>7, <1>9 DEF Malformed
<1> QED BY <1>1, <1>5, <1>7, <1>8, <1>9, <1>10 DEF f

\* The beginning of a frame waits for the rest.
LEMMA FrameCut ==
    ASSUME NEW p \in Packets, NEW b \in Seq(Octet), Len(b) < Len(Frame(p)),
           \A i \in 1 .. Len(b) : b[i] = Frame(p)[i]
    PROVE  ~Malformed(b) /\ Waits(b)
<1> DEFINE c == IdAndPayload(p)
           h == VarInt(Len(c))
           f == Frame(p)
<1>1. /\ c \in Seq(Octet) /\ Len(c) \in Number /\ Len(c) \in Nat \ {0}
      /\ f \in Seq(Octet) /\ Len(f) = Len(h) + Len(c)
      /\ Begins(f, h)
  BY FrameIs
<1>2. h \in Seq(Octet) /\ Len(h) \in Nat \ {0} /\ Len(b) \in Nat
  BY <1>1, VarIntIs, FramingAssumption
<1>3. Len(b) < Len(f) /\ \A i \in 1 .. Len(b) : b[i] = f[i]
  OBVIOUS
<1> HIDE DEF c, f
<1>4. CASE Len(b) < Len(h)
  <2>1. \A i \in 1 .. Len(b) : b[i] = h[i]
    <3> HIDE DEF h
    <3> QED BY <1>1, <1>2, <1>3, <1>4 DEF Begins
  <2>2. ~HasVarInt(b)
    BY <1>1, <1>4, <2>1, CutOff
  <2> QED BY <2>2 DEF Malformed, Waits
<1>5. CASE Len(h) <= Len(b)
  <2>1. Begins(b, h)
    <3> HIDE DEF h
    <3> QED BY <1>1, <1>2, <1>3, <1>5 DEF Begins
  <2>2. HasVarInt(b) /\ VarIntLen(b) = Len(h) /\ VarIntOf(b) = Len(c)
    BY <1>1, <2>1, ReadBack
  <2> HIDE DEF h
  <2>3. Waits(b)
    BY <1>1, <1>2, <1>3, <2>2 DEF Waits
  <2> QED BY <1>1, <2>2, <2>3 DEF Malformed
<1> QED BY <1>2, <1>4, <1>5

-----------------------------------------------------------------------------
(* Framing: what a client has written.                                     *)

\* The bytes of the first k packets.
First(s, k) == Bytes(SubSeq(s, 1, k))
Upto(s, k) == Len(First(s, k))

\* The bytes of k packets are those of k - 1, and a frame.
LEMMA FirstIs ==
    ASSUME NEW s \in Seq(Packets)
    PROVE  /\ First(s, 0) = << >>
           /\ \A k \in 0 .. Len(s) : First(s, k) \in Seq(Octet)
           /\ \A k \in 1 .. Len(s) : First(s, k) = First(s, k - 1) \o Frame(s[k])
<1> DEFINE n == Len(s)
           T == Seq(Octet)
           fr == [i \in 1 .. n |-> Frame(s[i])]
           F == [p \in (1 .. n) \X T |-> p[2] \o fr[p[1]]]
<1>1. n \in Nat /\ n = Len(s) /\ \A i \in 1 .. n : s[i] \in Packets
  OBVIOUS
<1>2. \A i \in 1 .. n : fr[i] = Frame(s[i]) /\ fr[i] \in T
  BY <1>1, FrameIs
<1> HIDE DEF fr
<1>3. << >> \in T /\ F \in [(1 .. n) \X T -> T]
  <2>1. \A i \in 1 .. n, x \in T : x \o fr[i] \in T
    BY <1>2, ConcatElements
  <2>2. << >> \in T
    OBVIOUS
  <2> HIDE DEF T, n
  <2> QED BY <2>1, <2>2
<1>4. PICK g \in [0 .. n -> T] : StepsUp(g, n, << >>, F)
  <2> HIDE DEF T, F, n
  <2> QED BY <1>1, <1>3, StepsExist
<1>5. /\ g[0] = << >> /\ \A i \in 0 .. n : g[i] \in T
      /\ \A i \in 1 .. n : g[i] = g[i - 1] \o Frame(s[i])
  <2>1. ASSUME NEW i \in 1 .. n PROVE g[i] = g[i - 1] \o fr[i]
    <3> HIDE DEF T, n
    <3>1. i - 1 \in 0 .. n
      BY <1>1
    <3>2. g[i - 1] \in T
      BY <1>4, <3>1
    <3>3. <<i, g[i - 1]>> \in (1 .. n) \X T
      BY <3>2
    <3>4. g[i] = F[<<i, g[i - 1]>>]
      BY <1>4 DEF StepsUp
    <3> QED BY <3>3, <3>4
  <2>2. g[0] = << >>
    BY <1>4 DEF StepsUp
  <2> QED BY <1>2, <1>4, <2>1, <2>2
<1> HIDE DEF F, T, n
<1>6. ASSUME NEW k \in 1 .. n PROVE First(s, k) = g[k]
  <2> DEFINE q == SubSeq(s, 1, k)
             e == [i \in DOMAIN q |-> Frame(q[i])]
             E(h) == h = [i \in 1 .. Len(e) |-> IF i = 1 THEN e[i] ELSE h[i - 1] \o e[i]]
  <2>1. DOMAIN q = 1 .. k /\ \A i \in 1 .. k : q[i] = s[i]
    <3>1. k \in Nat /\ k <= Len(s) /\ 0 + 1 = 1
      BY <1>1
    <3>2. /\ q \in Seq(Packets) /\ Len(q) = k - 0
          /\ \A i \in 1 .. (k - 0) : q[i] = s[0 + i]
      BY <3>1, PartElements
    <3> HIDE DEF q
    <3> QED BY <3>1, <3>2
  <2> HIDE DEF q
  <2>2. e \in Seq(T) /\ Len(e) = k /\ \A i \in 1 .. k : e[i] = Frame(s[i])
    <3>1. \A i \in 1 .. k : Frame(s[i]) \in T
      BY <1>1, <1>2
    <3>2. e = [i \in 1 .. k |-> Frame(s[i])]
      BY <2>1
    <3> HIDE DEF T
    <3> QED BY <3>1, <3>2
  <2> HIDE DEF e
  <2>3. FlattenSeq(e) = (CHOOSE h : E(h))[Len(e)]
    <3>1. Len(e) # 0
      BY <2>2
    <3> QED BY <3>1, Zenon DEF FlattenSeq
  <2>4. E([i \in 1 .. k |-> g[i]])
    <3> DEFINE h == [i \in 1 .. k |-> g[i]]
    <3>1. ASSUME NEW i \in 1 .. k PROVE h[i] = IF i = 1 THEN e[i] ELSE h[i - 1] \o e[i]
      <4>1. CASE i = 1
        <5> DEFINE f == Frame(s[1])
        <5>3. 1 \in 1 .. n /\ 1 - 1 = 0
          BY <1>1
        <5>4. f \in T
          BY <1>2, <5>3
        <5>5. g[1] = g[0] \o f
          BY <1>5, <5>3
        <5> HIDE DEF f
        <5>2. << >> \o f = f
          BY <5>4 DEF T
        <5>1. g[1] = << >> \o f
          BY <1>5, <5>5
        <5> USE DEF f
        <5> QED BY <2>2, <4>1, <5>1, <5>2
      <4>2. CASE i # 1
        <5>1. i \in 1 .. n /\ i - 1 \in 1 .. k
          BY <1>1, <4>2
        <5>2. h[i] = g[i] /\ h[i - 1] = g[i - 1] /\ g[i] = g[i - 1] \o Frame(s[i]) /\ e[i] = Frame(s[i])
          BY <1>5, <2>2, <5>1
        <5> HIDE DEF h
        <5> QED BY <4>2, <5>2
      <4> QED BY <4>1, <4>2
    <3>2. h = [i \in 1 .. k |-> IF i = 1 THEN e[i] ELSE h[i - 1] \o e[i]]
      BY <3>1
    <3> HIDE DEF h
    <3>3. E(h)
      BY <2>2, <3>2
    <3> QED BY <3>3 DEF h
  <2>5. E(CHOOSE h : E(h))
    <3> HIDE DEF E
    <3> QED BY <2>4
  <2> DEFINE h == CHOOSE x : E(x)
  <2>6. \A i \in 1 .. k : h[i] = IF i = 1 THEN e[i] ELSE h[i - 1] \o e[i]
    <3>1. E(h)
      BY <2>5, Zenon
    <3> HIDE DEF h
    <3> QED BY <2>2, <3>1
  <2> HIDE DEF h, E
  <2> DEFINE S == {i \in 0 .. k : i = 0 \/ h[i] = g[i]}
  <2>7. k \in Nat
    BY <1>1
  <2>8. 0 \in S
    BY <2>7
  <2>9. \A i \in 0 .. k : i < k /\ i \in S => i + 1 \in S
    <3> SUFFICES ASSUME NEW i \in 0 .. k, i < k, i = 0 \/ h[i] = g[i]
                 PROVE  i + 1 \in 0 .. k /\ h[i + 1] = g[i + 1]
      OBVIOUS
    <3>1. i + 1 \in 1 .. k /\ i + 1 \in 1 .. n /\ (i + 1) - 1 = i
      BY <1>1, <2>7
    <3> DEFINE f == Frame(s[i + 1])
    <3>2. h[i + 1] = IF i + 1 = 1 THEN e[i + 1] ELSE h[i] \o e[i + 1]
      BY <2>6, <3>1
    <3>3. e[i + 1] = f /\ g[i + 1] = g[i] \o f /\ f \in T
      BY <1>2, <1>5, <2>2, <3>1
    <3> HIDE DEF f
    <3>4. CASE i = 0
      <4>1. << >> \o f = f
        BY <3>3 DEF T
      <4>2. g[i] = << >> /\ h[i + 1] = e[i + 1]
        BY <1>5, <3>2, <3>4
      <4> QED BY <3>1, <3>3, <4>1, <4>2
    <3>5. CASE i # 0
      <4>1. i + 1 # 1
        BY <3>5
      <4>2. h[i + 1] = h[i] \o f /\ h[i] = g[i]
        BY <3>2, <3>3, <3>5, <4>1
      <4> QED BY <3>1, <3>3, <4>2
    <3> QED BY <3>4, <3>5
  <2>10. \A i \in 0 .. k : i \in S
    <3> HIDE DEF S
    <3> QED BY <2>7, <2>8, <2>9, CountUp
  <2>11. h[k] = g[k]
    <3>1. k \in 0 .. k /\ k # 0
      BY <2>7
    <3> QED BY <2>10, <3>1
  <2>12. First(s, k) = FlattenSeq(e)
    BY Zenon DEF First, Bytes, e, q
  <2> QED BY <2>2, <2>3, <2>11, <2>12 DEF h
<1>7. First(s, 0) = << >>
  <2> DEFINE q == SubSeq(s, 1, 0)
             e == [i \in DOMAIN q |-> Frame(q[i])]
  <2>1. q = << >>
    OBVIOUS
  <2> HIDE DEF q
  <2>2. e = << >> /\ Len(e) = 0
    BY <2>1
  <2> HIDE DEF e
  <2>3. FlattenSeq(e) = e
    BY <2>2, Zenon DEF FlattenSeq
  <2>4. First(s, 0) = FlattenSeq(e)
    BY Zenon DEF First, Bytes, e, q
  <2> QED BY <2>2, <2>3, <2>4
<1>8. \A k \in 0 .. n : First(s, k) = g[k]
  <2> SUFFICES ASSUME NEW k \in 0 .. n PROVE First(s, k) = g[k]
    OBVIOUS
  <2>1. k = 0 \/ k \in 1 .. n
    BY <1>1
  <2> QED BY <1>5, <1>6, <1>7, <2>1
<1>9. ASSUME NEW k \in 1 .. n PROVE First(s, k) = First(s, k - 1) \o Frame(s[k])
  <2>1. k \in 0 .. n /\ k - 1 \in 0 .. n
    BY <1>1
  <2> QED BY <1>5, <1>8, <2>1
<1> QED BY <1>5, <1>7, <1>8, <1>9 DEF n, T

-----------------------------------------------------------------------------
(* Framing: what has arrived is a part of what was written.                *)

\* b lies in x, after the first c bytes.
Part(x, c, b) == c + Len(b) <= Len(x) /\ \A i \in 1 .. Len(b) : b[i] = x[c + i]

\* Where the frames lie among the bytes of all packets.
LEMMA FramesLie ==
    ASSUME NEW s \in Seq(Packets)
    PROVE  /\ Bytes(s) \in Seq(Octet) /\ Len(Bytes(s)) = Upto(s, Len(s)) /\ Upto(s, 0) = 0
           /\ \A k \in 0 .. Len(s) : Upto(s, k) \in Nat /\ Upto(s, k) <= Len(Bytes(s))
           /\ \A k, j \in 0 .. Len(s) : k <= j => Upto(s, k) <= Upto(s, j)
           /\ \A k \in 1 .. Len(s) : /\ Upto(s, k) = Upto(s, k - 1) + Len(Frame(s[k]))
                                     /\ Part(Bytes(s), Upto(s, k - 1), Frame(s[k]))
<1> DEFINE n == Len(s)
<1>1. /\ First(s, 0) = << >>
      /\ \A k \in 0 .. n : First(s, k) \in Seq(Octet)
      /\ \A k \in 1 .. n : First(s, k) = First(s, k - 1) \o Frame(s[k])
  BY FirstIs
<1>2. Bytes(s) = First(s, n)
  <2>1. SubSeq(s, 1, n) = s
    OBVIOUS
  <2> QED BY <2>1 DEF First
<1>3. n \in Nat /\ \A k \in 1 .. n : Frame(s[k]) \in Seq(Octet)
  <2>1. \A k \in 1 .. n : s[k] \in Packets
    OBVIOUS
  <2>2. \A k \in 1 .. n : Frame(s[k]) \in Seq(Octet)
    BY <2>1, FrameIs
  <2> QED BY <2>2
<1> HIDE DEF n
<1>4. \A k \in 0 .. n : Upto(s, k) \in Nat
  BY <1>1 DEF Upto
<1>5. ASSUME NEW k \in 1 .. n
      PROVE  /\ Upto(s, k) = Upto(s, k - 1) + Len(Frame(s[k]))
             /\ \A i \in 1 .. Upto(s, k - 1) : First(s, k)[i] = First(s, k - 1)[i]
             /\ \A i \in 1 .. Len(Frame(s[k])) : First(s, k)[Upto(s, k - 1) + i] = Frame(s[k])[i]
  <2> DEFINE a == First(s, k - 1)
             f == Frame(s[k])
             c == First(s, k)
  <2>1. k - 1 \in 0 .. n
    BY <1>3
  <2>2. a \in Seq(Octet) /\ f \in Seq(Octet) /\ c = a \o f
    BY <1>1, <1>3, <2>1
  <2> HIDE DEF a, f, c
  <2>3. /\ Len(c) = Len(a) + Len(f) /\ Len(a) \in Nat /\ Len(f) \in Nat
        /\ \A i \in 1 .. Len(a) : c[i] = a[i]
        /\ \A i \in Len(a) + 1 .. Len(a) + Len(f) : c[i] = f[i - Len(a)]
    BY <2>2, ConcatElements
  <2>4. \A i \in 1 .. Len(f) : c[Len(a) + i] = f[i]
    <3> SUFFICES ASSUME NEW i \in 1 .. Len(f) PROVE c[Len(a) + i] = f[i]
      OBVIOUS
    <3>1. Len(a) + i \in Len(a) + 1 .. Len(a) + Len(f) /\ (Len(a) + i) - Len(a) = i
      BY <2>3
    <3> QED BY <2>3, <3>1
  <2> QED BY <2>3, <2>4 DEF Upto, a, f, c
<1>6. ASSUME NEW k \in 0 .. n, NEW j \in 0 .. n, k <= j
      PROVE  Begins(First(s, j), First(s, k))
  <2> DEFINE S == {x \in 0 .. n : x < k \/ Begins(First(s, x), First(s, k))}
  <2>1. Begins(First(s, k), First(s, k))
    BY <1>1 DEF Begins
  <2>2. 0 \in S
    <3>1. 0 \in 0 .. n /\ (0 < k \/ k = 0)
      BY <1>3
    <3> QED BY <2>1, <3>1
  <2>3. \A x \in 0 .. n : x < n /\ x \in S => x + 1 \in S
    <3> SUFFICES ASSUME NEW x \in 0 .. n, x < n, x < k \/ Begins(First(s, x), First(s, k))
                 PROVE  x + 1 \in 0 .. n /\ (x + 1 < k \/ Begins(First(s, x + 1), First(s, k)))
      OBVIOUS
    <3>1. x + 1 \in 1 .. n /\ (x + 1) - 1 = x
      BY <1>3
    <3>2. CASE x + 1 < k
      BY <3>1, <3>2
    <3>3. CASE x + 1 = k
      BY <2>1, <3>1, <3>3
    <3>4. CASE k <= x
      <4> DEFINE a == First(s, k)
                 b == First(s, x)
                 c == First(s, x + 1)
      <4>1. Begins(b, a)
        BY <1>3, <3>4
      <4>2. Len(a) \in Nat /\ Len(b) \in Nat
        BY <1>4 DEF Upto
      <4>3. /\ Len(c) = Len(b) + Len(Frame(s[x + 1]))
            /\ \A i \in 1 .. Len(b) : c[i] = b[i]
        BY <1>5, <3>1 DEF Upto
      <4>4. Len(Frame(s[x + 1])) \in Nat
        BY <1>3, <3>1
      <4> HIDE DEF a, b, c
      <4>5. Begins(c, a)
        BY <4>1, <4>2, <4>3, <4>4 DEF Begins
      <4> QED BY <3>1, <4>5 DEF a, c
    <3> QED BY <1>3, <3>2, <3>3, <3>4
  <2>4. \A x \in 0 .. n : x \in S
    <3> HIDE DEF S
    <3> QED BY <1>3, <2>2, <2>3, CountUp
  <2>5. ~(j < k)
    BY <1>3, <1>6
  <2> QED BY <2>4, <2>5
<1>7. \A k, j \in 0 .. n : k <= j => Upto(s, k) <= Upto(s, j)
  BY <1>6 DEF Begins, Upto
<1>8. n \in 0 .. n /\ \A k \in 0 .. n : k <= n
  BY <1>3
<1>9. ASSUME NEW k \in 1 .. n PROVE Part(Bytes(s), Upto(s, k - 1), Frame(s[k]))
  <2> DEFINE x == Bytes(s)
             m == First(s, k)
             c == Upto(s, k - 1)
             f == Frame(s[k])
  <2>1. k \in 0 .. n /\ k - 1 \in 0 .. n /\ k <= n
    BY <1>3
  <2>2. Begins(x, m)
    BY <1>2, <1>6, <1>8, <2>1
  <2>3. Len(m) = c + Len(f) /\ \A i \in 1 .. Len(f) : m[c + i] = f[i]
    BY <1>5 DEF Upto
  <2>4. c \in Nat /\ Len(f) \in Nat
    BY <1>3, <1>4, <2>1
  <2> HIDE DEF x, m, c, f
  <2>5. \A i \in 1 .. Len(f) : c + i \in 1 .. Len(m)
    BY <2>3, <2>4
  <2>6. Part(x, c, f)
    BY <2>2, <2>3, <2>4, <2>5 DEF Part, Begins
  <2> QED BY <2>6 DEF x, c, f
<1>10. Upto(s, 0) = 0
  BY <1>1 DEF Upto
<1> QED BY <1>1, <1>2, <1>4, <1>5, <1>7, <1>8, <1>9, <1>10 DEF n, Upto

\* One packet more.
LEMMA FramesAppend ==
    ASSUME NEW s \in Seq(Packets), NEW p \in Packets
    PROVE  /\ Bytes(Append(s, p)) = Bytes(s) \o Frame(p)
           /\ \A k \in 0 .. Len(s) : Upto(Append(s, p), k) = Upto(s, k)
<1> DEFINE n == Len(s)
           t == Append(s, p)
<1>1. /\ t \in Seq(Packets) /\ Len(t) = n + 1 /\ n \in Nat
      /\ \A i \in 1 .. n : t[i] = s[i]
      /\ t[n + 1] = p
  OBVIOUS
<1>2. SubSeq(t, 1, n + 1) = t /\ SubSeq(s, 1, n) = s
  <2>1. \A q \in Seq(Packets) : SubSeq(q, 1, Len(q)) = q
    OBVIOUS
  <2> HIDE DEF t
  <2> QED BY <1>1, <2>1
<1> HIDE DEF t, n
<1>3. ASSUME NEW k \in 0 .. n PROVE SubSeq(t, 1, k) = SubSeq(s, 1, k)
  <2>1. /\ SubSeq(t, 0 + 1, k) \in Seq(Packets) /\ Len(SubSeq(t, 0 + 1, k)) = k - 0
        /\ \A i \in 1 .. (k - 0) : SubSeq(t, 0 + 1, k)[i] = t[0 + i]
    <3>1. 0 <= k /\ k <= Len(t) /\ k \in Nat
      BY <1>1
    <3> QED BY <1>1, <3>1, PartElements
  <2>2. /\ SubSeq(s, 0 + 1, k) \in Seq(Packets) /\ Len(SubSeq(s, 0 + 1, k)) = k - 0
        /\ \A i \in 1 .. (k - 0) : SubSeq(s, 0 + 1, k)[i] = s[0 + i]
    <3>1. 0 <= k /\ k <= Len(s) /\ k \in Nat
      BY <1>1 DEF n
    <3> QED BY <3>1, PartElements
  <2> DEFINE u == SubSeq(t, 1, k)
             v == SubSeq(s, 1, k)
  <2>3. u \in Seq(Packets) /\ Len(u) = k /\ \A i \in 1 .. k : u[i] = t[i]
    BY <1>1, <2>1
  <2>4. v \in Seq(Packets) /\ Len(v) = k /\ \A i \in 1 .. k : v[i] = s[i]
    BY <1>1, <2>2
  <2> HIDE DEF u, v
  <2>5. \A i \in 1 .. k : u[i] = v[i]
    BY <1>1, <2>3, <2>4
  <2>6. u = v
    BY <2>3, <2>4, <2>5, SameElements
  <2> QED BY <2>6 DEF u, v
<1>4. \A k \in 0 .. n : First(t, k) = First(s, k)
  BY <1>3 DEF First
<1>5. First(t, n + 1) = First(t, n) \o Frame(p)
  <2>1. n + 1 \in 1 .. Len(t) /\ (n + 1) - 1 = n
    BY <1>1
  <2> QED BY <1>1, <2>1, FirstIs
<1>6. First(t, n + 1) = Bytes(t) /\ First(s, n) = Bytes(s)
  BY <1>2 DEF First
<1>7. n \in 0 .. n
  BY <1>1
<1> QED BY <1>4, <1>5, <1>6, <1>7 DEF t, n, Upto

-----------------------------------------------------------------------------
(* Framing: the decoding loop.                                             *)

\* Bytes without their first l.
LEMMA PartAfter ==
    ASSUME NEW x \in Seq(Octet), NEW c \in Nat, NEW b \in Seq(Octet), Part(x, c, b),
           NEW l \in Nat, l <= Len(b)
    PROVE  /\ After(b, l) \in Seq(Octet) /\ Len(After(b, l)) = Len(b) - l
           /\ Part(x, c + l, After(b, l))
           /\ \A i \in 1 .. Len(After(b, l)) : After(b, l)[i] = b[l + i]
<1> DEFINE n == Len(b)
           a == After(b, l)
<1>1. n \in Nat /\ l <= n /\ n <= Len(b) /\ Len(x) \in Nat /\ c + n <= Len(x)
      /\ \A i \in 1 .. n : b[i] = x[c + i]
  BY DEF Part
<1>2. a = SubSeq(b, l + 1, n)
  BY DEF After
<1> HIDE DEF n, a
<1>3. a \in Seq(Octet) /\ Len(a) = n - l /\ \A i \in 1 .. (n - l) : a[i] = b[l + i]
  BY <1>1, <1>2, PartElements
<1>4. \A i \in 1 .. Len(a) : a[i] = x[(c + l) + i]
  <2> SUFFICES ASSUME NEW i \in 1 .. Len(a) PROVE a[i] = x[(c + l) + i]
    OBVIOUS
  <2>1. l + i \in 1 .. n /\ c + (l + i) = (c + l) + i /\ i \in 1 .. (n - l)
    BY <1>1, <1>3
  <2> QED BY <1>1, <1>3, <2>1
<1>5. (c + l) + Len(a) <= Len(x)
  BY <1>1, <1>3
<1> QED BY <1>3, <1>4, <1>5 DEF Part, a, n

\* The bytes of some packets, and then junk or nothing.
Emitted(s, j) == Bytes(s) \o j
Ending(j) == j \in Seq(Octet) /\ (j = << >> \/ j \in Junk)

LEMMA WrittenIs ==
    ASSUME NEW s \in Seq(Packets), NEW j, Ending(j)
    PROVE  /\ Emitted(s, j) \in Seq(Octet) /\ Bytes(s) \in Seq(Octet) /\ j \in Seq(Octet)
           /\ Len(Emitted(s, j)) = Upto(s, Len(s)) + Len(j) /\ Len(j) \in Nat
           /\ \A i \in 1 .. Len(Bytes(s)) : Emitted(s, j)[i] = Bytes(s)[i]
           /\ \A i \in 1 .. Len(j) : Emitted(s, j)[Upto(s, Len(s)) + i] = j[i]
<1> DEFINE a == Bytes(s)
           w == Emitted(s, j)
<1>1. a \in Seq(Octet) /\ Len(a) = Upto(s, Len(s)) /\ j \in Seq(Octet) /\ w = a \o j
  BY FramesLie DEF Ending, Emitted
<1> HIDE DEF a, w
<1>a. a \in Seq(Octet)
  BY <1>1
<1>b. j \in Seq(Octet)
  BY <1>1
<1>c. /\ a \o j \in Seq(Octet) /\ Len(a \o j) = Len(a) + Len(j)
      /\ \A i \in 1 .. Len(a) : (a \o j)[i] = a[i]
      /\ \A i \in Len(a) + 1 .. Len(a) + Len(j) : (a \o j)[i] = j[i - Len(a)]
  BY <1>a, <1>b, ConcatElements
<1>d. Len(a) \in Nat /\ Len(j) \in Nat
  BY <1>a, <1>b
<1>2. /\ w \in Seq(Octet) /\ Len(w) = Len(a) + Len(j) /\ Len(a) \in Nat /\ Len(j) \in Nat
      /\ \A i \in 1 .. Len(a) : w[i] = a[i]
      /\ \A i \in Len(a) + 1 .. Len(a) + Len(j) : w[i] = j[i - Len(a)]
  BY <1>1, <1>c, <1>d
<1>3. \A i \in 1 .. Len(j) : w[Len(a) + i] = j[i]
  <2> SUFFICES ASSUME NEW i \in 1 .. Len(j) PROVE w[Len(a) + i] = j[i]
    OBVIOUS
  <2>1. Len(a) + i \in Len(a) + 1 .. Len(a) + Len(j) /\ (Len(a) + i) - Len(a) = i
    BY <1>2
  <2> QED BY <1>2, <2>1
<1> QED BY <1>1, <1>2, <1>3 DEF a, w

\* Nothing to read waits.
LEMMA NothingWaits == ASSUME NEW b, b = << >> PROVE Waits(b) /\ ~Malformed(b)
<1>1. Len(b) = 0
  OBVIOUS
<1>2. ~HasVarInt(b)
  BY <1>1 DEF HasVarInt, Ends
<1> QED BY <1>2 DEF Waits, Malformed

\* What is left after m packets: the next one's frame in whole, a part of it, or
\* the beginning of the junk.
LEMMA NextIs ==
    ASSUME NEW s \in Seq(Packets), NEW j, Ending(j), NEW m \in 0 .. Len(s), NEW b \in Seq(Octet),
           Part(Emitted(s, j), Upto(s, m), b)
    PROVE  \/ /\ m < Len(s) /\ Begins(b, Frame(s[m + 1])) /\ s[m + 1] \in Packets
              /\ Upto(s, m + 1) = Upto(s, m) + Len(Frame(s[m + 1]))
           \/ m < Len(s) /\ Waits(b) /\ ~Malformed(b) /\ Upto(s, m) + Len(b) < Upto(s, m + 1)
           \/ m = Len(s) /\ (Waits(b) \/ Malformed(b)) /\ (Malformed(b) => j # << >>)
<1> DEFINE x == Emitted(s, j)
           c == Upto(s, m)
<1>1. Len(s) \in Nat /\ Len(b) \in Nat /\ c \in Nat
  BY FramesLie
<1>2. c + Len(b) <= Len(x) /\ \A i \in 1 .. Len(b) : b[i] = x[c + i]
  BY DEF Part
<1>3. CASE m < Len(s)
  <2> DEFINE p == s[m + 1]
             f == Frame(p)
  <2>1. m + 1 \in 1 .. Len(s) /\ (m + 1) - 1 = m /\ p \in Packets
    BY <1>1, <1>3
  <2>2. Upto(s, m + 1) = c + Len(f) /\ Part(Bytes(s), c, f)
    BY <2>1, FramesLie
  <2>3. Len(Bytes(s)) \in Nat /\ \A i \in 1 .. Len(Bytes(s)) : x[i] = Bytes(s)[i]
    BY WrittenIs
  <2>4. Len(f) \in Nat
    BY <2>1, FrameIs
  <2> HIDE DEF x, c, f
  <2>5. \A i \in 1 .. Len(f) : x[c + i] = f[i]
    <3> SUFFICES ASSUME NEW i \in 1 .. Len(f) PROVE x[c + i] = f[i]
      OBVIOUS
    <3>1. c + i \in 1 .. Len(Bytes(s)) /\ f[i] = Bytes(s)[c + i]
      BY <1>1, <2>2, <2>3, <2>4 DEF Part
    <3> QED BY <2>3, <3>1
  <2>6. CASE Len(f) <= Len(b)
    <3>1. Begins(b, f)
      BY <1>1, <1>2, <2>4, <2>5, <2>6 DEF Begins
    <3> QED BY <1>3, <2>1, <2>2, <3>1 DEF c, f
  <2>7. CASE Len(b) < Len(f)
    <3>1. \A i \in 1 .. Len(b) : b[i] = f[i]
      BY <1>1, <1>2, <2>4, <2>5, <2>7
    <3>2. Waits(b) /\ ~Malformed(b)
      BY <2>1, <2>7, <3>1, FrameCut DEF f
    <3>3. c + Len(b) < Upto(s, m + 1)
      BY <1>1, <2>2, <2>4, <2>7
    <3> QED BY <1>3, <3>2, <3>3 DEF c
  <2> QED BY <1>1, <2>4, <2>6, <2>7
<1>4. CASE m = Len(s)
  <2>1. /\ Len(x) = c + Len(j) /\ Len(j) \in Nat /\ j \in Seq(Octet)
        /\ \A i \in 1 .. Len(j) : x[c + i] = j[i]
    BY <1>4, WrittenIs
  <2> HIDE DEF x, c
  <2>2. Len(b) <= Len(j) /\ \A i \in 1 .. Len(b) : b[i] = j[i]
    BY <1>1, <1>2, <2>1
  <2>3. CASE j = << >>
    <3>1. b = << >>
      BY <2>2, <2>3
    <3> QED BY <1>4, <3>1, NothingWaits
  <2>4. CASE j # << >> /\ j \in Junk
    <3>1. SubSeq(j, 1, Len(b)) = b
      <4> DEFINE n == Len(b)
                 q == SubSeq(j, 1, n)
      <4>1. n \in Nat /\ 0 <= n /\ n <= Len(j)
        BY <1>1, <2>2
      <4>2. /\ SubSeq(j, 0 + 1, n) \in Seq(Octet) /\ Len(SubSeq(j, 0 + 1, n)) = n - 0
            /\ \A i \in 1 .. (n - 0) : SubSeq(j, 0 + 1, n)[i] = j[0 + i]
        <5> HIDE DEF n
        <5> QED BY <2>1, <4>1, PartElements
      <4>3. q \in Seq(Octet) /\ Len(q) = n /\ \A i \in 1 .. n : q[i] = j[i]
        BY <4>1, <4>2
      <4> HIDE DEF q
      <4>4. q = b
        BY <2>2, <4>3, SameElements
      <4> QED BY <4>4 DEF q
    <3>2. Len(b) \in 0 .. Len(j)
      BY <1>1, <2>1, <2>2
    <3>3. Waits(b) \/ Malformed(b)
      BY <2>4, <3>1, <3>2, FramingAssumption
    <3> QED BY <1>4, <2>4, <3>3
  <2> QED BY <2>3, <2>4 DEF Ending
<1> QED BY <1>1, <1>3, <1>4

\* What a turn of the loop may find: packets in order, and what is left of the bytes
\* up to e; an error only in junk.
LoopStates(s, j, k, e) ==
    {d \in [read : Seq(Packets), left : Seq(Octet), ok : BOOLEAN] :
        /\ \E m \in k .. Len(s) : /\ d.read = SubSeq(s, k + 1, m)
                                  /\ Part(Emitted(s, j), Upto(s, m), d.left)
                                  /\ Upto(s, m) + Len(d.left) = e
        /\ ~d.ok => Malformed(d.left) /\ j # << >>}
Stopped(d) == IF d.ok THEN Waits(d.left) /\ ~Malformed(d.left) ELSE Malformed(d.left)

LEMMA TurnKeeps ==
    ASSUME NEW s \in Seq(Packets), NEW j, Ending(j), NEW k \in 0 .. Len(s), NEW e,
           NEW d \in LoopStates(s, j, k, e)
    PROVE  /\ Turned(d) \in LoopStates(s, j, k, e)
           /\ Stopped(d) => Turned(d) = d
           /\ Stopped(Turned(d)) \/ Len(Turned(d).left) < Len(d.left)
<1> DEFINE b == d.left
           T == [read : Seq(Packets), left : Seq(Octet), ok : BOOLEAN]
<1>1. d \in T /\ (~d.ok => Malformed(b) /\ j # << >>)
  BY DEF LoopStates
<1>2. PICK m \in k .. Len(s) : /\ d.read = SubSeq(s, k + 1, m)
                               /\ Part(Emitted(s, j), Upto(s, m), b)
                               /\ Upto(s, m) + Len(b) = e
  BY DEF LoopStates
<1>3. k \in Nat /\ Len(s) \in Nat /\ m \in 0 .. Len(s) /\ m \in Nat /\ k <= m
  OBVIOUS
<1>4. b \in Seq(Octet) /\ Len(b) \in Nat /\ d.read \in Seq(Packets) /\ d.ok \in BOOLEAN
      /\ d = [read |-> d.read, left |-> b, ok |-> d.ok]
  BY <1>1
<1>5. CASE Malformed(b)
  <2> DEFINE t == [d EXCEPT !.ok = FALSE]
  <2>1. Turned(d) = t
    BY <1>5 DEF Turned
  <2>2. t \in T /\ t.read = d.read /\ t.left = b /\ t.ok = FALSE
    BY <1>1
  <2>3. ~d.ok => t = d
    BY <1>4
  <2> HIDE DEF t
  <2>4. j # << >>
    <3>1. ~Begins(b, Frame(s[m + 1])) \/ s[m + 1] \notin Packets
      BY <1>4, <1>5, FrameWhole
    <3> QED BY <1>2, <1>3, <1>4, <1>5, <3>1, NextIs
  <2>5. t \in LoopStates(s, j, k, e)
    BY <1>2, <1>5, <2>2, <2>4 DEF LoopStates
  <2>6. Stopped(t)
    BY <1>5, <2>2 DEF Stopped
  <2>7. Stopped(d) => ~d.ok
    BY <1>5 DEF Stopped
  <2> QED BY <2>1, <2>3, <2>5, <2>6, <2>7
<1>6. CASE ~Malformed(b) /\ Waits(b)
  <2>1. Turned(d) = d
    BY <1>6 DEF Turned
  <2>2. d.ok
    BY <1>1, <1>4, <1>6
  <2>3. Stopped(d)
    BY <1>6, <2>2 DEF Stopped
  <2> QED BY <2>1, <2>3
<1>7. CASE ~Malformed(b) /\ ~Waits(b)
  <2> DEFINE p == s[m + 1]
             f == Frame(p)
             l == VarIntLen(b) + VarIntOf(b)
             a == After(b, l)
             r == Append(d.read, p)
  <2>1. m < Len(s) /\ Begins(b, f) /\ p \in Packets /\ Upto(s, m + 1) = Upto(s, m) + Len(f)
    BY <1>2, <1>3, <1>4, <1>7, NextIs
  <2>2. PacketIn(Body(b)) = p /\ l = Len(f)
    BY <1>4, <2>1, FrameWhole
  <2>3. Len(f) \in Nat \ {0}
    BY <2>1, FrameIs
  <2>4. Turned(d) = [d EXCEPT !.read = r, !.left = a]
    BY <1>7, <2>2 DEF Turned
  <2>5. d.ok
    BY <1>1, <1>4, <1>7
  <2>6. Turned(d) = [read |-> r, left |-> a, ok |-> TRUE]
    <3> HIDE DEF r, a
    <3> QED BY <1>4, <2>4, <2>5
  <2>7. l \in Nat /\ l <= Len(b) /\ Len(b) - l < Len(b)
    <3> HIDE DEF l, f
    <3> QED BY <1>4, <2>1, <2>2, <2>3 DEF Begins
  <2>8. Emitted(s, j) \in Seq(Octet) /\ Upto(s, m) \in Nat
    BY <1>3, WrittenIs, FramesLie
  <2>9. a \in Seq(Octet) /\ Len(a) = Len(b) - l /\ Part(Emitted(s, j), Upto(s, m) + l, a)
    <3> HIDE DEF l, f
    <3> QED BY <1>2, <1>4, <2>7, <2>8, PartAfter
  <2>10. m + 1 \in k .. Len(s) /\ r \in Seq(Packets) /\ r = SubSeq(s, k + 1, m + 1)
    <3>1. m + 1 \in k .. Len(s) /\ m + 1 \in Nat /\ m + 1 <= Len(s) /\ k <= m + 1 /\ m <= Len(s)
      BY <1>3, <2>1
    <3> DEFINE u == SubSeq(s, k + 1, m)
               v == SubSeq(s, k + 1, m + 1)
    <3>2. u \in Seq(Packets) /\ Len(u) = m - k /\ \A i \in 1 .. (m - k) : u[i] = s[k + i]
      BY <1>3, <3>1, PartElements
    <3>3. v \in Seq(Packets) /\ Len(v) = (m + 1) - k /\ \A i \in 1 .. ((m + 1) - k) : v[i] = s[k + i]
      <4> DEFINE n == m + 1
      <4>1. n \in Nat /\ k <= n /\ n <= Len(s)
        BY <3>1
      <4> HIDE DEF n
      <4>2. /\ SubSeq(s, k + 1, n) \in Seq(Packets) /\ Len(SubSeq(s, k + 1, n)) = n - k
            /\ \A i \in 1 .. (n - k) : SubSeq(s, k + 1, n)[i] = s[k + i]
        BY <1>3, <4>1, PartElements
      <4> QED BY <4>2 DEF n
    <3> HIDE DEF u, v
    <3>4. /\ Append(u, p) \in Seq(Packets) /\ Len(Append(u, p)) = Len(u) + 1
          /\ \A i \in 1 .. Len(u) : Append(u, p)[i] = u[i]
          /\ Append(u, p)[Len(u) + 1] = p
      <4> HIDE DEF p
      <4> QED BY <2>1, <3>2
    <3>5. \A i \in 1 .. ((m + 1) - k) : Append(u, p)[i] = v[i]
      <4> SUFFICES ASSUME NEW i \in 1 .. ((m + 1) - k) PROVE Append(u, p)[i] = v[i]
        OBVIOUS
      <4> HIDE DEF p
      <4>1. CASE i \in 1 .. (m - k)
        <5>1. i \in 1 .. Len(u) /\ i \in 1 .. ((m + 1) - k)
          BY <1>3, <3>2, <4>1
        <5>2. Append(u, p)[i] = u[i] /\ u[i] = s[k + i] /\ v[i] = s[k + i]
          BY <3>2, <3>3, <3>4, <4>1, <5>1
        <5> QED BY <5>2
      <4>2. CASE i = (m - k) + 1
        <5>1. k + i = m + 1
          BY <1>3, <4>2
        <5>2. v[i] = p
          BY <3>3, <5>1 DEF p
        <5>3. i = Len(u) + 1
          BY <3>2, <4>2
        <5> QED BY <3>4, <5>2, <5>3
      <4>3. i \in 1 .. (m - k) \/ i = (m - k) + 1
        BY <1>3
      <4> QED BY <4>1, <4>2, <4>3
    <3>6. Append(u, p) = v
      <4> DEFINE w == Append(u, p)
      <4>1. w \in Seq(Packets) /\ Len(w) = Len(v) /\ \A i \in 1 .. Len(w) : w[i] = v[i]
        <5> HIDE DEF p, w
        <5>1. Len(w) = (m - k) + 1 /\ w \in Seq(Packets)
          BY <3>2, <3>4 DEF w
        <5>2. Len(w) = Len(v) /\ Len(w) = (m + 1) - k
          BY <1>3, <3>3, <5>1
        <5>3. \A i \in 1 .. Len(w) : w[i] = v[i]
          BY <3>5, <5>2 DEF w
        <5> QED BY <5>1, <5>2, <5>3
      <4> HIDE DEF w
      <4>2. w = v
        BY <3>3, <4>1, SameElements
      <4> QED BY <4>2 DEF w
    <3> QED BY <1>2, <3>1, <3>4, <3>6 DEF u, v
  <2> HIDE DEF p, f, l, a, r
  <2>11. Part(Emitted(s, j), Upto(s, m + 1), a) /\ Upto(s, m + 1) + Len(a) = e
    BY <1>2, <1>4, <2>1, <2>2, <2>7, <2>8, <2>9
  <2>12. Turned(d) \in LoopStates(s, j, k, e)
    <3> DEFINE t == Turned(d)
    <3>1. t \in T /\ t.read = r /\ t.left = a /\ t.ok = TRUE
      <4>1. [read |-> r, left |-> a, ok |-> TRUE] \in T
        BY <2>9, <2>10
      <4> QED BY <2>6, <4>1
    <3>2. \E q \in k .. Len(s) : /\ t.read = SubSeq(s, k + 1, q)
                                 /\ Part(Emitted(s, j), Upto(s, q), t.left)
                                 /\ Upto(s, q) + Len(t.left) = e
      <4> HIDE DEF t
      <4> QED BY <2>10, <2>11, <3>1
    <3> HIDE DEF t
    <3> QED BY <3>1, <3>2 DEF LoopStates, t
  <2>13. Len(Turned(d).left) < Len(d.left)
    BY <2>6, <2>7, <2>9
  <2>14. ~Stopped(d)
    BY <1>7, <2>5 DEF Stopped
  <2> QED BY <2>12, <2>13, <2>14
<1> QED BY <1>5, <1>6, <1>7

-----------------------------------------------------------------------------
(* Framing: what the loop hands on.                                        *)

\* The turns of the loop on some bytes.
LoopWalk(h, b, n) ==
    h = [i \in 0 .. n |-> IF i = 0 THEN [read |-> << >>, left |-> b, ok |-> TRUE] ELSE Turned(h[i - 1])]

\* As many turns as there are bytes reach the end of the loop.
LEMMA DecodedIs ==
    ASSUME NEW s \in Seq(Packets), NEW j, Ending(j), NEW k \in 0 .. Len(s), NEW b \in Seq(Octet),
           Part(Emitted(s, j), Upto(s, k), b)
    PROVE  /\ Decoded(b) \in LoopStates(s, j, k, Upto(s, k) + Len(b))
           /\ Stopped(Decoded(b))
<1> DEFINE n == Len(b)
           e == Upto(s, k) + n
           T == LoopStates(s, j, k, e)
           d0 == [read |-> << >>, left |-> b, ok |-> TRUE]
           F == [p \in (1 .. n) \X T |-> Turned(p[2])]
<1>1. n \in Nat /\ Len(s) \in Nat /\ k \in Nat /\ k <= Len(s)
  OBVIOUS
<1>2. d0 \in T
  <2> DEFINE R == [read : Seq(Packets), left : Seq(Octet), ok : BOOLEAN]
  <2>1. d0 \in R /\ d0.read = << >> /\ d0.left = b /\ d0.ok = TRUE
    OBVIOUS
  <2>2. SubSeq(s, k + 1, k) = << >>
    <3>1. SubSeq(s, k + 1, k) \in Seq(Packets) /\ Len(SubSeq(s, k + 1, k)) = k - k
      BY <1>1, PartElements
    <3>2. Len(SubSeq(s, k + 1, k)) = 0
      BY <1>1, <3>1
    <3> QED BY <3>1, <3>2
  <2> HIDE DEF d0
  <2>3. \E m \in k .. Len(s) : /\ d0.read = SubSeq(s, k + 1, m)
                               /\ Part(Emitted(s, j), Upto(s, m), d0.left)
                               /\ Upto(s, m) + Len(d0.left) = e
    <3>1. k \in k .. Len(s)
      BY <1>1
    <3> QED BY <2>1, <2>2, <3>1
  <2> HIDE DEF e
  <2> QED BY <2>1, <2>3 DEF LoopStates
<1>3. \A d \in T : /\ Turned(d) \in T /\ (Stopped(d) => Turned(d) = d)
                   /\ (Stopped(Turned(d)) \/ Len(Turned(d).left) < Len(d.left))
  <2> HIDE DEF e
  <2> QED BY TurnKeeps
<1>4. F \in [(1 .. n) \X T -> T]
  <2> HIDE DEF T, n
  <2> QED BY <1>3
<1>5. PICK g \in [0 .. n -> T] : StepsUp(g, n, d0, F)
  <2> HIDE DEF T, n, F, d0
  <2> QED BY <1>1, <1>2, <1>4, StepsExist
<1>6. g[0] = d0 /\ \A i \in 1 .. n : g[i] = Turned(g[i - 1])
  <2>1. ASSUME NEW i \in 1 .. n PROVE g[i] = Turned(g[i - 1])
    <3> HIDE DEF T, n
    <3>1. i - 1 \in 0 .. n
      BY <1>1
    <3>2. g[i - 1] \in T
      BY <1>5, <3>1
    <3>3. << i, g[i - 1] >> \in (1 .. n) \X T
      BY <3>2
    <3>4. g[i] = F[<< i, g[i - 1] >>]
      <4> HIDE DEF F
      <4> QED BY <1>5 DEF StepsUp
    <3> QED BY <3>3, <3>4
  <2> HIDE DEF T, n, F, d0
  <2> QED BY <1>5, <2>1 DEF StepsUp
<1>7. LoopWalk(g, b, n)
  <2> HIDE DEF T, F
  <2>1. g = [i \in 0 .. n |-> g[i]]
    <3> HIDE DEF n
    <3> QED BY <1>5
  <2>2. \A i \in 0 .. n : g[i] = IF i = 0 THEN d0 ELSE Turned(g[i - 1])
    <3> HIDE DEF n, d0
    <3>1. \A i \in 0 .. n : i = 0 \/ i \in 1 .. n
      BY <1>1
    <3> QED BY <1>6, <3>1
  <2> HIDE DEF n
  <2> QED BY <2>1, <2>2, Zenon DEF LoopWalk
<1> DEFINE h == CHOOSE q : LoopWalk(q, b, n)
<1>8. LoopWalk(h, b, n)
  <2> HIDE DEF n
  <2> QED BY <1>7
<1>9. Decoded(b) = h[n]
  BY Zenon DEF Decoded, LoopWalk
<1> HIDE DEF h
<1>10. h[0] = d0 /\ \A i \in 1 .. n : h[i] = Turned(h[i - 1])
  <2>1. 0 \in 0 .. n /\ \A i \in 1 .. n : i \in 0 .. n /\ i # 0
    BY <1>1
  <2> HIDE DEF n
  <2>2. \A i \in 0 .. n : h[i] = IF i = 0 THEN d0 ELSE Turned(h[i - 1])
    BY <1>8, Zenon DEF LoopWalk
  <2> HIDE DEF d0
  <2> QED BY <2>1, <2>2
<1> DEFINE Fine(i) == h[i] \in T /\ (Stopped(h[i]) \/ Len(h[i].left) <= n - i)
           S == {i \in 0 .. n : Fine(i)}
<1>11. \A i \in 0 .. n : i \in S
  <2>1. 0 \in S
    <3>1. h[0].left = b
      BY <1>10
    <3>2. h[0] \in T
      <4> HIDE DEF T, d0
      <4> QED BY <1>2, <1>10
    <3>3. 0 \in 0 .. n /\ n - 0 = n /\ Len(b) <= n
      BY <1>1
    <3> HIDE DEF T
    <3> QED BY <3>1, <3>2, <3>3
  <2>2. \A i \in 0 .. n : i < n /\ i \in S => i + 1 \in S
    <3> SUFFICES ASSUME NEW i \in 0 .. n, i < n, Fine(i) PROVE i + 1 \in S
      OBVIOUS
    <3> DEFINE d == h[i]
               t == h[i + 1]
    <3>1. i + 1 \in 1 .. n /\ i + 1 \in 0 .. n /\ (i + 1) - 1 = i /\ i \in Nat
      <4> HIDE DEF n
      <4> QED BY <1>1
    <3>2. t = Turned(d)
      <4> HIDE DEF n, d0
      <4> QED BY <1>10, <3>1
    <3>3. d \in T /\ (Stopped(d) \/ Len(d.left) <= n - i)
      OBVIOUS
    <3> HIDE DEF d, t, T, n
    <3>4. t \in T /\ (Stopped(d) => t = d) /\ (Stopped(t) \/ Len(t.left) < Len(d.left))
      BY <1>3, <3>2, <3>3
    <3>5. t.left \in Seq(Octet) /\ d.left \in Seq(Octet)
      BY <3>3, <3>4 DEF T, LoopStates
    <3>6. Len(t.left) \in Nat /\ Len(d.left) \in Nat
      BY <3>5
    <3>7. Stopped(t) \/ Len(t.left) <= n - (i + 1)
      BY <1>1, <3>1, <3>3, <3>4, <3>6
    <3> QED BY <3>1, <3>4, <3>7 DEF t, T, n
  <2> HIDE DEF S, n
  <2> QED BY <1>1, <2>1, <2>2, CountUp
<1>12. Fine(n)
  <2>1. n \in 0 .. n
    BY <1>1
  <2> HIDE DEF Fine, n
  <2> QED BY <1>11, <2>1
<1>13. Stopped(h[n])
  <2> DEFINE d == h[n]
  <2>1. d \in T /\ (Stopped(d) \/ Len(d.left) <= n - n)
    BY <1>12
  <2> HIDE DEF d, n
  <2>2. d.left \in Seq(Octet) /\ d.ok \in BOOLEAN /\ (~d.ok => Malformed(d.left))
    BY <2>1 DEF LoopStates
  <2>3. CASE Len(d.left) <= n - n
    <3>1. Len(d.left) = 0
      BY <1>1, <2>2, <2>3
    <3>2. d.left = << >>
      BY <2>2, <3>1
    <3>3. Waits(d.left) /\ ~Malformed(d.left)
      BY <3>2, NothingWaits
    <3> QED BY <2>2, <3>3 DEF Stopped, d
  <2> QED BY <2>1, <2>3 DEF d
<1> QED BY <1>9, <1>12, <1>13

-----------------------------------------------------------------------------
(* Framing: the bytes of a connection.                                     *)

\* Bytes that are added behind the others, and to a part that reaches their end.
LEMMA PartGrows ==
    ASSUME NEW x \in Seq(Octet), NEW f \in Seq(Octet), NEW c \in Nat, NEW b \in Seq(Octet), Part(x, c, b)
    PROVE  /\ x \o f \in Seq(Octet) /\ b \o f \in Seq(Octet) /\ Part(x \o f, c, b)
           /\ c + Len(b) = Len(x) => Part(x \o f, c, b \o f) /\ c + Len(b \o f) = Len(x \o f)
<1> DEFINE q == x \o f
           z == b \o f
<1>1. /\ q \in Seq(Octet) /\ Len(q) = Len(x) + Len(f)
      /\ \A i \in 1 .. Len(x) : q[i] = x[i]
      /\ \A i \in Len(x) + 1 .. Len(x) + Len(f) : q[i] = f[i - Len(x)]
  BY ConcatElements
<1>2. /\ z \in Seq(Octet) /\ Len(z) = Len(b) + Len(f)
      /\ \A i \in 1 .. Len(b) : z[i] = b[i]
      /\ \A i \in Len(b) + 1 .. Len(b) + Len(f) : z[i] = f[i - Len(b)]
  BY ConcatElements
<1>3. Len(x) \in Nat /\ Len(f) \in Nat /\ Len(b) \in Nat
  OBVIOUS
<1>4. c + Len(b) <= Len(x) /\ \A i \in 1 .. Len(b) : b[i] = x[c + i]
  BY DEF Part
<1> HIDE DEF q, z
<1>5. \A i \in 1 .. Len(b) : b[i] = q[c + i]
  <2> SUFFICES ASSUME NEW i \in 1 .. Len(b) PROVE b[i] = q[c + i]
    OBVIOUS
  <2>1. c + i \in 1 .. Len(x)
    BY <1>3, <1>4
  <2> QED BY <1>1, <1>4, <2>1
<1>6. c + Len(b) <= Len(q)
  BY <1>1, <1>3, <1>4
<1>7. ASSUME c + Len(b) = Len(x) PROVE Part(q, c, z) /\ c + Len(z) = Len(q)
  <2> DEFINE lx == Len(x)
             lf == Len(f)
             lb == Len(b)
  <2>a. lx \in Nat /\ lf \in Nat /\ lb \in Nat /\ c + lb = lx
    BY <1>3, <1>7
  <2>b. Len(z) = lb + lf /\ Len(q) = lx + lf
    BY <1>1, <1>2
  <2> HIDE DEF lx, lf, lb
  <2>1. c + Len(z) = Len(q)
    BY <2>a, <2>b
  <2>2. \A i \in 1 .. Len(z) : z[i] = q[c + i]
    <3> SUFFICES ASSUME NEW i \in 1 .. Len(z) PROVE z[i] = q[c + i]
      OBVIOUS
    <3>1. CASE i \in 1 .. Len(b)
      BY <1>2, <1>5, <3>1
    <3>2. CASE i \notin 1 .. Len(b)
      <4>1. i \in Len(b) + 1 .. Len(b) + Len(f) /\ c + i \in Len(x) + 1 .. Len(x) + Len(f)
            /\ (c + i) - Len(x) = i - Len(b)
        <5>1. i \in lb + 1 .. lb + lf
          <6>1. i \in 1 .. (lb + lf) /\ i \notin 1 .. lb
            BY <2>b, <3>2 DEF lb
          <6> QED BY <2>a, <6>1
        <5>2. c + i \in lx + 1 .. lx + lf /\ (c + i) - lx = i - lb
          BY <2>a, <5>1
        <5> QED BY <5>1, <5>2 DEF lx, lf, lb
      <4> QED BY <1>1, <1>2, <4>1
    <3> QED BY <3>1, <3>2
  <2> QED BY <1>2, <1>3, <2>1, <2>2 DEF Part
<1>8. Part(q, c, b)
  BY <1>5, <1>6 DEF Part
<1> QED BY <1>1, <1>2, <1>7, <1>8 DEF q, z

\* A part, and the first n bytes of the part behind it.
LEMMA PartJoin ==
    ASSUME NEW x \in Seq(Octet), NEW c \in Nat, NEW b \in Seq(Octet), Part(x, c, b),
           NEW f \in Seq(Octet), Part(x, c + Len(b), f), NEW n \in 0 .. Len(f)
    PROVE  LET z == b \o SubSeq(f, 1, n)
           IN  z \in Seq(Octet) /\ Len(z) = Len(b) + n /\ Part(x, c, z)
<1> DEFINE g == SubSeq(f, 1, n)
           z == b \o g
<1>1. Len(x) \in Nat /\ Len(f) \in Nat /\ Len(b) \in Nat /\ n \in Nat /\ n <= Len(f)
  OBVIOUS
<1>2. g \in Seq(Octet) /\ Len(g) = n /\ \A i \in 1 .. n : g[i] = f[i]
  <2>1. /\ SubSeq(f, 0 + 1, n) \in Seq(Octet) /\ Len(SubSeq(f, 0 + 1, n)) = n - 0
        /\ \A i \in 1 .. (n - 0) : SubSeq(f, 0 + 1, n)[i] = f[0 + i]
    BY <1>1, PartElements
  <2> QED BY <1>1, <2>1
<1> HIDE DEF g
<1>a. g \in Seq(Octet)
  BY <1>2
<1>3. /\ z \in Seq(Octet) /\ Len(z) = Len(b) + Len(g)
      /\ \A i \in 1 .. Len(b) : z[i] = b[i]
      /\ \A i \in Len(b) + 1 .. Len(b) + Len(g) : z[i] = g[i - Len(b)]
  BY <1>a, ConcatElements
<1>4. /\ c + Len(b) <= Len(x) /\ \A i \in 1 .. Len(b) : b[i] = x[c + i]
      /\ (c + Len(b)) + Len(f) <= Len(x) /\ \A i \in 1 .. Len(f) : f[i] = x[(c + Len(b)) + i]
  BY DEF Part
<1> HIDE DEF z
<1>5. Len(z) = Len(b) + n
  BY <1>2, <1>3
<1>6. \A i \in 1 .. Len(z) : z[i] = x[c + i]
  <2> SUFFICES ASSUME NEW i \in 1 .. Len(z) PROVE z[i] = x[c + i]
    OBVIOUS
  <2>1. CASE i \in 1 .. Len(b)
    BY <1>3, <1>4, <2>1
  <2>2. CASE i \notin 1 .. Len(b)
    <3> DEFINE l == i - Len(b)
    <3>1. i \in Len(b) + 1 .. Len(b) + Len(g) /\ l \in 1 .. n /\ l \in 1 .. Len(f)
          /\ (c + Len(b)) + l = c + i
      BY <1>1, <1>2, <1>5, <2>2
    <3>2. z[i] = g[l]
      BY <1>3, <3>1
    <3>3. g[l] = f[l] /\ f[l] = x[c + i]
      <4> HIDE DEF l
      <4> QED BY <1>2, <1>4, <3>1
    <3> QED BY <3>2, <3>3
  <2> QED BY <2>1, <2>2
<1>7. c + Len(z) <= Len(x)
  BY <1>1, <1>4, <1>5
<1> QED BY <1>3, <1>5, <1>6, <1>7 DEF Part, z, g

-----------------------------------------------------------------------------
(* Framing: the invariant.                                                 *)

\* The type of the variables.
FramesTypes ==
    /\ sent \in Seq(Packets) /\ Len(sent) <= MaxFrames
    /\ flight \in Seq(Octet) /\ inbuf \in Seq(Octet)
    /\ hung \in {"no", "yes"} /\ spoilt \in BOOLEAN /\ open \in BOOLEAN

\* The packets handed on are the first ones of the client.
Handed == Len(read) \in 0 .. Len(sent) /\ read = SubSeq(sent, 1, Len(read))

\* The input buffer and the bytes that have not arrived are what the client has
\* written behind the packets handed on.
Lies(j) ==
    LET x == Emitted(sent, j)
        c == Upto(sent, Len(read))
    IN  /\ Ending(j) /\ (~spoilt => j = << >>)
        /\ Part(x, c, inbuf) /\ Part(x, c + Len(inbuf), flight)
        /\ (c + Len(inbuf)) + Len(flight) = Len(x)

\* The inductive invariant: types, order, and an open connection that waits.
FramesInv ==
    /\ FramesTypes
    /\ Handed
    /\ open => Waits(inbuf) /\ ~Malformed(inbuf) /\ \E j : Lies(j)
    /\ ~open => hung = "yes" \/ spoilt

\* The client writes a frame or junk.
LEMMA WriteKeeps ==
    ASSUME FramesInv, ~spoilt, open, NEW t \in Seq(Packets), NEW f \in Seq(Octet), NEW j, Ending(j),
           Emitted(t, j) = Bytes(sent) \o f, Len(read) \in 0 .. Len(t),
           Upto(t, Len(read)) = Upto(sent, Len(read))
    PROVE  LET x == Emitted(t, j)
               c == Upto(t, Len(read))
           IN  /\ flight \o f \in Seq(Octet)
               /\ Part(x, c, inbuf) /\ Part(x, c + Len(inbuf), flight \o f)
               /\ (c + Len(inbuf)) + Len(flight \o f) = Len(x)
<1> DEFINE w == Bytes(sent)
           c == Upto(sent, Len(read))
           o == c + Len(inbuf)
<1>1. PICK i : Lies(i)
  BY DEF FramesInv
<1>2. i = << >>
  BY <1>1 DEF Lies
<1>3. w \in Seq(Octet) /\ c \in Nat
  BY FramesLie DEF FramesInv, FramesTypes, Handed
<1>4. Emitted(sent, i) = w
  BY <1>2, <1>3 DEF Emitted
<1>5. inbuf \in Seq(Octet) /\ flight \in Seq(Octet) /\ Len(inbuf) \in Nat
  BY DEF FramesInv, FramesTypes
<1>6. Part(w, c, inbuf) /\ Part(w, o, flight) /\ o + Len(flight) = Len(w)
  BY <1>1, <1>4 DEF Lies
<1>7. o \in Nat
  BY <1>3, <1>5
<1> HIDE DEF w, c, o
<1>8. Part(w \o f, c, inbuf)
  BY <1>3, <1>5, <1>6, PartGrows
<1>9. flight \o f \in Seq(Octet) /\ Part(w \o f, o, flight \o f) /\ o + Len(flight \o f) = Len(w \o f)
  BY <1>3, <1>5, <1>6, <1>7, PartGrows
<1> QED BY <1>8, <1>9 DEF w, c, o

-----------------------------------------------------------------------------
(* Framing: the steps.                                                     *)

\* Initially nothing is written.
LEMMA FramesInitially == FramingInit => FramesInv
<1> SUFFICES ASSUME FramingInit PROVE FramesInv
  OBVIOUS
<1>1. /\ sent = << >> /\ flight = << >> /\ hung = "no" /\ spoilt = FALSE
      /\ inbuf = << >> /\ read = << >> /\ open = TRUE
  BY DEF FramingInit
<1>2. FramesTypes
  <2>1. MaxFrames \in Nat
    BY FramingAssumption
  <2>2. Len(sent) = 0 /\ sent \in Seq(Packets)
    BY <1>1
  <2>3. Len(sent) <= MaxFrames
    BY <2>1, <2>2
  <2>4. flight \in Seq(Octet) /\ inbuf \in Seq(Octet)
    BY <1>1
  <2>5. hung \in {"no", "yes"} /\ spoilt \in BOOLEAN /\ open \in BOOLEAN
    BY <1>1
  <2> QED BY <2>2, <2>3, <2>4, <2>5 DEF FramesTypes
<1>3. Len(read) = 0 /\ Len(sent) = 0 /\ Len(inbuf) = 0 /\ Len(flight) = 0
  BY <1>1
<1>4. Handed
  <2>1. SubSeq(sent, 0 + 1, 0) \in Seq(Packets) /\ Len(SubSeq(sent, 0 + 1, 0)) = 0 - 0
    BY <1>2, <1>3, PartElements DEF FramesTypes
  <2>2. SubSeq(sent, 1, 0) = << >>
    BY <2>1
  <2> QED BY <1>1, <1>3, <2>2 DEF Handed
<1>5. Ending(<< >>)
  BY DEF Ending
<1>6. Bytes(sent) \in Seq(Octet) /\ Len(Bytes(sent)) = Upto(sent, 0) /\ Upto(sent, 0) = 0
  BY <1>2, <1>3, FramesLie DEF FramesTypes
<1>7. Len(Emitted(sent, << >>)) = 0
  BY <1>2, <1>3, <1>5, <1>6, WrittenIs DEF FramesTypes
<1>8. Lies(<< >>)
  <2> DEFINE x == Emitted(sent, << >>)
             c == Upto(sent, Len(read))
  <2>1. c = 0 /\ Len(x) = 0
    BY <1>3, <1>6, <1>7
  <2> HIDE DEF x, c
  <2>2. Part(x, c, inbuf) /\ Part(x, c + Len(inbuf), flight) /\ (c + Len(inbuf)) + Len(flight) = Len(x)
    BY <1>3, <2>1 DEF Part
  <2> QED BY <1>5, <2>2 DEF Lies, x, c
<1> QED BY <1>1, <1>2, <1>4, <1>8, NothingWaits DEF FramesInv

\* A frame of the client goes behind what it has written.
LEMMA SendFrameKeeps == ASSUME FramesInv, NEW p \in Packets, SendFrame(p) PROVE FramesInv'
<1> DEFINE t == Append(sent, p)
           f == Frame(p)
<1>1. /\ hung = "no" /\ ~spoilt /\ Len(sent) < MaxFrames /\ sent' = t /\ flight' = flight \o f
      /\ UNCHANGED << hung, spoilt, inbuf, read, open >>
  BY DEF SendFrame
<1>2. FramesTypes /\ Handed /\ open /\ Waits(inbuf) /\ ~Malformed(inbuf)
  BY <1>1 DEF FramesInv, FramesTypes
<1>3. /\ t \in Seq(Packets) /\ Len(t) = Len(sent) + 1 /\ Len(sent) \in Nat
      /\ \A i \in 1 .. Len(sent) : t[i] = sent[i]
  BY <1>2 DEF FramesTypes
<1>4. Len(read) \in 0 .. Len(sent) /\ Len(read) \in 0 .. Len(t) /\ read = SubSeq(sent, 1, Len(read))
  BY <1>2, <1>3 DEF Handed
<1>5. Bytes(t) = Bytes(sent) \o f /\ Upto(t, Len(read)) = Upto(sent, Len(read))
  BY <1>2, <1>4, FramesAppend DEF FramesTypes
<1>6. f \in Seq(Octet)
  BY FrameIs
<1>7. Ending(<< >>)
  BY DEF Ending
<1>8. Emitted(t, << >>) = Bytes(sent) \o f
  <2>1. Bytes(t) \in Seq(Octet)
    BY <1>3, FramesLie
  <2>2. Emitted(t, << >>) = Bytes(t)
    BY <2>1 DEF Emitted
  <2> QED BY <1>5, <2>2
<1> HIDE DEF t, f
<1>9. LET x == Emitted(t, << >>)
          c == Upto(t, Len(read))
      IN  /\ flight \o f \in Seq(Octet)
          /\ Part(x, c, inbuf) /\ Part(x, c + Len(inbuf), flight \o f)
          /\ (c + Len(inbuf)) + Len(flight \o f) = Len(x)
  BY <1>1, <1>2, <1>3, <1>4, <1>5, <1>6, <1>7, <1>8, WriteKeeps
<1>10. Lies(<< >>)'
  BY <1>1, <1>7, <1>9 DEF Lies
<1>11. FramesTypes'
  <2>1. Len(t) <= MaxFrames
    BY <1>1, <1>3, FramingAssumption
  <2> QED BY <1>1, <1>2, <1>3, <1>9, <2>1 DEF FramesTypes
<1>12. Handed'
  <2> DEFINE n == Len(read)
  <2>1. n \in Nat /\ n <= Len(sent) /\ n <= Len(t) /\ sent \in Seq(Packets)
    BY <1>2, <1>3, <1>4 DEF FramesTypes
  <2> HIDE DEF n
  <2>2. /\ SubSeq(sent, 0 + 1, n) \in Seq(Packets) /\ Len(SubSeq(sent, 0 + 1, n)) = n - 0
        /\ \A i \in 1 .. (n - 0) : SubSeq(sent, 0 + 1, n)[i] = sent[0 + i]
    BY <2>1, PartElements
  <2>3. /\ SubSeq(t, 0 + 1, n) \in Seq(Packets) /\ Len(SubSeq(t, 0 + 1, n)) = n - 0
        /\ \A i \in 1 .. (n - 0) : SubSeq(t, 0 + 1, n)[i] = t[0 + i]
    BY <1>3, <2>1, PartElements
  <2> DEFINE u == SubSeq(sent, 1, n)
             v == SubSeq(t, 1, n)
  <2>4. u \in Seq(Packets) /\ Len(u) = n /\ \A i \in 1 .. n : u[i] = sent[i]
    BY <2>1, <2>2
  <2>5. v \in Seq(Packets) /\ Len(v) = n /\ \A i \in 1 .. n : v[i] = t[i]
    BY <2>1, <2>3
  <2> HIDE DEF u, v
  <2>6. \A i \in 1 .. n : u[i] = v[i]
    BY <1>3, <2>1, <2>4, <2>5
  <2>7. u = v
    BY <2>4, <2>5, <2>6, SameElements
  <2>8. read = v
    BY <1>4, <2>7 DEF u, n
  <2> QED BY <1>1, <1>4, <2>8 DEF Handed, v, n
<1> QED BY <1>1, <1>2, <1>10, <1>11, <1>12 DEF FramesInv

\* Junk goes behind what the client has written.
LEMMA SendJunkKeeps == ASSUME FramesInv, NEW f \in Junk, SendJunk(f) PROVE FramesInv'
<1>1. /\ hung = "no" /\ ~spoilt /\ flight' = flight \o f /\ spoilt' = TRUE
      /\ UNCHANGED << sent, hung, inbuf, read, open >>
  BY DEF SendJunk
<1>2. FramesTypes /\ Handed /\ open /\ Waits(inbuf) /\ ~Malformed(inbuf)
  BY <1>1 DEF FramesInv, FramesTypes
<1>3. f \in Seq(Octet) /\ Ending(f)
  BY FramingAssumption DEF Ending
<1>4. sent \in Seq(Packets) /\ Len(read) \in 0 .. Len(sent) /\ Emitted(sent, f) = Bytes(sent) \o f
  BY <1>2 DEF FramesTypes, Handed, Emitted
<1>5. LET x == Emitted(sent, f)
          c == Upto(sent, Len(read))
      IN  /\ flight \o f \in Seq(Octet)
          /\ Part(x, c, inbuf) /\ Part(x, c + Len(inbuf), flight \o f)
          /\ (c + Len(inbuf)) + Len(flight \o f) = Len(x)
  BY <1>1, <1>2, <1>3, <1>4, WriteKeeps
<1>6. Lies(f)'
  BY <1>1, <1>3, <1>5 DEF Lies
<1>7. FramesTypes' /\ Handed'
  BY <1>1, <1>2, <1>5 DEF FramesTypes, Handed
<1> QED BY <1>1, <1>2, <1>6, <1>7 DEF FramesInv

\* What the server reads goes through the loop.
LEMMA ReadSocketKeeps ==
    ASSUME FramesInv, NEW n \in 0 .. Len(flight), NEW end \in BOOLEAN, ReadSocket(n, end)
    PROVE  FramesInv'
<1>1. open /\ flight' = After(flight, n) /\ UNCHANGED << sent, hung, spoilt >>
  BY DEF ReadSocket
<1>2. FramesTypes /\ Handed /\ Waits(inbuf) /\ ~Malformed(inbuf)
  BY <1>1 DEF FramesInv
<1>3. /\ sent \in Seq(Packets) /\ flight \in Seq(Octet) /\ inbuf \in Seq(Octet)
      /\ Len(sent) \in Nat /\ Len(flight) \in Nat /\ Len(inbuf) \in Nat /\ n \in Nat /\ n <= Len(flight)
      /\ Len(read) \in 0 .. Len(sent) /\ Len(read) \in Nat
  BY <1>2 DEF FramesTypes, Handed
<1>4. PICK j : Lies(j)
  BY <1>1 DEF FramesInv
<1> DEFINE x == Emitted(sent, j)
           k == Len(read)
           c == Upto(sent, k)
           o == c + Len(inbuf)
<1>5. /\ Ending(j) /\ (~spoilt => j = << >>) /\ Part(x, c, inbuf) /\ Part(x, o, flight)
      /\ o + Len(flight) = Len(x)
  BY <1>4 DEF Lies
<1>6. c \in Nat /\ x \in Seq(Octet) /\ o \in Nat
  BY <1>3, <1>5, FramesLie, WrittenIs
<1>7. CASE end
  <2>1. hung = "yes" /\ n = Len(flight) /\ open' = FALSE /\ inbuf' = inbuf \o flight /\ read' = read
    BY <1>7 DEF ReadSocket
  <2>2. inbuf \o flight \in Seq(Octet)
    BY <1>3, ConcatElements
  <2>3. After(flight, n) \in Seq(Octet)
    <3> HIDE DEF x, o
    <3> QED BY <1>3, <1>5, <1>6, PartAfter
  <2>4. FramesTypes' /\ Handed'
    BY <1>1, <1>2, <2>1, <2>2, <2>3 DEF FramesTypes, Handed
  <2> QED BY <1>1, <2>1, <2>4 DEF FramesInv
<1>8. CASE ~end
  <2> DEFINE z == inbuf \o SubSeq(flight, 1, n)
             d == Decoded(z)
             a == After(flight, n)
  <2>1. inbuf' = d.left /\ read' = read \o d.read /\ open' = d.ok
    BY <1>8 DEF ReadSocket
  <2>2. z \in Seq(Octet) /\ Len(z) = Len(inbuf) + n /\ Part(x, c, z)
    <3> HIDE DEF x, c
    <3> QED BY <1>3, <1>5, <1>6, PartJoin DEF o
  <2>3. a \in Seq(Octet) /\ Len(a) = Len(flight) - n /\ Part(x, o + n, a)
    <3> HIDE DEF x, o
    <3> QED BY <1>3, <1>5, <1>6, PartAfter
  <2>4. d \in LoopStates(sent, j, k, c + Len(z)) /\ Stopped(d)
    <3> HIDE DEF z
    <3> QED BY <1>3, <1>5, <2>2, DecodedIs
  <2> HIDE DEF d, z, a
  <2>5. d.read \in Seq(Packets) /\ d.left \in Seq(Octet) /\ d.ok \in BOOLEAN
        /\ (~d.ok => Malformed(d.left) /\ j # << >>)
    BY <2>4 DEF LoopStates
  <2>6. PICK m \in k .. Len(sent) : /\ d.read = SubSeq(sent, k + 1, m)
                                    /\ Part(x, Upto(sent, m), d.left)
                                    /\ Upto(sent, m) + Len(d.left) = c + Len(z)
    <3> HIDE DEF c
    <3> QED BY <2>4 DEF LoopStates
  <2>7. m \in Nat /\ k \in Nat /\ m \in 0 .. Len(sent) /\ k <= m /\ m <= Len(sent)
    BY <1>3
  <2>8. Len(read') = m /\ read' = SubSeq(sent, 1, m)
    <3> HIDE DEF x, c
    <3>1. read = SubSeq(sent, 1, k)
      BY <1>2 DEF Handed
    <3> HIDE DEF k
    <3>2. /\ SubSeq(sent, 0 + 1, k) \in Seq(Packets) /\ Len(SubSeq(sent, 0 + 1, k)) = k - 0
          /\ \A i \in 1 .. (k - 0) : SubSeq(sent, 0 + 1, k)[i] = sent[0 + i]
      BY <1>3, <2>7, PartElements
    <3>3. /\ SubSeq(sent, 0 + 1, m) \in Seq(Packets) /\ Len(SubSeq(sent, 0 + 1, m)) = m - 0
          /\ \A i \in 1 .. (m - 0) : SubSeq(sent, 0 + 1, m)[i] = sent[0 + i]
      BY <1>3, <2>7, PartElements
    <3>4. /\ SubSeq(sent, k + 1, m) \in Seq(Packets) /\ Len(SubSeq(sent, k + 1, m)) = m - k
          /\ \A i \in 1 .. (m - k) : SubSeq(sent, k + 1, m)[i] = sent[k + i]
      BY <1>3, <2>7, PartElements
    <3> DEFINE r == read
               u == d.read
               v == SubSeq(sent, 1, m)
    <3>5. r \in Seq(Packets) /\ Len(r) = k /\ \A i \in 1 .. k : r[i] = sent[i]
      BY <2>7, <3>1, <3>2
    <3>6. u \in Seq(Packets) /\ Len(u) = m - k /\ \A i \in 1 .. (m - k) : u[i] = sent[k + i]
      BY <2>6, <3>4
    <3>7. v \in Seq(Packets) /\ Len(v) = m /\ \A i \in 1 .. m : v[i] = sent[i]
      BY <2>7, <3>3
    <3> HIDE DEF u, v, r
    <3>a. r \in Seq(Packets)
      BY <3>5
    <3>b. u \in Seq(Packets)
      BY <3>6
    <3> DEFINE w == r \o u
    <3>8. /\ w \in Seq(Packets) /\ Len(w) = Len(r) + Len(u)
          /\ \A i \in 1 .. Len(r) : w[i] = r[i]
          /\ \A i \in Len(r) + 1 .. Len(r) + Len(u) : w[i] = u[i - Len(r)]
      BY <3>a, <3>b, ConcatElements
    <3> HIDE DEF w
    <3>9. Len(w) = m
      BY <2>7, <3>5, <3>6, <3>8
    <3>10. \A i \in 1 .. Len(w) : w[i] = v[i]
      <4> SUFFICES ASSUME NEW i \in 1 .. m PROVE w[i] = v[i]
        BY <3>9
      <4>1. CASE i \in 1 .. k
        <5>1. w[i] = r[i] /\ r[i] = sent[i] /\ v[i] = sent[i]
          BY <3>5, <3>7, <3>8, <4>1
        <5> QED BY <5>1
      <4>2. CASE i \notin 1 .. k
        <5> DEFINE l == i - k
        <5>1. i \in k + 1 .. m /\ l \in 1 .. (m - k) /\ k + l = i /\ k + (m - k) = m
          BY <2>7, <4>2
        <5>2. w[i] = u[l]
          BY <3>5, <3>6, <3>8, <5>1
        <5>3. u[l] = sent[i]
          <6> HIDE DEF l
          <6> QED BY <3>6, <5>1
        <5> QED BY <3>7, <5>2, <5>3
      <4> QED BY <4>1, <4>2
    <3>11. Len(w) = Len(v)
      BY <3>7, <3>9
    <3>c. w \in Seq(Packets) /\ v \in Seq(Packets)
      BY <3>7, <3>8
    <3>12. w = v
      BY <3>c, <3>10, <3>11, SameElements
    <3>13. read' = w
      BY <2>1 DEF w, r, u
    <3> QED BY <3>9, <3>12, <3>13 DEF v
  <2>9. FramesTypes'
    BY <1>1, <1>2, <2>1, <2>3, <2>5 DEF FramesTypes, a
  <2>10. Handed'
    BY <1>1, <2>7, <2>8 DEF Handed
  <2>11. Lies(j)'
    <3> DEFINE q == Upto(sent, m)
    <3>1. q \in Nat /\ Len(d.left) \in Nat
      BY <1>3, <2>5, <2>7, FramesLie
    <3> HIDE DEF x, c, k, q
    <3>2. q + Len(d.left) = o + n
      BY <1>3, <1>6, <2>2, <2>6 DEF o, q
    <3> HIDE DEF o
    <3>3. Part(x, q, d.left) /\ Part(x, q + Len(d.left), a)
      BY <2>3, <2>6, <3>2 DEF q
    <3>4. (q + Len(d.left)) + Len(a) = Len(x)
      BY <1>3, <1>5, <1>6, <2>3, <3>2
    <3>5. x' = Emitted(sent, j) /\ inbuf' = d.left /\ flight' = a /\ Len(read') = m /\ sent' = sent /\ spoilt' = spoilt
      BY <1>1, <2>1, <2>8 DEF a, x
    <3> QED BY <1>5, <3>3, <3>4, <3>5 DEF Lies, x, q
  <2>12. open' => Waits(inbuf') /\ ~Malformed(inbuf')
    BY <2>1, <2>4 DEF Stopped
  <2>13. ~open' => spoilt'
    BY <1>1, <1>5, <2>1, <2>5
  <2> QED BY <2>9, <2>10, <2>11, <2>12, <2>13 DEF FramesInv
<1> QED BY <1>7, <1>8

\* The invariant holds in every state.
LEMMA FramesInvHolds == FramingSpec => []FramesInv
<1>1. FramesInv /\ [FramingNext]_framingVars => FramesInv'
  <2> SUFFICES ASSUME FramesInv, [FramingNext]_framingVars PROVE FramesInv'
    OBVIOUS
  <2>1. CASE HangUp
    <3>1. hung' = "yes" /\ UNCHANGED << sent, flight, spoilt, inbuf, read, open >>
      BY <2>1 DEF HangUp
    <3> QED BY <3>1 DEF FramesInv, FramesTypes, Handed, Lies
  <2>2. CASE UNCHANGED framingVars
    BY <2>2 DEF framingVars, FramesInv, FramesTypes, Handed, Lies
  <2> QED BY <2>1, <2>2, SendFrameKeeps, SendJunkKeeps, ReadSocketKeeps DEF FramingNext
<1> QED BY <1>1, FramesInitially, PTL DEF FramingSpec

\* What holds in every state of a connection (handle_client_read, conn_read_frame):
\* the packets handed on are those the client sent, in order, and none that has
\* arrived whole waits while the connection is open.
THEOREM FramesWholeCorrect == FramingSpec => []FramesWhole
<1>1. FramesInv => FramesWhole
  <2> SUFFICES ASSUME FramesInv PROVE FramesWhole
    OBVIOUS
  <2> DEFINE m == Len(read)
  <2>1. sent \in Seq(Packets) /\ Len(sent) \in Nat /\ m \in 0 .. Len(sent) /\ m \in Nat
        /\ read = SubSeq(sent, 1, m) /\ inbuf \in Seq(Octet) /\ flight \in Seq(Octet)
    BY DEF FramesInv, FramesTypes, Handed
  <2>2. IsPrefix(read, sent)
    <3>1. read \in Seq(Packets)
      <4> HIDE DEF m
      <4>1. SubSeq(sent, 0 + 1, m) \in Seq(Packets)
        BY <2>1, PartElements
      <4> QED BY <2>1, <4>1
    <3>2. SubSeq(read, 1, Len(read)) = read
      BY <3>1
    <3> QED BY <2>1, <3>2 DEF IsPrefix
  <2>3. ASSUME open, ~spoilt, NEW k \in DOMAIN sent,
               Len(Bytes(SubSeq(sent, 1, k))) <= Len(Bytes(sent)) - Len(flight)
        PROVE  k <= m
    <3>1. PICK j : Lies(j)
      BY <2>3 DEF FramesInv
    <3> DEFINE x == Emitted(sent, j)
               c == Upto(sent, m)
    <3>2. j = << >> /\ Ending(j) /\ Part(x, c, inbuf) /\ (c + Len(inbuf)) + Len(flight) = Len(x)
      BY <2>3, <3>1 DEF Lies
    <3>3. x = Bytes(sent)
      BY <2>1, <3>2, FramesLie DEF Emitted
    <3>4. Waits(inbuf) /\ ~Malformed(inbuf)
      BY <2>3 DEF FramesInv
    <3>5. k \in 1 .. Len(sent) /\ k \in Nat
      BY <2>1
    <3>6. Upto(sent, k) <= Len(x) - Len(flight)
      BY <2>3, <3>3 DEF Upto, First
    <3>7. c \in Nat /\ Len(inbuf) \in Nat /\ Len(flight) \in Nat
      BY <2>1, FramesLie
    <3> HIDE DEF x, c
    <3>8. Upto(sent, k) <= c + Len(inbuf)
      <4>1. Upto(sent, k) \in Nat
        BY <2>1, <3>5, FramesLie
      <4> QED BY <3>2, <3>6, <3>7, <4>1
    <3>9. CASE m < k
      <4>1. m < Len(sent) /\ m + 1 \in 0 .. Len(sent) /\ m + 1 <= k /\ k \in 0 .. Len(sent)
        BY <2>1, <3>5, <3>9
      <4>2. Upto(sent, m + 1) <= Upto(sent, k) /\ Upto(sent, m + 1) \in Nat /\ Upto(sent, k) \in Nat
        BY <2>1, <4>1, FramesLie
      <4>3. Upto(sent, m + 1) <= c + Len(inbuf)
        BY <3>7, <3>8, <4>2
      <4>4. ~Begins(inbuf, Frame(sent[m + 1])) \/ sent[m + 1] \notin Packets
        BY <2>1, <3>4, FrameWhole
      <4>5. c + Len(inbuf) < Upto(sent, m + 1)
        <5> HIDE DEF m
        <5> QED BY <2>1, <3>2, <4>1, <4>4, NextIs DEF x, c
      <4> QED BY <3>7, <4>2, <4>3, <4>5
    <3> QED BY <2>1, <3>5, <3>9
  <2> QED BY <2>2, <2>3 DEF FramesWhole
<1> QED BY <1>1, FramesInvHolds, PTL

\* The types of a connection's bytes and packets.
THEOREM FramingTypeCorrect == FramingSpec => []FramingTypeOK
<1>1. FramesInv => FramingTypeOK
  <2> SUFFICES ASSUME FramesInv PROVE FramingTypeOK
    OBVIOUS
  <2> DEFINE m == Len(read)
             P == [id : Nat, payload : Seq(Octet)]
  <2>1. sent \in Seq(Packets) /\ Len(sent) \in Nat /\ m \in 0 .. Len(sent) /\ m \in Nat
        /\ read = SubSeq(sent, 1, m)
    BY DEF FramesInv, FramesTypes, Handed
  <2>2. read \in Seq(Packets)
    <3> HIDE DEF m
    <3>1. SubSeq(sent, 0 + 1, m) \in Seq(Packets)
      BY <2>1, PartElements
    <3> QED BY <2>1, <3>1
  <2>3. Packets \subseteq P
    BY FramingAssumption
  <2> HIDE DEF P
  <2>4. read \in Seq(P)
    BY <2>2, <2>3
  <2> QED BY <2>4 DEF FramingTypeOK, FramesInv, FramesTypes, P
<1> QED BY <1>1, FramesInvHolds, PTL

-----------------------------------------------------------------------------
\* Eating: besides the use and its history, the slots hold stacks and the food level
\* has its bounds.
EatenTyped == slots \in [Slot -> Stack] /\ food \in 0..MaxFood
ButtonTyped ==
    /\ use.on => pressed
    /\ pressed \in BOOLEAN /\ survival \in BOOLEAN /\ alive \in BOOLEAN

\* A stack that loses some of its items, but not all, is a stack.
LEMMA StackLess ==
    ASSUME NEW s \in Stack, NEW n \in Nat \ {0}, n < s.count
    PROVE  [s EXCEPT !.count = s.count - n] \in Stack
<1>1. s \in [item : Food \cup Other, count : 1..MaxStack]
  BY DEF Stack, NoItem
<1>2. s.count - n \in 1..MaxStack
  BY <1>1, EatingAssumption
<1> QED BY <1>1, <1>2 DEF Stack

LEMMA NoItemIsStack == NoItem \in Stack
BY DEF Stack

LEMMA BiteTyped ==
    ASSUME EatingInv, EatenTyped, use.on, UseMatches, Bite
    PROVE  EatenTyped'
<1>1. use \in ActiveUse /\ selected \in Slot
  BY DEF EatingInv, UseType, NoUse
<1>2. InHand \in Stack /\ InHand.item \in Food
  BY <1>1 DEF EatenTyped, InHand, UseMatches, ActiveUse
<1>3. slots' \in [Slot -> Stack]
  <2>1. InHand.count \in Nat \ {0}
    BY <1>2, EatingAssumption DEF Stack, NoItem
  <2>2. CASE InHand.count = 1
    BY <1>1, <2>2, NoItemIsStack DEF Bite, Bitten, EatenTyped, InHand
  <2>3. CASE InHand.count # 1
    <3>0. 1 \in Nat \ {0} /\ 1 < InHand.count
      BY <2>1, <2>3
    <3>1. [InHand EXCEPT !.count = InHand.count - 1] \in Stack
      BY <1>2, <3>0, StackLess
    <3>2. slots' = [slots EXCEPT ![selected] = [InHand EXCEPT !.count = InHand.count - 1]]
      <4>1. slots' = [slots EXCEPT ![selected] =
                         IF InHand.count = 1 THEN NoItem
                         ELSE [InHand EXCEPT !.count = InHand.count - 1]]
        <5>1. slots' = Bitten
          BY DEF Bite
        <5>2. Bitten = [s \in Slot |-> IF s # selected THEN slots[s]
                                     ELSE IF InHand.count = 1 THEN NoItem
                                     ELSE [InHand EXCEPT !.count = InHand.count - 1]]
          BY DEF Bitten, InHand, EatenTyped
        <5> QED BY <5>1, <5>2 DEF EatenTyped
      <4> QED BY <2>3, <4>1
    <3> QED BY <1>1, <3>1, <3>2 DEF EatenTyped
  <2> QED BY <2>2, <2>3
<1>4. food' \in 0..MaxFood
  <2>1. NutritionOf[InHand.item] \in Nat /\ food \in 0..MaxFood /\ MaxFood \in Nat
    BY <1>2, EatingAssumption DEF EatenTyped
  <2> QED BY <2>1 DEF Bite, Fed
<1> QED BY <1>3, <1>4 DEF EatenTyped

LEMMA EatTickTyped ==
    ASSUME EatingInv, EatenTyped, EatTick
    PROVE  EatenTyped'
<1>1. CASE UNCHANGED <<slots, food>>
  BY <1>1 DEF EatenTyped
<1>2. CASE use.on /\ UseMatches /\ Bite
  BY <1>2, BiteTyped
<1> QED BY <1>1, <1>2 DEF EatTick

LEMMA EatenStepTyped ==
    ASSUME EatingInv, EatenTyped, [EatingNext]_eatingVars
    PROVE  EatenTyped'
<1>0. selected \in Slot
  BY DEF EatingInv
<1>1. CASE PressUse
  BY <1>1 DEF PressUse, EatenTyped
<1>2. CASE ReleaseUse
  BY <1>2 DEF ReleaseUse, EatenTyped
<1>3. ASSUME NEW s \in Slot, HoldSlot(s) PROVE EatenTyped'
  BY <1>3 DEF HoldSlot, EatenTyped
<1>4. ASSUME NEW count \in {1, MaxStack}, DropItem(count) PROVE EatenTyped'
  <2>1. slots' \in [Slot -> Stack]
    <3>1. count \in Nat \ {0} /\ InHand \in Stack
      BY <1>0, EatingAssumption DEF EatenTyped, InHand
    <3>2. CASE count < InHand.count
      <4>1. [InHand EXCEPT !.count = InHand.count - count] \in Stack
        BY <3>1, <3>2, StackLess
      <4>2. slots' = [slots EXCEPT ![selected] = [InHand EXCEPT !.count = InHand.count - count]]
        BY <1>4, <3>2 DEF DropItem, InHand
      <4> QED BY <1>0, <4>1, <4>2 DEF EatenTyped
    <3>3. CASE ~(count < InHand.count)
      BY <1>0, <1>4, <3>3, NoItemIsStack DEF DropItem, EatenTyped
    <3> QED BY <3>2, <3>3
  <2> QED BY <1>4, <2>1 DEF DropItem, EatenTyped
<1>5. ASSUME NEW level \in 0..MaxFood, SetFood(level) PROVE EatenTyped'
  BY <1>5 DEF SetFood, EatenTyped
<1>6. CASE DieHungry
  <2>1. slots' \in [Slot -> Stack]
    BY <1>6, NoItemIsStack DEF DieHungry
  <2> QED BY <1>6, <2>1 DEF DieHungry, EatenTyped
<1>7. CASE RespawnFed
  BY <1>7, EatingAssumption DEF RespawnFed, EatenTyped
<1>8. ASSUME NEW s \in Slot, NEW stack \in Stack, ChangeSlot(s, stack) PROVE EatenTyped'
  BY <1>8 DEF ChangeSlot, EatenTyped
<1>9. CASE SetMode
  BY <1>9 DEF SetMode, EatenTyped
<1>10. CASE Hunger
  BY <1>10, EatingAssumption DEF Hunger, EatenTyped
<1>11. CASE EatTick
  BY <1>11, EatTickTyped
<1>12. CASE UNCHANGED eatingVars
  BY <1>12 DEF eatingVars, EatenTyped
<1> QED
  BY <1>1, <1>2, <1>3, <1>4, <1>5, <1>6, <1>7, <1>8, <1>9, <1>10, <1>11, <1>12 DEF EatingNext

\* What is done to the button: it is held, let go or left alone.
LEMMA ButtonStep ==
    ASSUME [EatingNext]_eatingVars
    PROVE  /\ \/ pressed' = TRUE
              \/ pressed' = FALSE /\ use' = NoUse
              \/ pressed' = pressed /\ (use'.on => use.on \/ pressed)
           /\ survival' = survival \/ survival' = ~survival
           /\ alive' = alive \/ alive' = TRUE \/ alive' = FALSE
<1>1. CASE PressUse
  BY <1>1 DEF PressUse, CancelUse
<1>2. CASE ReleaseUse
  BY <1>2 DEF ReleaseUse, CancelUse
<1>3. ASSUME NEW s \in Slot, HoldSlot(s) PROVE pressed' = FALSE /\ use' = NoUse /\ UNCHANGED <<survival, alive>>
  BY <1>3 DEF HoldSlot, CancelUse
<1>4. ASSUME NEW count \in {1, MaxStack}, DropItem(count)
      PROVE  pressed' = FALSE /\ use' = NoUse /\ UNCHANGED <<survival, alive>>
  BY <1>4 DEF DropItem, CancelUse
<1>5. ASSUME NEW level \in 0..MaxFood, SetFood(level)
      PROVE  pressed' = FALSE /\ use' = NoUse /\ UNCHANGED <<survival, alive>>
  BY <1>5 DEF SetFood, CancelUse
<1>6. CASE DieHungry
  BY <1>6 DEF DieHungry, CancelUse
<1>7. CASE RespawnFed
  BY <1>7 DEF RespawnFed, CancelUse
<1>8. ASSUME NEW s \in Slot, NEW stack \in Stack, ChangeSlot(s, stack)
      PROVE  UNCHANGED <<pressed, use, survival, alive>>
  BY <1>8 DEF ChangeSlot
<1>9. CASE SetMode
  BY <1>9 DEF SetMode
<1>10. CASE Hunger
  BY <1>10 DEF Hunger
<1>11. CASE EatTick
  <2>1. CASE UNCHANGED <<use, pressed>>
    BY <1>11, <2>1 DEF EatTick
  <2>2. CASE CancelUse
    BY <1>11, <2>2 DEF EatTick, CancelUse
  <2>3. CASE use.on /\ UNCHANGED pressed
    BY <1>11, <2>3 DEF EatTick
  <2>4. CASE Bite
    BY <1>11, <2>4 DEF EatTick, Bite, CancelUse
  <2> QED BY <1>11, <2>1, <2>2, <2>3, <2>4 DEF EatTick
<1>12. CASE UNCHANGED eatingVars
  BY <1>12 DEF eatingVars
<1> QED
  BY <1>1, <1>2, <1>3, <1>4, <1>5, <1>6, <1>7, <1>8, <1>9, <1>10, <1>11, <1>12 DEF EatingNext

LEMMA ButtonStepTyped ==
    ASSUME ButtonTyped, [EatingNext]_eatingVars
    PROVE  ButtonTyped'
<1>1. ~NoUse.on
  BY DEF NoUse
<1>2. CASE pressed' = TRUE
  BY <1>2, ButtonStep DEF ButtonTyped
<1>3. CASE pressed' = FALSE /\ use' = NoUse
  BY <1>1, <1>3, ButtonStep DEF ButtonTyped
<1>4. CASE pressed' = pressed /\ (use'.on => use.on \/ pressed)
  BY <1>4, ButtonStep DEF ButtonTyped
<1> QED BY <1>2, <1>3, <1>4, ButtonStep

LEMMA EatingTyped == EatingSpec => []EatingTypeOK
<1>1. EatingInit => EatenTyped /\ ButtonTyped
  <2>1. EatingInit => EatenTyped
    BY NoItemIsStack, EatingAssumption DEF EatingInit, EatenTyped
  <2>2. EatingInit => ButtonTyped
    <3>1. ~NoUse.on
      BY DEF NoUse
    <3> QED BY <3>1 DEF EatingInit, ButtonTyped
  <2> QED BY <2>1, <2>2
<1>2. EatingInv /\ EatenTyped /\ ButtonTyped /\ [EatingNext]_eatingVars
        => EatenTyped' /\ ButtonTyped'
  BY EatenStepTyped, ButtonStepTyped
<1>3. EatingInv /\ EatenTyped /\ ButtonTyped => EatingTypeOK
  <2> SUFFICES ASSUME EatingInv, EatenTyped, ButtonTyped PROVE EatingTypeOK
    OBVIOUS
  <2>1. selected \in Slot
    BY DEF EatingInv
  <2>2. use.on => use.slot \in Slot /\ use.item \in Food /\ use.left \in 1..Duration
    <3> SUFFICES ASSUME use.on PROVE use.slot \in Slot /\ use.item \in Food /\ use.left \in 1..Duration
      OBVIOUS
    <3>1. use \in ActiveUse
      BY DEF EatingInv, UseType, NoUse
    <3> QED BY <3>1 DEF ActiveUse
  <2> QED BY <2>1, <2>2 DEF EatenTyped, ButtonTyped, EatingTypeOK
<1> QED BY <1>1, <1>2, <1>3, EatingCorrect, PTL DEF EatingSpec

-----------------------------------------------------------------------------
\* Survival: besides the timers, the saturation stays under the food level and the
\* dead have no health, in the file either.
Sated == saturation <= hunger
SatedFile == saved.saturation <= saved.hunger
Lives ==
    /\ dead \in BOOLEAN /\ mortal \in BOOLEAN
    /\ dead <=> health = 0
    /\ dead => saved.health = 0

\* Worn down, the saturation goes first: what is left of it fits the food level.
LEMMA WornIsSated ==
    ASSUME NEW fed \in 0..MaxFoodLevel, NEW sat \in 0..fed, NEW steps \in Nat
    PROVE  sat - Min2(steps, sat) <= Clamp(fed - (steps - Min2(steps, sat)), MaxFoodLevel)
<1>0. MaxFoodLevel \in Nat
  BY SurvivalAssumption
<1>1. CASE steps < sat
  <2>1. Min2(steps, sat) = steps
    BY <1>1 DEF Min2
  <2>2. Clamp(fed, MaxFoodLevel) = fed
    BY <1>0 DEF Clamp, Min2
  <2>3. fed - (steps - steps) = fed /\ sat - steps <= fed
    OBVIOUS
  <2> QED BY <2>1, <2>2, <2>3
<1>2. CASE ~(steps < sat)
  <2>1. Min2(steps, sat) = sat
    BY <1>2 DEF Min2
  <2>2. Clamp(fed - (steps - sat), MaxFoodLevel) >= 0
    BY <1>0, <1>2 DEF Clamp, Min2
  <2> QED BY <2>1, <2>2
<1> QED BY <1>1, <1>2

LEMMA HealingSated ==
    ASSUME SurvivalType, Sated, HungryTick, Heals
    PROVE  Sated'
<1> DEFINE tired == exhaustion + RegenExhaustion
           steps == tired \div ExhaustionStep
           soaked == Min2(steps, saturation)
           fed == Clamp(hunger - (steps - soaked), MaxFoodLevel)
<1>1. tired \in Nat
  BY DEF SurvivalType, RegenExhaustion
<1>2. steps \in Nat
  <2> HIDE DEF tired
  <2> QED BY <1>1 DEF ExhaustionStep
<1>3. saturation \in 0..hunger /\ hunger \in 0..MaxFoodLevel
  BY DEF SurvivalType, Sated
<1>4. saturation - soaked <= fed
  <2> HIDE DEF steps
  <2> QED BY <1>2, <1>3, WornIsSated
<1>5. /\ Worn(exhaustion).hunger = hunger /\ Worn(exhaustion).saturation = saturation
      /\ Worn(exhaustion).exhaustion = exhaustion
  BY WornIsNothing
<1>6. health < MaxHealth /\ hunger >= RegenFood /\ Left(regen, RegenTicks) = 0
  BY DEF Heals, HurtNow, HungryTick
<1>7. saturation' = saturation - soaked /\ hunger' = fed
  BY <1>5, <1>6 DEF HungryTick
<1> HIDE DEF soaked, fed
<1> QED BY <1>4, <1>7 DEF Sated

LEMMA WornSated ==
    ASSUME SurvivalType, Sated, NEW e \in Nat,
           saturation' = Worn(e).saturation, hunger' = Worn(e).hunger
    PROVE  Sated'
<1> DEFINE steps == e \div ExhaustionStep
           soaked == Min2(steps, saturation)
           fed == Clamp(hunger - (steps - soaked), MaxFoodLevel)
<1>1. steps \in Nat
  BY DEF ExhaustionStep
<1>2. saturation \in 0..hunger /\ hunger \in 0..MaxFoodLevel
  BY DEF SurvivalType, Sated
<1>3. saturation - soaked <= fed
  <2> HIDE DEF steps
  <2> QED BY <1>1, <1>2, WornIsSated
<1>4. saturation' = saturation - soaked /\ hunger' = fed
  BY DEF Worn
<1> HIDE DEF soaked, fed
<1> QED BY <1>3, <1>4 DEF Sated

LEMMA ExertSated ==
    ASSUME SurvivalType, Sated, Exert
    PROVE  Sated'
<1>1. CASE difficulty = "peaceful"
  BY <1>1 DEF Exert, Wear, Sated
<1>2. CASE difficulty # "peaceful"
  <2>1. exhaustion + 1 \in Nat
    BY DEF SurvivalType
  <2> QED BY <1>2, <2>1, WornSated DEF Exert, Wear
<1> QED BY <1>1, <1>2

LEMMA SatedStep ==
    ASSUME SurvivalInv, Sated, SatedFile, [SurvivalNext]_survivalVars
    PROVE  Sated'
<1>0. SurvivalType
  BY DEF SurvivalInv
<1>1. CASE UNCHANGED <<hunger, saturation>>
  BY <1>1 DEF Sated
<1>2. CASE Exert
  BY <1>0, <1>2, ExertSated
<1>3. CASE ChangeGameMode \/ Save \/ Rejoin \/ IdleTick \/ PeacefulTick
  BY <1>1, <1>3 DEF ChangeGameMode, Save, Rejoin, LoadedFrom, Kept, IdleTick, PeacefulTick
<1>11. CASE CrashJoin
  BY <1>11 DEF CrashJoin, LoadedFrom, Sated, SatedFile
<1>12. ASSUME NEW level \in 0..hunger, SetSaturation(level) PROVE Sated'
  BY <1>0, <1>12 DEF SetSaturation, Sated, SurvivalType
<1>13. ASSUME NEW e \in 0..MaxExhaustion, SetExhaustion(e) PROVE Sated'
  <2>1. e \in Nat
    BY SurvivalAssumption
  <2> QED BY <1>0, <1>13, <2>1, WornSated DEF SetExhaustion
<1>14. ASSUME NEW meal \in Meal, Eat(meal) PROVE Sated'
  <2>1. /\ hunger' = Clamp(hunger + meal.nutrition, MaxFoodLevel)
        /\ saturation' = Clamp(saturation + meal.saturation, hunger')
    BY <1>14 DEF Eat
  <2>2. MealIsMore(meal)
    BY <1>0, MealsFeed
  <2>3. 0 \in 0..MaxFoodLevel
    BY SurvivalAssumption
  <2>4. hunger' \in 0..MaxFoodLevel
    BY <2>1, <2>2, <2>3 DEF MealIsMore
  <2>5. saturation' \in 0..hunger'
    BY <2>1, <2>2, <2>4 DEF MealIsMore
  <2> QED BY <2>4, <2>5 DEF Sated
<1>4. CASE Revive
  BY <1>4, SurvivalAssumption DEF Revive, Sated
<1>5. ASSUME NEW amount \in 1..MaxHealth, Damage(amount) PROVE Sated'
  BY <1>1, <1>5 DEF Damage
<1>6. ASSUME NEW h \in 0..MaxHealth, SetHealth(h) PROVE Sated'
  BY <1>1, <1>6 DEF SetHealth
<1>7. ASSUME NEW level \in 0..MaxFoodLevel, SetHunger(level) PROVE Sated'
  BY <1>0, <1>7 DEF SetHunger, Sated, Min2, SurvivalType
<1>8. ASSUME NEW d \in Difficulty, SetDifficulty(d) PROVE Sated'
  BY <1>1, <1>8 DEF SetDifficulty
<1>9. CASE HungryTick
  <2>1. CASE Heals
    BY <1>0, <1>9, <2>1, HealingSated
  <2>2. CASE ~Heals
    BY <1>0, <1>1, <1>9, <2>2, OtherTick
  <2> QED BY <2>1, <2>2
<1>10. CASE UNCHANGED survivalVars
  BY <1>1, <1>10 DEF survivalVars
<1> QED
  BY <1>2, <1>3, <1>4, <1>5, <1>6, <1>7, <1>8, <1>9, <1>10, <1>11, <1>12, <1>13, <1>14
  DEF SurvivalNext

\* The file keeps a player who is sated.
LEMMA SatedFileStep ==
    ASSUME SurvivalInv, Sated, Sated', SatedFile, [SurvivalNext]_survivalVars
    PROVE  SatedFile'
BY FileStep DEF SatedFile, Sated, Kept

\* What a step does to a life: it ends it, begins one, leaves it or goes on with it.
LifeEnds == dead' = TRUE /\ health' = 0 /\ saved'.health = 0
LifeBegins == dead' = FALSE /\ health' # 0
LifeRests == UNCHANGED <<dead, health, saved>>
LifeGoesOn == ~dead /\ UNCHANGED dead /\ (health # 0 => health' # 0)

LEMMA HungryLives ==
    ASSUME SurvivalInv, HungryTick
    PROVE  (LifeEnds \/ LifeGoesOn) /\ UNCHANGED mortal
<1>0. SurvivalType /\ health \in Nat
  BY SurvivalAssumption DEF SurvivalInv, SurvivalType
<1>1. ~dead
  BY DEF HungryTick, Hungers
<1>2. CASE DieOf("starvation")
  BY <1>2 DEF DieOf, LifeEnds, Kept
<1>3. CASE ~DieOf("starvation")
  <2>1. UNCHANGED <<dead, mortal>>
    BY <1>3 DEF HungryTick
  <2>2. CASE Heals
    <3>1. health' = health + 1
      BY <1>0, <2>2, HealingTick
    <3> QED BY <1>0, <1>1, <2>1, <3>1 DEF LifeGoesOn
  <2>3. CASE ~Heals
    <3>1. \/ health # 1 /\ health' = health - 1
          \/ health' = health
      BY <1>0, <1>3, <2>3, OtherTick
    <3> QED BY <1>0, <1>1, <2>1, <3>1 DEF LifeGoesOn
  <2> QED BY <2>2, <2>3
<1> QED BY <1>2, <1>3

LEMMA LifeStep ==
    ASSUME SurvivalInv, Filed, [SurvivalNext]_survivalVars
    PROVE  /\ LifeEnds \/ LifeBegins \/ LifeRests \/ LifeGoesOn
           /\ mortal' = mortal \/ mortal' = ~mortal
<1>0. health \in Nat /\ MaxHealth \in Nat \ {0}
  BY SurvivalAssumption DEF SurvivalInv, SurvivalType
<1>1. CASE Exert
  BY <1>1 DEF Exert, LifeRests
<1>2. CASE ChangeGameMode
  BY <1>2 DEF ChangeGameMode, LifeGoesOn
<1>3. CASE Revive
  BY <1>0, <1>3 DEF Revive, LifeBegins
<1>4. CASE Rejoin
  BY <1>0, <1>4 DEF Rejoin, LoadedFrom, Kept, LifeBegins
<1>5. CASE CrashJoin
  <2>1. saved.health \in Nat
    BY SurvivalAssumption DEF Filed
  <2> QED BY <1>0, <1>5, <2>1 DEF CrashJoin, LoadedFrom, LifeBegins
<1>6. ASSUME NEW amount \in 1..MaxHealth, Damage(amount)
      PROVE  (LifeEnds \/ LifeGoesOn) /\ UNCHANGED mortal
  <2>1. CASE DieOf("hit")
    BY <2>1 DEF DieOf, LifeEnds, Kept
  <2>2. CASE ~DieOf("hit")
    <3>1. health - amount > 0 /\ health' = health - amount /\ ~dead /\ UNCHANGED <<dead, mortal>>
      BY <1>6, <2>2 DEF Damage
    <3> QED BY <1>0, <3>1 DEF LifeGoesOn
  <2> QED BY <2>1, <2>2
<1>7. ASSUME NEW h \in 0..MaxHealth, SetHealth(h)
      PROVE  (LifeEnds \/ LifeGoesOn) /\ UNCHANGED mortal
  <2>1. CASE DieOf("command")
    BY <2>1 DEF DieOf, LifeEnds, Kept
  <2>2. CASE ~DieOf("command")
    <3>1. h > 0 /\ health' = h /\ ~dead /\ UNCHANGED <<dead, mortal>>
      BY <1>7, <2>2 DEF SetHealth
    <3> QED BY <1>0, <3>1 DEF LifeGoesOn
  <2> QED BY <2>1, <2>2
<1>8. ASSUME NEW level \in 0..MaxFoodLevel, SetHunger(level)
      PROVE  LifeGoesOn /\ UNCHANGED mortal
  BY <1>8 DEF SetHunger, LifeGoesOn
<1>9. ASSUME NEW d \in Difficulty, SetDifficulty(d)
      PROVE  LifeRests /\ UNCHANGED mortal
  BY <1>9 DEF SetDifficulty, LifeRests
<1>10. CASE IdleTick
  BY <1>10 DEF IdleTick, LifeRests
<1>11. CASE PeacefulTick
  <2>1. health' = health \/ health' = health + 1
    BY <1>11 DEF PeacefulTick
  <2>2. ~dead /\ UNCHANGED <<dead, mortal>>
    BY <1>11 DEF PeacefulTick, Hungers
  <2> QED BY <1>0, <2>1, <2>2 DEF LifeGoesOn
<1>12. CASE HungryTick
  BY <1>12, HungryLives
<1>13. CASE UNCHANGED survivalVars
  BY <1>13 DEF survivalVars, LifeRests
<1>14. CASE Save
  BY <1>14 DEF Save, LifeGoesOn
<1>15. ASSUME NEW level \in 0..hunger, SetSaturation(level) PROVE LifeGoesOn /\ UNCHANGED mortal
  BY <1>15 DEF SetSaturation, LifeGoesOn
<1>16. ASSUME NEW e \in 0..MaxExhaustion, SetExhaustion(e) PROVE LifeGoesOn /\ UNCHANGED mortal
  BY <1>16 DEF SetExhaustion, LifeGoesOn
<1>17. ASSUME NEW meal \in Meal, Eat(meal) PROVE LifeGoesOn /\ UNCHANGED mortal
  BY <1>17 DEF Eat, Hungers, LifeGoesOn
<1> QED
  BY <1>1, <1>2, <1>3, <1>4, <1>5, <1>6, <1>7, <1>8, <1>9, <1>10, <1>11, <1>12, <1>13,
     <1>14, <1>15, <1>16, <1>17
  DEF SurvivalNext

LEMMA LivesStep ==
    ASSUME Lives, SurvivalInv, Filed, [SurvivalNext]_survivalVars
    PROVE  Lives'
<1>0. mortal' \in BOOLEAN
  BY LifeStep DEF Lives
<1>1. CASE LifeEnds
  BY <1>0, <1>1 DEF LifeEnds, Lives
<1>2. CASE LifeBegins
  BY <1>0, <1>2 DEF LifeBegins, Lives
<1>3. CASE LifeRests
  BY <1>0, <1>3 DEF LifeRests, Lives
<1>4. CASE LifeGoesOn
  BY <1>0, <1>4 DEF LifeGoesOn, Lives
<1> QED BY <1>1, <1>2, <1>3, <1>4, LifeStep

LEMMA TimersBounded ==
    ASSUME SurvivalInv
    PROVE  regen \in 0..Longest /\ starve \in 0..StarveTicks
<1>1. HealInterval \in Nat \ {0} /\ Longest >= HealInterval /\ Longest \in Nat /\ StarveTicks \in Nat
  BY IntervalIsNat, LongestIsLong, SurvivalAssumption
<1>2. regen \in Nat /\ starve \in Nat
  BY DEF SurvivalInv, SurvivalType
<1>3. regen # 0 => regen \in 1..HealInterval
  BY DEF SurvivalInv, TimersCounted
<1>4. starve # 0 => starve \in 1..StarveTicks
  BY DEF SurvivalInv, TimersCounted
<1> QED BY <1>1, <1>2, <1>3, <1>4

LEMMA SurvivalTyped == SurvivalSpec => []SurvivalTypeOK
<1>1. SurvivalInit => Sated /\ Lives /\ SatedFile
  <2>1. SurvivalInit => Sated
    BY SurvivalAssumption DEF SurvivalInit, Sated
  <2>2. SurvivalInit => Lives
    BY SurvivalAssumption DEF SurvivalInit, Lives
  <2>3. SurvivalInit => SatedFile
    BY SurvivalAssumption DEF SurvivalInit, Kept, SatedFile
  <2> QED BY <2>1, <2>2, <2>3
<1>2. (SurvivalInv /\ Filed) /\ (Sated /\ Lives /\ SatedFile) /\ [SurvivalNext]_survivalVars
         => (Sated /\ Lives /\ SatedFile)'
  BY SatedStep, LivesStep, SatedFileStep
<1>3. (SurvivalInv /\ Filed) /\ (Sated /\ Lives /\ SatedFile) => SurvivalTypeOK
  <2> SUFFICES ASSUME SurvivalInv, Filed, Sated, Lives, SatedFile PROVE SurvivalTypeOK
    OBVIOUS
  <2>1. regen \in 0..Longest /\ starve \in 0..StarveTicks
    BY TimersBounded
  <2>2. saturation \in 0..hunger /\ exhaustion \in 0..(ExhaustionStep - 1)
    BY SurvivalAssumption DEF SurvivalInv, SurvivalType, Sated, ExhaustionStep
  <2>3. saved.health \in 0..MaxHealth /\ saved.hunger \in 0..MaxFoodLevel
    BY DEF Filed
  <2>4. saved.saturation \in 0..saved.hunger /\ saved.exhaustion \in 0..(ExhaustionStep - 1)
    BY SurvivalAssumption DEF Filed, SatedFile, ExhaustionStep
  <2> QED BY <2>1, <2>2, <2>3, <2>4 DEF SurvivalInv, SurvivalType, Lives, SurvivalTypeOK
<1> QED BY <1>1, <1>2, <1>3, SurvivalCorrect, PTL DEF SurvivalSpec

-----------------------------------------------------------------------------
\* Falls stay in the world: every height, on the way too, is one of Height, and what is
\* on the way has a bound.
Places == [y : Height, standing : BOOLEAN, apex : Height]
Placing(packet) == packet.kind = "move" => packet.y \in Height
InWorld ==
    /\ client \in Places /\ y \in Height /\ fallStart \in Height
    /\ toClient \in Seq(Height) /\ Len(toClient) <= MaxWire
    /\ hurt.damage \in Nat
Carried ==
    /\ toServer \in Seq(Underway) /\ Len(toServer) <= MaxWire + 1
    /\ \A i \in DOMAIN toServer : Placing(toServer[i])

LEMMA CarriedMore ==
    ASSUME Carried, Len(toServer) < MaxWire, NEW m \in Underway, Placing(m),
           \/ toServer' = Append(toServer, m)
           \/ toServer' = toServer \o << [kind |-> "confirm"], m >>
    PROVE  Carried'
<1>0. MaxWire \in Nat /\ toServer \in Seq(Underway) /\ Len(toServer) \in Nat
  BY FallingAssumption DEF Carried
<1> DEFINE c == [kind |-> "confirm"]
<1>1. c \in Underway /\ Placing(c)
  BY DEF Underway, Confirmation, Placing
<1>2. CASE toServer' = Append(toServer, m)
  <2>1. /\ toServer' \in Seq(Underway) /\ Len(toServer') = Len(toServer) + 1
        /\ \A i \in 1 .. Len(toServer) : toServer'[i] = toServer[i]
        /\ toServer'[Len(toServer) + 1] = m
    BY <1>0, <1>2
  <2>2. \A i \in 1 .. Len(toServer') : i = Len(toServer) + 1 \/ i \in 1 .. Len(toServer)
    BY <1>0, <2>1
  <2>3. DOMAIN toServer' = 1 .. Len(toServer') /\ DOMAIN toServer = 1 .. Len(toServer)
    BY <1>0, <2>1
  <2>4. \A i \in DOMAIN toServer' : Placing(toServer'[i])
    BY <2>1, <2>2, <2>3 DEF Carried
  <2>5. Len(toServer') <= MaxWire + 1
    BY <1>0, <2>1
  <2> QED BY <2>1, <2>4, <2>5 DEF Carried
<1>3. CASE toServer' = toServer \o <<c, m>>
  <2> HIDE DEF c
  <2>1. /\ toServer' \in Seq(Underway) /\ Len(toServer') = Len(toServer) + 2
        /\ \A i \in 1 .. Len(toServer) : toServer'[i] = toServer[i]
        /\ toServer'[Len(toServer) + 1] = c /\ toServer'[Len(toServer) + 2] = m
    BY <1>0, <1>1, <1>3
  <2>2. \A i \in 1 .. Len(toServer') :
            i = Len(toServer) + 1 \/ i = Len(toServer) + 2 \/ i \in 1 .. Len(toServer)
    BY <1>0, <2>1
  <2>3. DOMAIN toServer' = 1 .. Len(toServer') /\ DOMAIN toServer = 1 .. Len(toServer)
    BY <1>0, <2>1
  <2>4. \A i \in DOMAIN toServer' : Placing(toServer'[i])
    BY <1>1, <2>1, <2>2, <2>3 DEF Carried
  <2>5. Len(toServer') <= MaxWire + 1
    BY <1>0, <2>1
  <2> QED BY <2>1, <2>4, <2>5 DEF Carried
<1> QED BY <1>2, <1>3

LEMMA CarriedTail ==
    ASSUME Carried, toServer # <<>>
    PROVE  /\ Placing(Head(toServer)) /\ Head(toServer) \in Underway
           /\ toServer' = Tail(toServer) => Carried'
<1>1. /\ toServer \in Seq(Underway) /\ Len(toServer) \in Nat /\ Len(toServer) # 0
      /\ DOMAIN toServer = 1 .. Len(toServer) /\ Head(toServer) = toServer[1]
      /\ Head(toServer) \in Underway /\ MaxWire \in Nat
  BY FallingAssumption DEF Carried
<1>2. Placing(Head(toServer))
  BY <1>1 DEF Carried
<1>3. ASSUME toServer' = Tail(toServer) PROVE Carried'
  <2>1. /\ toServer' \in Seq(Underway) /\ Len(toServer') = Len(toServer) - 1
        /\ DOMAIN toServer' = 1 .. (Len(toServer) - 1)
        /\ \A i \in 1 .. (Len(toServer) - 1) : toServer'[i] = toServer[i + 1]
    BY <1>1, <1>3
  <2>2. \A i \in DOMAIN toServer' : i + 1 \in DOMAIN toServer
    BY <1>1, <2>1
  <2>3. \A i \in DOMAIN toServer' : Placing(toServer'[i])
    BY <2>1, <2>2 DEF Carried
  <2>4. Len(toServer') <= MaxWire + 1
    BY <1>1, <2>1 DEF Carried
  <2> QED BY <2>1, <2>3, <2>4 DEF Carried
<1> QED BY <1>1, <1>2, <1>3

LEMMA CarriedStep ==
    ASSUME InWorld, Carried, [FallingNext]_fallingVars
    PROVE  Carried'
<1>1. CASE UNCHANGED toServer
  BY <1>1 DEF Carried
<1>2. ASSUME NEW height \in Height, NEW stands \in BOOLEAN, NEW placed \in BOOLEAN,
             ClientMoves(height, stands, placed)
      PROVE  Carried'
  <2>1. client' = Goes(height, stands)
    BY <1>2 DEF ClientMoves
  <2>2. client' \in [y : Int, standing : BOOLEAN, apex : Int] /\ client'.y = height
    BY <2>1, HeightIsInt DEF Goes, Higher, InWorld, Places
  <2> DEFINE m == Move(client', placed)
  <2>3. m \in Underway /\ Placing(m)
    <3>1. m \in Movement
      BY <2>2, MoveIsTyped
    <3>2. Placing(m)
      BY <2>2 DEF Move, Placing
    <3> QED BY <3>1, <3>2 DEF Underway
  <2>4. toServer' = Append(toServer, m) /\ Len(toServer) < MaxWire
    BY <1>2 DEF ClientMoves
  <2> HIDE DEF m
  <2> QED BY <2>3, <2>4, CarriedMore
<1>3. CASE ClientTeleported
  <2>1. Head(toClient) \in Height
    BY <1>3 DEF ClientTeleported, InWorld
  <2>2. client' \in [y : Int, standing : BOOLEAN, apex : Int] /\ client'.y \in Height
    BY <1>3, <2>1, HeightIsInt DEF ClientTeleported
  <2> DEFINE m == Move(client', TRUE)
  <2>3. m \in Underway /\ Placing(m)
    <3>1. m \in Movement
      BY <2>2, MoveIsTyped
    <3>2. Placing(m)
      BY <2>2 DEF Move, Placing
    <3> QED BY <3>1, <3>2 DEF Underway
  <2>4. toServer' = toServer \o << [kind |-> "confirm"], m >> /\ Len(toServer) < MaxWire
    BY <1>3 DEF ClientTeleported
  <2> HIDE DEF m
  <2> QED BY <2>3, <2>4, CarriedMore
<1>4. CASE ServerMoves
  BY <1>4, CarriedTail DEF ServerMoves
<1>5. ASSUME NEW height \in Height, Teleport(height) PROVE Carried'
  BY <1>1, <1>5 DEF Teleport
<1>6. CASE ChangeVulnerable
  BY <1>1, <1>6 DEF ChangeVulnerable
<1>7. CASE UNCHANGED fallingVars
  BY <1>1, <1>7 DEF fallingVars
<1> QED BY <1>2, <1>3, <1>4, <1>5, <1>6, <1>7 DEF FallingNext

\* A packet moves the player to its height.
LEMMA MovedInWorld ==
    ASSUME InWorld, NEW p \in Underway, Placing(p), hurt \in [damage : Int, fell : Int, raced : BOOLEAN],
           Moved(p), UNCHANGED <<client, toClient>>
    PROVE  InWorld'
<1>0. Height \subseteq Nat
  BY FallingAssumption
<1>1. y' \in Height
  BY DEF Moved, Taken, Placing, InWorld
<1>2. fallStart \in Height
  BY DEF InWorld
<1>3. fallStart' \in Height
  <2>1. fallStart' = fallStart \/ fallStart' = y'
    BY DEF Moved, Higher, FallTaken
  <2> QED BY <1>1, <1>2, <2>1
<1>4. hurt'.damage \in Nat
  <2>1. ASSUME NEW b PROVE [NoHurt EXCEPT !.raced = b].damage = 0
    BY DEF NoHurt
  <2>2. CASE FallTaken(p)
    <3>1. hurt'.damage = FallDamage(fallStart - y')
      BY <2>2 DEF FallTaken
    <3>2. fallStart - y' \in Int
      BY <1>0, <1>1, <1>2
    <3> QED BY <3>1, <3>2, FallDamageBounded
  <2>3. CASE ~FallTaken(p)
    <3>1. hurt'.damage = 0
      BY <2>1, <2>3 DEF Moved
    <3> QED BY <3>1
  <2> QED BY <2>2, <2>3
<1> QED BY <1>1, <1>3, <1>4 DEF InWorld

LEMMA InWorldStep ==
    ASSUME FallShape, InWorld, Carried, [FallingNext]_fallingVars
    PROVE  InWorld'
<1>0. Height \subseteq Nat /\ MaxWire \in Nat
  BY FallingAssumption
<1>1. CASE UNCHANGED <<client, y, fallStart, toClient, hurt>>
  BY <1>1 DEF InWorld
<1>2. ASSUME NEW height \in Height, NEW stands \in BOOLEAN, NEW placed \in BOOLEAN,
             ClientMoves(height, stands, placed)
      PROVE  InWorld'
  <2>1. client' = Goes(height, stands) /\ UNCHANGED <<y, fallStart, toClient, hurt>>
    BY <1>2 DEF ClientMoves
  <2>2. client.y \in Height /\ client.apex \in Height
    BY DEF InWorld, Places
  <2>3. client' \in Places
    BY <2>1, <2>2 DEF Goes, Higher, Places
  <2> QED BY <2>1, <2>3 DEF InWorld
<1>3. CASE ClientTeleported
  <2>1. /\ toClient' = Tail(toClient) /\ toClient # <<>>
        /\ client' = [y |-> Head(toClient), standing |-> FALSE, apex |-> Head(toClient)]
        /\ UNCHANGED <<y, fallStart, hurt>>
    BY <1>3 DEF ClientTeleported
  <2>2. toClient \in Seq(Height)
    BY DEF InWorld
  <2>3. Head(toClient) \in Height /\ toClient' \in Seq(Height) /\ Len(toClient') = Len(toClient) - 1
    BY <2>1, <2>2
  <2>4. client' \in Places
    BY <2>1, <2>3 DEF Places
  <2>5. Len(toClient') <= MaxWire
    BY <1>0, <2>2, <2>3 DEF InWorld
  <2> QED BY <2>1, <2>3, <2>4, <2>5 DEF InWorld
<1>4. CASE ServerMoves
  <2>1. UNCHANGED <<client, toClient>> /\ toServer # <<>>
    BY <1>4 DEF ServerMoves
  <2>2. Placing(Head(toServer)) /\ Head(toServer) \in Underway
    BY <2>1, CarriedTail
  <2>3. CASE Moved(Head(toServer))
    BY <2>1, <2>2, <2>3, MovedInWorld DEF FallShape
  <2>4. CASE ~Moved(Head(toServer))
    BY <1>1, <1>4, <2>1, <2>4 DEF ServerMoves
  <2> QED BY <2>3, <2>4
<1>5. ASSUME NEW height \in Height, Teleport(height) PROVE InWorld'
  <2>1. /\ toClient' = Append(toClient, height) /\ Len(toClient) < MaxWire
        /\ y' = height /\ fallStart' = height /\ hurt' = NoHurt /\ UNCHANGED client
    BY <1>5 DEF Teleport
  <2>2. toClient \in Seq(Height)
    BY DEF InWorld
  <2>3. toClient' \in Seq(Height) /\ Len(toClient') = Len(toClient) + 1
    BY <2>1, <2>2
  <2>4. Len(toClient') <= MaxWire
    BY <1>0, <2>1, <2>2, <2>3
  <2>5. hurt'.damage \in Nat
    BY <2>1 DEF NoHurt
  <2> QED BY <2>1, <2>3, <2>4, <2>5 DEF InWorld
<1>6. CASE ChangeVulnerable
  BY <1>1, <1>6 DEF ChangeVulnerable
<1>7. CASE UNCHANGED fallingVars
  BY <1>1, <1>7 DEF fallingVars
<1> QED BY <1>2, <1>3, <1>4, <1>5, <1>6, <1>7 DEF FallingNext

LEMMA FallingTyped == FallingSpec => []FallingTypeOK
<1>1. FallingInit => InWorld /\ Carried
  <2> SUFFICES ASSUME FallingInit PROVE InWorld /\ Carried
    OBVIOUS
  <2>1. y \in Height
    <3>1. y \in Ground
      BY FallingAssumption DEF FallingInit
    <3> QED BY <3>1, HeightIsInt
  <2>2. client \in Places /\ fallStart \in Height
    BY <2>1 DEF FallingInit, Places
  <2>3. toClient \in Seq(Height) /\ Len(toClient) <= MaxWire
    BY FallingAssumption DEF FallingInit
  <2>4. hurt.damage \in Nat
    BY DEF FallingInit, NoHurt
  <2>5. toServer \in Seq(Underway) /\ Len(toServer) <= MaxWire + 1 /\ DOMAIN toServer = {}
    BY FallingAssumption DEF FallingInit
  <2> QED BY <2>1, <2>2, <2>3, <2>4, <2>5 DEF InWorld, Carried
<1>2. FallInv /\ InWorld /\ Carried /\ [FallingNext]_fallingVars => InWorld' /\ Carried'
  BY InWorldStep, CarriedStep DEF FallInv
<1>3. FallInv /\ InWorld /\ Carried => FallingTypeOK
  <2> SUFFICES ASSUME FallInv, InWorld, Carried PROVE FallingTypeOK
    OBVIOUS
  <2>1. client.y \in Height /\ client.apex \in Height /\ client.standing \in BOOLEAN
    BY DEF InWorld, Places
  <2>2. client.apex >= client.y
    BY DEF FallInv, PathIsWhole
  <2>3. {toClient[i] : i \in DOMAIN toClient} \subseteq Height
    <3>1. toClient \in Seq(Height)
      BY DEF InWorld
    <3> QED BY <3>1
  <2> QED BY <2>1, <2>2, <2>3 DEF InWorld, Carried, FallingTypeOK
<1>4. FallingInit => FallInv
  BY FallingInitHolds
<1>5. FallInv /\ [FallingNext]_fallingVars => FallInv'
  BY FallingStepKeeps
<1> QED BY <1>1, <1>2, <1>3, <1>4, <1>5, PTL DEF FallingSpec

-----------------------------------------------------------------------------
\* Sessions: the state, what the client has been told and why the connection closes go
\* together, and every time is one the clock has shown.
Told ==
    /\ state \in States /\ told \subseteq Steps
    /\ closed \in {"no", "done", "error", "timeout"}
    /\ ready => "initial" \in told
    /\ "initial" \in told <=> state = "play"
Times == 0..MaxClock
Clocked ==
    /\ clock \in Times /\ turn.now \in Times
    /\ keepalive.id \in Times /\ keepalive.last \in Times
\* A packet of the client is stamped with a time, and asks for a state there is.
Timely(p) ==
    /\ p.name = "alive" => p.at \in Times
    /\ p.name = "intention" => p.next \in {"status", "login"}
AreTimely(s) == \A i \in DOMAIN s : Timely(s[i])
AllTimely == AreTimely(Underhand)

LEMMA TimelyBoth ==
    ASSUME NEW u \in Seq(Sent), NEW v \in Seq(Sent), AreTimely(u), AreTimely(v)
    PROVE  AreTimely(u \o v) /\ u \o v \in Seq(Sent)
<1> DEFINE w == u \o v
<1>1. /\ DOMAIN w = 1 .. (Len(u) + Len(v)) /\ Len(u) \in Nat /\ Len(v) \in Nat
      /\ DOMAIN u = 1 .. Len(u) /\ DOMAIN v = 1 .. Len(v)
      /\ \A i \in DOMAIN w : w[i] = IF i <= Len(u) THEN u[i] ELSE v[i - Len(u)]
  OBVIOUS
<1>2. ASSUME NEW i \in DOMAIN w PROVE Timely(w[i])
  <2> HIDE DEF w
  <2>1. CASE i <= Len(u)
    <3>1. i \in DOMAIN u /\ w[i] = u[i]
      BY <1>1, <2>1
    <3> QED BY <3>1 DEF AreTimely
  <2>2. CASE ~(i <= Len(u))
    <3>1. i - Len(u) \in DOMAIN v /\ w[i] = v[i - Len(u)]
      BY <1>1, <2>2
    <3> QED BY <3>1 DEF AreTimely
  <2> QED BY <2>1, <2>2
<1>3. u \o v \in Seq(Sent)
  OBVIOUS
<1> QED BY <1>2, <1>3 DEF AreTimely

LEMMA TimelyOne ==
    ASSUME NEW e \in Sent, Timely(e)
    PROVE  <<e>> \in Seq(Sent) /\ AreTimely(<<e>>)
<1>1. DOMAIN <<e>> = {1} /\ <<e>>[1] = e
  OBVIOUS
<1> QED BY <1>1 DEF AreTimely

LEMMA TimelyQueued ==
    ASSUME SessionShape, AllTimely, NEW packets \in Seq(Sent), Queue(packets), UNCHANGED batch,
           AreTimely(packets)
    PROVE  AllTimely'
<1>1. Underhand' = Underhand \o packets
  BY UnderhandQueued
<1>2. Underhand \in Seq(Sent)
  BY UnderhandType
<1> QED BY <1>1, <1>2, TimelyBoth DEF AllTimely

LEMMA TimelyHandled ==
    ASSUME SessionShape, AllTimely, batch # <<>>
    PROVE  /\ Timely(Head(batch)) /\ Head(batch) \in Sent
           /\ batch' = Tail(batch) /\ UNCHANGED tasks => AllTimely'
<1>1. batch \in Seq(Sent) /\ tasks \in Seq(Sent)
  BY DEF SessionShape
<1> DEFINE u == batch \o tasks
<1>2. /\ u \in Seq(Sent) /\ u # <<>> /\ Head(batch) = u[1] /\ Head(batch) \in Sent
      /\ Tail(batch) \o tasks = Tail(u)
  <2>1. \A a, b \in Seq(Sent) : a # <<>> =>
          a \o b \in Seq(Sent) /\ a \o b # <<>> /\ Head(a) = (a \o b)[1] /\ Tail(a) \o b = Tail(a \o b) /\ Head(a) \in Sent
    OBVIOUS
  <2> QED BY <1>1, <2>1
<1>3. \A i \in DOMAIN u : Timely(u[i])
  BY DEF AllTimely, AreTimely, Underhand
<1>4. Underhand' = batch' \o tasks'
  BY DEF Underhand
<1> HIDE DEF u
<1>5. 1 \in DOMAIN u /\ DOMAIN u = 1 .. Len(u) /\ Len(u) \in Nat
  <2>1. u \in Seq(Sent) /\ u # << >>
    BY <1>2
  <2>2. Len(u) \in Nat \ {0} /\ DOMAIN u = 1 .. Len(u)
    BY <2>1, TailElements
  <2> QED BY <2>2
<1>6. Timely(Head(batch))
  <2>1. Timely(u[1])
    BY <1>3, <1>5, Zenon
  <2>2. Head(batch) = u[1]
    BY <1>2
  <2> QED BY <2>1, <2>2, Zenon
<1>7. ASSUME batch' = Tail(batch), UNCHANGED tasks PROVE AllTimely'
  <2>1. Underhand' = Tail(u)
    BY <1>2, <1>4, <1>7
  <2>2. /\ DOMAIN Tail(u) = 1 .. (Len(u) - 1)
        /\ \A i \in 1 .. (Len(u) - 1) : Tail(u)[i] = u[i + 1] /\ i + 1 \in DOMAIN u
    <3>1. u \in Seq(Sent) /\ u # <<>>
      BY <1>2
    <3>2. DOMAIN Tail(u) = 1 .. (Len(u) - 1) /\ \A i \in 1 .. (Len(u) - 1) : Tail(u)[i] = u[i + 1]
      BY <3>1, TailElements
    <3>3. \A i \in 1 .. (Len(u) - 1) : i + 1 \in DOMAIN u
      BY <1>5
    <3> QED BY <3>2, <3>3
  <2>3. \A i \in DOMAIN Tail(u) : Timely(Tail(u)[i])
    BY <1>3, <2>2
  <2> QED BY <2>1, <2>3 DEF AllTimely, AreTimely
<1> QED BY <1>2, <1>6, <1>7

\* What the handlers make of a packet.
LEMMA TimelyTold ==
    ASSUME Told, NEW p, Timely(p),
           \/ state = "handshaking" /\ Handshake(p)
           \/ state = "status" /\ Status(p)
           \/ state = "login" /\ Login(p)
           \/ state = "configuration" /\ Configuration(p)
           \/ state = "play" /\ Play(p)
           \/ Ignored
    PROVE  Told'
<1>1. CASE Ignored
  BY <1>1 DEF Ignored, Told
<1>2. CASE state = "handshaking" /\ Handshake(p)
  <2>1. CASE p.name = "intention"
    <3>1. p.next \in {"status", "login"} /\ state' = p.next /\ UNCHANGED <<told, ready, closed>>
      BY <1>2, <2>1 DEF Handshake, Timely
    <3> QED BY <1>2, <3>1 DEF Told, States
  <2>2. CASE p.name # "intention"
    <3>1. closed' = "error" /\ UNCHANGED <<state, told, ready>>
      BY <1>2, <2>2 DEF Handshake, Fails
    <3> QED BY <3>1 DEF Told
  <2> QED BY <2>1, <2>2
<1>3. CASE state = "status" /\ Status(p)
  <2>1. UNCHANGED <<state, told, ready>> /\ closed' \in {closed, "done", "error"}
    BY <1>3 DEF Status, Fails
  <2> QED BY <2>1 DEF Told
<1>4. CASE state = "login" /\ Login(p)
  <2>1. /\ UNCHANGED ready /\ closed' \in {closed, "error"}
        /\ \/ UNCHANGED state /\ told' \in {told, told \cup {"finished"}}
           \/ state' = "configuration" /\ told' = told \cup {"packs"}
    BY <1>4 DEF Login, Fails, Ignored
  <2> QED BY <1>4, <2>1 DEF Told, States, Steps
<1>5. CASE state = "configuration" /\ Configuration(p)
  <2>1. /\ UNCHANGED ready /\ closed' \in {closed, "error"}
        /\ \/ UNCHANGED state /\ told' \in {told, told \cup {"finish"}}
           \/ state' = "play" /\ told' = told \cup {"initial"}
    BY <1>5 DEF Configuration, Fails, Ignored
  <2> QED BY <1>5, <2>1 DEF Told, States, Steps
<1>6. CASE state = "play" /\ Play(p)
  <2>1. UNCHANGED <<state, told, closed>>
    BY <1>6 DEF Play, Ignored, Answered
  <2> QED BY <1>6, <2>1 DEF Told
<1> QED BY <1>1, <1>2, <1>3, <1>4, <1>5, <1>6

\* A handler touches the keepalive only to note an answer's time.
LEMMA HandledClocked ==
    ASSUME keepalive \in KeepaliveType, NEW p, Timely(p),
           \/ state = "handshaking" /\ Handshake(p)
           \/ state = "status" /\ Status(p)
           \/ state = "login" /\ Login(p)
           \/ state = "configuration" /\ Configuration(p)
           \/ state = "play" /\ Play(p)
           \/ Ignored,
           keepalive.id \in Times, keepalive.last \in Times
    PROVE  keepalive'.id \in Times /\ keepalive'.last \in Times
<1>1. CASE UNCHANGED keepalive
  BY <1>1
<1>2. CASE p.name = "alive" /\ keepalive' = [keepalive EXCEPT !.awaiting = FALSE, !.last = p.at]
  <2>1. p.at \in Times
    BY <1>2 DEF Timely
  <2> QED BY <1>2, <2>1 DEF KeepaliveType
<1> QED BY <1>1, <1>2 DEF Handshake, Status, Login, Configuration, Play, Answered, Ignored, Fails

SessionTyped == Told /\ Clocked /\ AllTimely

LEMMA TaskTyped ==
    ASSUME SessionShape, SessionTyped, ProcessTask
    PROVE  SessionTyped'
<1> DEFINE p == Head(batch)
<1>1. Timely(p) /\ AllTimely'
  BY TimelyHandled DEF ProcessTask, SessionTyped
<1>2. \/ state = "handshaking" /\ Handshake(p)
      \/ state = "status" /\ Status(p)
      \/ state = "login" /\ Login(p)
      \/ state = "configuration" /\ Configuration(p)
      \/ state = "play" /\ Play(p)
      \/ Ignored
  BY DEF ProcessTask
<1> HIDE DEF p
<1>3. Told'
  BY <1>1, <1>2, TimelyTold DEF SessionTyped
<1>4. keepalive'.id \in Times /\ keepalive'.last \in Times
  BY <1>1, <1>2, HandledClocked DEF SessionTyped, Clocked, SessionShape
<1> QED BY <1>1, <1>3, <1>4 DEF SessionTyped, Clocked, ProcessTask

LEMMA TurnEndsTyped ==
    ASSUME SessionTyped, TurnEnds
    PROVE  SessionTyped'
<1>0. AllTimely'
  BY DEF TurnEnds, SessionTyped, AllTimely, Underhand
<1>1. UNCHANGED <<state, told, ready, clock>> /\ turn'.now = 0 /\ 0 \in Times
  BY SessionAssumption DEF TurnEnds, Times
<1>2. closed' \in {closed, "timeout"}
  BY DEF TurnEnds, KeepaliveTick
<1>3. \/ UNCHANGED keepalive
      \/ keepalive' = [awaiting |-> TRUE, id |-> turn.now, last |-> turn.now]
  BY DEF TurnEnds, KeepaliveTick
<1>4. Told'
  BY <1>1, <1>2 DEF Told, SessionTyped
<1>5. Clocked'
  BY <1>1, <1>3 DEF Clocked, SessionTyped
<1> QED BY <1>0, <1>4, <1>5 DEF SessionTyped

\* Whatever else queues a packet or moves the clock leaves the rest alone.
LEMMA ElseTyped ==
    ASSUME SessionTyped, UNCHANGED <<state, told, ready, closed, keepalive>>,
           clock' \in Times, turn'.now \in Times, AllTimely'
    PROVE  SessionTyped'
BY DEF SessionTyped, Told, Clocked

LEMMA SpeakTimely ==
    ASSUME SessionShape, AllTimely,
           NEW name \in {"status", "login", "request", "ping", "fall", "respawn"}, Speak(name)
    PROVE  AllTimely'
<1> DEFINE a == [name |-> "intention", next |-> name]
           h == Says("hello")
           e == Says(name)
<1>1. CASE name \in {"status", "login"} /\ Queue(<<a>> \o IF name = "login" THEN <<h>> ELSE <<>>)
  <2>1. a \in Sent /\ Timely(a) /\ h \in Sent /\ Timely(h)
    BY <1>1 DEF Sent, Name, Says, Timely
  <2> HIDE DEF a, h
  <2> DEFINE c == IF name = "login" THEN <<h>> ELSE <<>>
             b == <<a>> \o c
  <2>2. <<>> \in Seq(Sent) /\ AreTimely(<<>>)
    BY DEF AreTimely
  <2>3. c \in Seq(Sent) /\ AreTimely(c)
    <3>1. <<h>> \in Seq(Sent) /\ AreTimely(<<h>>)
      BY <2>1, TimelyOne
    <3> QED BY <2>2, <3>1
  <2>4. b \in Seq(Sent) /\ AreTimely(b)
    <3>1. <<a>> \in Seq(Sent) /\ AreTimely(<<a>>)
      BY <2>1, TimelyOne
    <3> HIDE DEF c
    <3> QED BY <2>3, <3>1, TimelyBoth
  <2>5. Queue(b)
    BY <1>1
  <2> HIDE DEF b
  <2> QED BY <2>4, <2>5, TimelyQueued DEF Speak
<1>2. CASE name \in {"request", "ping", "fall", "respawn"} /\ Queue(<<e>>)
  <2>1. e \in Sent /\ Timely(e)
    BY <1>2 DEF Sent, Name, Says, Timely
  <2> HIDE DEF e
  <2>2. <<e>> \in Seq(Sent) /\ AreTimely(<<e>>)
    BY <2>1, TimelyOne
  <2> QED BY <1>2, <2>2, TimelyQueued DEF Speak
<1> QED BY <1>1, <1>2 DEF Speak

LEMMA BabbleTimely ==
    ASSUME SessionShape, AllTimely,
           NEW name \in {"hello", "acknowledged", "finish", "packs", "ping"}, Babble(name)
    PROVE  AllTimely'
<1> DEFINE e == Says(name)
<1>1. e \in Sent /\ Timely(e)
  BY DEF Sent, Name, Says, Timely
<1>2. Queue(<<e>>) /\ UNCHANGED batch
  BY DEF Babble
<1> HIDE DEF e
<1>3. <<e>> \in Seq(Sent) /\ AreTimely(<<e>>)
  BY <1>1, TimelyOne
<1> QED BY <1>2, <1>3, TimelyQueued

LEMMA HearTimely ==
    ASSUME SessionShape, Clocked, AllTimely, NEW hangs \in BOOLEAN, Hear(hangs)
    PROVE  AllTimely'
<1> DEFINE b == IF hangs THEN <<>> ELSE Answer(Head(wire))
<1>1. wire \in Seq(Written) /\ wire # <<>> /\ clock \in Int /\ clock \in Times
  BY DEF SessionShape, Hear, Clocked
<1>2. Head(wire) \in Written
  BY <1>1
<1>3. b \in Seq(Sent)
  <2>1. Answer(Head(wire)) \in Seq(Sent) /\ <<>> \in Seq(Sent)
    BY <1>1, <1>2, AnswerIsTyped
  <2> QED BY <2>1
<1>4. AreTimely(b)
  <2> DEFINE r == [name |-> "alive", id |-> Head(wire).id, at |-> clock]
  <2>1. /\ Timely(Says("acknowledged")) /\ Timely(Says("packs")) /\ Timely(Says("finish"))
        /\ Timely(Says("confirm")) /\ Timely(r)
    BY <1>1 DEF Timely, Says
  <2>2. \/ b = <<>> \/ b = <<r>> \/ b = <<Says("acknowledged")>> \/ b = <<Says("packs")>>
        \/ b = <<Says("finish")>> \/ b = <<Says("confirm")>>
    BY DEF Answer
  <2> HIDE DEF b, r
  <2>3. \A x : DOMAIN <<x>> = {1} /\ <<x>>[1] = x
    OBVIOUS
  <2>4. CASE b = <<>>
    BY <2>4 DEF AreTimely
  <2>5. CASE b # <<>>
    <3>1. PICK x : b = <<x>> /\ Timely(x)
      BY <2>1, <2>2, <2>5
    <3> QED BY <2>3, <3>1 DEF AreTimely
  <2> QED BY <2>4, <2>5
<1>5. Queue(b) /\ UNCHANGED batch
  BY DEF Hear
<1> HIDE DEF b
<1> QED BY <1>3, <1>4, <1>5, TimelyQueued

LEMMA SessionStepTyped ==
    ASSUME AnswerInv, SessionTyped, [SessionNext]_sessionVars
    PROVE  SessionTyped'
<1>0. SessionShape /\ Clocked /\ AllTimely /\ MaxClock \in Nat
  BY SessionAssumption DEF AnswerInv, SessionTyped
<1>1. CASE TurnBegins
  <2>1. UNCHANGED <<state, told, ready, closed, keepalive, clock, tasks, batch>> /\ turn'.now = clock
    BY <1>1 DEF TurnBegins, connection
  <2>2. AllTimely'
    BY <1>0, <2>1 DEF AllTimely, Underhand
  <2> QED BY <1>0, <2>1, <2>2, ElseTyped DEF Clocked
<1>2. CASE Drain
  <2>1. UNCHANGED <<state, told, ready, closed, keepalive, clock>> /\ turn'.now = turn.now
    <3>1. turn \in TurnType
      BY <1>0 DEF SessionShape
    <3> QED BY <1>2, <3>1 DEF Drain, connection, TurnType
  <2>2. AllTimely'
    BY <1>0, <1>2, UnderhandDrained DEF AllTimely
  <2> QED BY <1>0, <2>1, <2>2, ElseTyped DEF Clocked
<1>3. CASE ProcessTask
  BY <1>0, <1>3, TaskTyped
<1>4. CASE Broadcast
  <2>1. UNCHANGED <<state, told, ready, closed, keepalive, clock, turn, tasks, batch>>
    BY <1>4 DEF Broadcast
  <2>2. AllTimely'
    BY <1>0, <2>1 DEF AllTimely, Underhand
  <2> QED BY <1>0, <2>1, <2>2, ElseTyped DEF Clocked
<1>5. CASE TurnEnds
  BY <1>5, TurnEndsTyped
<1>6. CASE ClockTicks
  <2>1. UNCHANGED <<state, told, ready, closed, keepalive, turn, tasks, batch>>
        /\ clock' = clock + 1 /\ clock < MaxClock
    BY <1>6 DEF ClockTicks, connection
  <2>2. AllTimely'
    BY <1>0, <2>1 DEF AllTimely, Underhand
  <2>3. clock' \in Times
    BY <1>0, <2>1 DEF Clocked, Times
  <2> QED BY <1>0, <2>1, <2>2, <2>3, ElseTyped DEF Clocked
<1>7. ASSUME NEW name \in {"status", "login", "request", "ping", "fall", "respawn"}, Speak(name)
      PROVE  SessionTyped'
  <2>1. UNCHANGED <<state, told, ready, closed, keepalive, clock, turn>>
    BY <1>7 DEF Speak, connection
  <2>2. AllTimely'
    BY <1>0, <1>7, SpeakTimely
  <2> QED BY <1>0, <2>1, <2>2, ElseTyped DEF Clocked
<1>8. ASSUME NEW name \in {"hello", "acknowledged", "finish", "packs", "ping"}, Babble(name)
      PROVE  SessionTyped'
  <2>1. UNCHANGED <<state, told, ready, closed, keepalive, clock, turn>>
    BY <1>8 DEF Babble, connection
  <2>2. AllTimely'
    BY <1>0, <1>8, BabbleTimely
  <2> QED BY <1>0, <2>1, <2>2, ElseTyped DEF Clocked
<1>9. ASSUME NEW hangs \in BOOLEAN, Hear(hangs)
      PROVE  SessionTyped'
  <2>1. UNCHANGED <<state, told, ready, closed, keepalive, clock, turn>>
    BY <1>9 DEF Hear
  <2>2. AllTimely'
    BY <1>0, <1>9, HearTimely
  <2> QED BY <1>0, <2>1, <2>2, ElseTyped DEF Clocked
<1>10. CASE UNCHANGED sessionVars
  <2>1. UNCHANGED <<state, told, ready, closed, keepalive, clock, turn, tasks, batch>>
    BY <1>10 DEF sessionVars
  <2>2. AllTimely'
    BY <1>0, <2>1 DEF AllTimely, Underhand
  <2> QED BY <1>0, <2>1, <2>2, ElseTyped DEF Clocked
<1> QED BY <1>1, <1>2, <1>3, <1>4, <1>5, <1>6, <1>7, <1>8, <1>9, <1>10 DEF SessionNext

LEMMA SessionHasTypes == SessionSpec => []SessionTypeOK
<1>1. SessionInit => AnswerInv /\ AgreeInv /\ SessionTyped
  <2> SUFFICES ASSUME SessionInit PROVE AnswerInv /\ AgreeInv /\ SessionTyped
    OBVIOUS
  <2>1. Told
    BY DEF SessionInit, Told, States, Steps
  <2>2. Clocked
    BY SessionAssumption DEF SessionInit, Clocked, Times
  <2>3. AllTimely
    <3>1. Underhand = <<>>
      BY DEF SessionInit, Underhand
    <3> QED BY <3>1 DEF AllTimely, AreTimely
  <2> QED BY <2>1, <2>2, <2>3, SessionInitHolds, AgreeBegins DEF SessionTyped
<1>2. AnswerInv /\ AgreeInv /\ SessionTyped /\ [SessionNext]_sessionVars
        => AnswerInv' /\ AgreeInv' /\ SessionTyped'
  BY SessionStepKeeps, AgreeStepKeeps, SessionStepTyped
<1>3. AnswerInv /\ AgreeInv /\ SessionTyped => SessionTypeOK
  <2> SUFFICES ASSUME AnswerInv, AgreeInv, SessionTyped PROVE SessionTypeOK
    OBVIOUS
  <2>1. keepalive.awaiting \in BOOLEAN /\ turn.phase \in {"idle", "begun", "handle"}
    BY DEF AnswerInv, SessionShape, KeepaliveType, TurnType
  <2>2. keepalive.id \in 0..MaxClock /\ keepalive.last \in 0..MaxClock
    BY DEF SessionTyped, Clocked, Times
  <2>3. peer \in States \cup {"gone"}
    BY DEF AgreeInv
  <2> QED BY <2>1, <2>2, <2>3 DEF SessionTyped, Told, SessionTypeOK
<1> QED BY <1>1, <1>2, <1>3, PTL DEF SessionSpec

-----------------------------------------------------------------------------
\* Chests: nowhere are there more goods than the world has, and only a chunk that is
\* there is unsaved.
Stock == 0..Total \cup {NoEntity}
Stocked ==
    /\ entity \in Stock /\ onDisk.goods \in Stock
    /\ window.open => window.goods \in 0..Total
    /\ unsaved => loaded = "ready"

LEMMA PutStocked ==
    ASSUME Stocked, NEW n \in 0..Total, NEW ok \in BOOLEAN, Puts(n, ok)
    PROVE  entity' \in Stock /\ onDisk'.goods \in Stock /\ (unsaved' => loaded' = "ready")
<1>1. /\ loaded' = "ready" /\ Stores(n) /\ Writes(ok, here)
  BY DEF Puts
<1>2. entity' \in Stock
  BY <1>1 DEF Stores, Stocked, Stock
<1>3. onDisk'.goods \in Stock
  BY <1>1, <1>2 DEF Writes, Encoded, Stocked, Stock
<1> QED BY <1>1, <1>2, <1>3

LEMMA NothingStocked ==
    ASSUME Stocked, PutsNothing
    PROVE  entity' \in Stock /\ onDisk'.goods \in Stock /\ (unsaved' => loaded' = "ready")
BY DEF PutsNothing, Stocked, Asked

LEMMA ViewerStocked ==
    ASSUME ChestsInv, Stocked
    PROVE  /\ OpenChest => Stocked'
           /\ \A n \in 0..Total, ok \in BOOLEAN : ClickChest(n, ok) => Stocked'
           /\ \A ok \in BOOLEAN : CloseChest(ok) \/ CleansUp(ok) => Stocked'
           /\ Hangs \/ PicksUp => Stocked'
<1>0. Total \in Nat /\ 0 \in 0..Total /\ ~Shut.open
  BY ChestsAssumption DEF Shut
<1>1. ASSUME OpenChest PROVE Stocked'
  <2>1. Count(entity) \in 0..Total
    BY <1>0 DEF Stocked, Stock, Count
  <2>2. entity' \in Stock
    BY <1>0, <1>1 DEF OpenChest, Stores, Stocked, Stock
  <2>3. window'.goods \in 0..Total /\ UNCHANGED <<onDisk, unsaved, loaded>>
    BY <1>1, <2>1 DEF OpenChest, Shown
  <2> QED BY <2>2, <2>3 DEF Stocked
<1>2. ASSUME NEW n \in 0..Total, NEW ok \in BOOLEAN, ClickChest(n, ok) PROVE Stocked'
  <2>1. window'.goods = n
    BY <1>2 DEF ClickChest, Shown
  <2>2. entity' \in Stock /\ onDisk'.goods \in Stock /\ (unsaved' => loaded' = "ready")
    BY <1>2, PutStocked, NothingStocked DEF ClickChest
  <2> QED BY <2>1, <2>2 DEF Stocked
<1>3. ASSUME NEW ok \in BOOLEAN, CloseChest(ok) PROVE Stocked'
  <2>1. window.open /\ window.goods \in 0..Total /\ (window' = Shut \/ window' = window)
    BY <1>3 DEF CloseChest, Stocked
  <2>2. entity' \in Stock /\ onDisk'.goods \in Stock /\ (unsaved' => loaded' = "ready")
    <3>1. CASE Asked /\ UNCHANGED <<unsaved, onDisk, entity>>
      BY <3>1 DEF Stocked, Asked
    <3> QED BY <1>3, <2>1, <3>1, PutStocked, NothingStocked DEF CloseChest
  <2> QED BY <1>0, <2>1, <2>2 DEF Stocked
<1>4. ASSUME NEW ok \in BOOLEAN, CleansUp(ok) PROVE Stocked'
  <2>1. window' = Shut
    BY <1>4 DEF CleansUp
  <2>2. entity' \in Stock /\ onDisk'.goods \in Stock /\ (unsaved' => loaded' = "ready")
    <3>1. CASE UNCHANGED <<loaded, unsaved, onDisk, entity>>
      BY <3>1 DEF Stocked
    <3>2. CASE window.dirty
      <4>1. window.goods \in 0..Total
        BY <3>2 DEF ChestsInv, ChestsShape, Stocked
      <4> QED BY <1>4, <3>2, <4>1, PutStocked, NothingStocked DEF CleansUp
    <3> QED BY <1>4, <3>1, <3>2 DEF CleansUp
  <2> QED BY <1>0, <2>1, <2>2 DEF Stocked
<1>5. ASSUME Hangs \/ PicksUp PROVE Stocked'
  BY <1>5 DEF Hangs, PicksUp, Stocked
<1> QED BY <1>1, <1>2, <1>3, <1>4, <1>5

LEMMA OthersStocked ==
    ASSUME ChestsInv, Stocked
    PROVE  /\ \A ok \in BOOLEAN : BreakBlock(ok) \/ Autosave(ok) => Stocked'
           /\ \A block_ \in {"chest", "stone"}, ok \in BOOLEAN : PlaceBlock(block_, ok) => Stocked'
           /\ \/ EvictChunk \/ AskChunk \/ DecodeBegins \/ DecodeEnds \/ IntegrateChunk
              \/ UsesStore \/ OtherLoad
              => Stocked'
<1>0. Total \in Nat /\ 0 \in Stock /\ NoEntity \in Stock /\ ~Shut.open
  BY ChestsAssumption DEF Shut, Stock
<1>1. ASSUME NEW ok \in BOOLEAN, BreakBlock(ok) PROVE Stocked'
  <2>1. entity' \in Stock
    BY <1>0, <1>1 DEF BreakBlock, Stores, Stocked
  <2>2. onDisk'.goods \in Stock
    BY <1>0, <1>1, <2>1 DEF BreakBlock, Writes, Encoded, Stocked
  <2>3. loaded' = "ready" /\ (window' = Shut \/ window' = window)
    BY <1>1 DEF BreakBlock
  <2> QED BY <1>0, <2>1, <2>2, <2>3 DEF Stocked
<1>2. ASSUME NEW ok \in BOOLEAN, Autosave(ok) PROVE Stocked'
  <2>1. entity' = entity /\ loaded' = "ready" /\ window' = window
    BY <1>2 DEF Autosave
  <2>2. onDisk'.goods \in Stock
    BY <1>0, <1>2, <2>1 DEF Autosave, Writes, Encoded, Stocked
  <2> QED BY <2>1, <2>2 DEF Stocked
<1>3. ASSUME NEW kind \in {"chest", "stone"}, NEW ok \in BOOLEAN, PlaceBlock(kind, ok) PROVE Stocked'
  <2>0. window' = window
    BY <1>3 DEF PlaceBlock
  <2>1. CASE loaded # "ready"
    <3>1. UNCHANGED <<unsaved, onDisk, entity>> /\ Asked
      BY <1>3, <2>1 DEF PlaceBlock
    <3> QED BY <2>0, <2>1, <3>1 DEF Stocked
  <2>2. CASE loaded = "ready"
    <3>1. loaded' = "ready"
      BY <1>3, <2>2 DEF PlaceBlock
    <3>2. CASE Stores(0) /\ Writes(ok, kind)
      <4>1. entity' \in Stock
        BY <1>0, <3>2 DEF Stores, Stocked
      <4>2. onDisk'.goods \in Stock
        BY <1>0, <3>2, <4>1 DEF Writes, Encoded, Stocked
      <4> QED BY <2>0, <3>1, <4>1, <4>2 DEF Stocked
    <3>3. CASE UNCHANGED <<entity, onDisk>>
      BY <2>0, <3>1, <3>3 DEF Stocked
    <3> QED BY <1>3, <2>2, <3>2, <3>3 DEF PlaceBlock
  <2> QED BY <2>1, <2>2
<1>4. ASSUME \/ EvictChunk \/ AskChunk \/ DecodeBegins \/ DecodeEnds \/ IntegrateChunk
             \/ UsesStore \/ OtherLoad
      PROVE  Stocked'
  <2>1. CASE EvictChunk
    BY <2>1 DEF EvictChunk, Stocked
  <2>2. CASE AskChunk
    BY <2>2 DEF AskChunk, Stocked
  <2>3. CASE DecodeBegins \/ UsesStore \/ OtherLoad
    BY <2>3 DEF DecodeBegins, UsesStore, OtherLoad, Stocked
  <2>4. CASE DecodeEnds
    BY <2>4 DEF DecodeEnds, Stocked
  <2>5. CASE IntegrateChunk
    BY <2>5 DEF IntegrateChunk, Stocked
  <2> QED BY <1>4, <2>1, <2>2, <2>3, <2>4, <2>5
<1> QED BY <1>1, <1>2, <1>3, <1>4

LEMMA ChestsTyped == ChestsSpec => []ChestsTypeOK
<1>1. ChestsInit => ChestsInv /\ Stocked
  <2>1. ChestsInit => Stocked
    BY DEF ChestsInit, Stocked, Stock, Shut
  <2> QED BY <2>1, ChestsBegin
<1>2. ChestsInv /\ Stocked /\ [ChestsNext]_chestVars => ChestsInv' /\ Stocked'
  <2> SUFFICES ASSUME ChestsInv, Stocked, [ChestsNext]_chestVars PROVE ChestsInv' /\ Stocked'
    OBVIOUS
  <2>1. CASE UNCHANGED chestVars
    BY <2>1, ChestsStepKeeps DEF chestVars, Stocked
  <2> QED BY <2>1, ChestsStepKeeps, ViewerStocked, OthersStocked DEF ChestsNext
<1>3. ChestsInv /\ Stocked => ChestsTypeOK
  <2> SUFFICES ASSUME ChestsInv, Stocked PROVE ChestsTypeOK
    OBVIOUS
  <2>1. loaded \in {"absent", "loading", "ready"} /\ here \in Blocks /\ onDisk.block \in Blocks
    BY DEF ChestsInv, ChestsShape
  <2>2. window.dirty => window.open
    BY DEF ChestsInv, ChestsShape
  <2>3. worker # "none" => loaded = "loading"
    BY DEF ChestsInv, FileHas
  <2> QED BY <2>1, <2>2, <2>3 DEF Stocked, Stock, ChestsTypeOK
<1> QED BY <1>1, <1>2, <1>3, PTL DEF ChestsSpec

-----------------------------------------------------------------------------
\* Side by side: each part of the run of MCSolo behaves as its own specification says.

LEMMA SoloSteps ==
    ASSUME [SoloNext]_parts
    PROVE  /\ [MiningNext]_miningVars /\ [EatingNext]_eatingVars
           /\ [SurvivalNext]_survivalVars /\ [FallingNext]_fallingVars
           /\ [SessionNext]_sessionVars /\ [ChestsNext]_chestVars
           /\ [FramingNext]_framingVars /\ [SectionsNext]_sectionVars
           /\ [TablesNext]_tableVars /\ UNCHANGED part
<1>1. CASE UNCHANGED parts
  BY <1>1 DEF parts
<1>2. CASE SoloNext
  BY <1>2 DEF SoloNext
<1> QED BY <1>1, <1>2

\* Every part of the joint behaviour is a behaviour of that part's specification.
LEMMA SoloIsEach ==
    SoloSpec => /\ MiningSpec /\ EatingSpec /\ SurvivalSpec /\ FallingSpec
                /\ SessionSpec /\ ChestsSpec /\ FramingSpec /\ SectionsSpec /\ TablesSpec
<1>1. SoloInit => /\ MiningInit /\ EatingInit /\ SurvivalInit /\ FallingInit
                  /\ SessionInit /\ ChestsInit /\ FramingInit /\ SectionsInit /\ TablesInit
  BY DEF SoloInit
<1>2. [SoloNext]_parts =>
        /\ [MiningNext]_miningVars /\ [EatingNext]_eatingVars
        /\ [SurvivalNext]_survivalVars /\ [FallingNext]_fallingVars
        /\ [SessionNext]_sessionVars /\ [ChestsNext]_chestVars
        /\ [FramingNext]_framingVars /\ [SectionsNext]_sectionVars
        /\ [TablesNext]_tableVars
  BY SoloSteps
<1> QED BY <1>1, <1>2, PTL DEF SoloSpec, MiningSpec, EatingSpec, SurvivalSpec, FallingSpec,
          SessionSpec, ChestsSpec, FramingSpec, SectionsSpec, TablesSpec

\* The structures under everything hold what was put into them: whatever frames arrive
\* in whatever pieces, the packets handed on are a prefix of those sent; whatever block
\* states are set, a section gives each back; whatever keys come and go, a table finds
\* those in it and no other.
THEOREM StructuresHoldCorrect == SoloSpec => []StructuresHold
<1>1. FramesWhole /\ SectionHolds /\ TableHolds => StructuresHold
  BY DEF StructuresHold
<1> QED BY <1>1, SoloIsEach, FramesWholeCorrect, SectionHoldsCorrect, TableHoldsCorrect, PTL

LEMMA TablesTyped == TablesSpec => []TablesTypeOK
<1>1. TablesInit => TableInv
  BY InitTable
<1>2. TableInv /\ [TablesNext]_tableVars => TableInv'
  BY NextTable
<1>3. TableInv => TablesTypeOK
  BY TableInvHolds
<1> QED BY <1>1, <1>2, <1>3, PTL DEF TablesSpec

LEMMA MiningTyped == MiningSpec => []MiningTypeOK
<1>1. MiningInv => MiningTypeOK
  BY DEF MiningInv
<1> QED BY <1>1, MiningCorrect, PTL

\* Type correctness of every part that concerns one player, one connection, one chest
\* or one structure: a running dig has a block and a time, the eater holds the button,
\* the dead have no health, food stays between nothing and full, no clock runs past
\* its bound.
THEOREM SoloTypesCorrect == SoloSpec => []SoloTypeOK
<1>1. /\ MiningTypeOK /\ EatingTypeOK /\ SurvivalTypeOK /\ FallingTypeOK /\ SessionTypeOK
      /\ ChestsTypeOK /\ FramingTypeOK /\ SectionsTypeOK /\ TablesTypeOK
      => SoloTypeOK
  BY DEF SoloTypeOK
<1> QED BY <1>1, SoloIsEach, MiningTyped, EatingTyped, SurvivalTyped, FallingTyped,
          SessionHasTypes, ChestsTyped, FramingTypeCorrect, SectionsTypeCorrect,
          TablesTyped, PTL
=============================================================================
