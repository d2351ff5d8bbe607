------------------------------- MODULE Framing ------------------------------
(***************************************************************************)
(* From bytes to packets: handle_client_read, which reads a socket until   *)
(* it is empty and then decodes every whole frame in the input buffer      *)
(* (conn_read_frame, varint_read, buf_compact), against a client whose     *)
(* bytes the network cuts into segments anywhere.                          *)
(*                                                                         *)
(* A byte has one payload bit where the code's have seven: 0 and 1 end a   *)
(* VarInt, 2 and 3 go on.                                                  *)
(***************************************************************************)
EXTENDS Naturals, Sequences, SequencesExt

CONSTANTS
    VarIntBytes, \* MC_VARINT_MAX_BYTES
    Packets,     \* packets a client sends: [id, payload]
    Junk,        \* byte strings that are no frame
    MaxFrames    \* bound: packets of the client

Base == 2
Octet == 0..(2 * Base - 1)
Weight[i \in 0..VarIntBytes] == IF i = 0 THEN 1 ELSE Base * Weight[i - 1] \* 1 << (7 * i)

VARIABLES
    sent,    \* external: the packets the client has sent
    flight,  \* external: bytes that have not arrived
    hung,    \* external: "no", or the client has ended its side
    spoilt,  \* external: the client has sent junk, and nothing after it
    inbuf,   \* c->in, compacted
    read,    \* the packet tasks pushed so far
    open     \* the connection has not been closed by the server

framingVars == <<sent, flight, hung, spoilt, inbuf, read, open>>
-----------------------------------------------------------------------------
(* VarInts.                                                                *)

\* varint_write, of numbers below Weight[VarIntBytes]
VarInt(n) ==
    LET size == CHOOSE k \in 1..VarIntBytes : n < Weight[k] /\ (k = 1 \/ n >= Weight[k - 1])
    IN  [i \in 1..size |-> ((n \div Weight[i - 1]) % Base) + (IF i < size THEN Base ELSE 0)]

\* varint_read: as many bytes as there are, at most VarIntBytes of them.
Ends(bytes) == {i \in 1..VarIntBytes : i <= Len(bytes) /\ bytes[i] < Base /\
                                       \A j \in 1..(i - 1) : bytes[j] >= Base}
HasVarInt(bytes) == Ends(bytes) # {}
VarIntLen(bytes) == CHOOSE i \in Ends(bytes) : TRUE
VarIntOf(bytes) ==
    LET value[i \in 0..VarIntLen(bytes)] ==
            IF i = 0 THEN 0 ELSE value[i - 1] + (bytes[i] % Base) * Weight[i - 1]
    IN  value[VarIntLen(bytes)]
After(bytes, n) == SubSeq(bytes, n + 1, Len(bytes))
-----------------------------------------------------------------------------
(* Frames.                                                                 *)

\* conn_write_packet without compression
IdAndPayload(p) == VarInt(p.id) \o p.payload
Frame(p) == VarInt(Len(IdAndPayload(p))) \o IdAndPayload(p)

\* One call of conn_read_frame: a length that is cut off, or too long to be
\* one, waits for more.
Waits(buf) ==
    \/ ~HasVarInt(buf)
    \/ Len(buf) < VarIntLen(buf) + VarIntOf(buf)
Body(buf) == SubSeq(buf, VarIntLen(buf) + 1, VarIntLen(buf) + VarIntOf(buf))
Malformed(buf) == HasVarInt(buf) /\ (VarIntOf(buf) = 0 \/ (~Waits(buf) /\ ~HasVarInt(Body(buf))))
PacketIn(body) == [id |-> VarIntOf(body), payload |-> After(body, VarIntLen(body))]

\* One turn of the decoding loop of handle_client_read.
Turned(d) ==
    IF Malformed(d.left) THEN [d EXCEPT !.ok = FALSE]
    ELSE IF Waits(d.left) THEN d
    ELSE [d EXCEPT !.read = Append(@, PacketIn(Body(d.left))),
                   !.left = After(@, VarIntLen(@) + VarIntOf(@))]

\* The whole loop: the tasks it pushes, what stays in the buffer, and whether
\* it ends in an error.
Decoded(buf) ==
    LET turn[i \in 0..Len(buf)] ==
            IF i = 0 THEN [read |-> <<>>, left |-> buf, ok |-> TRUE] ELSE Turned(turn[i - 1])
    IN  turn[Len(buf)]

\* What the client sends has numbers that VarInts hold, and no beginning of
\* its junk is a frame.
ASSUME FramingAssumption ==
    /\ VarIntBytes \in Nat \ {0} /\ MaxFrames \in Nat
    /\ Packets \subseteq [id : Nat, payload : Seq(Octet)]
    /\ \A p \in Packets : p.id < Weight[VarIntBytes] /\ Len(IdAndPayload(p)) < Weight[VarIntBytes]
    /\ Junk \subseteq Seq(Octet)
    /\ \A bytes \in Junk : \A n \in 0..Len(bytes) :
           LET begun == SubSeq(bytes, 1, n) IN Waits(begun) \/ Malformed(begun)
-----------------------------------------------------------------------------
SendFrame(p) ==
    /\ hung = "no" /\ ~spoilt /\ Len(sent) < MaxFrames
    /\ sent' = Append(sent, p)
    /\ flight' = flight \o Frame(p)
    /\ UNCHANGED <<hung, spoilt, inbuf, read, open>>

SendJunk(bytes) ==
    /\ hung = "no" /\ ~spoilt
    /\ flight' = flight \o bytes
    /\ spoilt' = TRUE
    /\ UNCHANGED <<sent, hung, inbuf, read, open>>

HangUp ==
    /\ hung = "no"
    /\ hung' = "yes"
    /\ UNCHANGED <<sent, flight, spoilt, inbuf, read, open>>

\* handle_client_read: n bytes have arrived; when the end has arrived too, the
\* second recv returns 0 and nothing is decoded.
ReadSocket(n, end) ==
    /\ open
    /\ n > 0 \/ end
    /\ flight' = After(flight, n)
    /\ IF end
       THEN /\ hung = "yes" /\ n = Len(flight)
            /\ open' = FALSE /\ inbuf' = inbuf \o flight /\ UNCHANGED read
       ELSE LET d == Decoded(inbuf \o SubSeq(flight, 1, n))
            IN  /\ inbuf' = d.left
                /\ read' = read \o d.read
                /\ open' = d.ok
    /\ UNCHANGED <<sent, hung, spoilt>>

FramingInit ==
    /\ sent = <<>> /\ flight = <<>> /\ hung = "no" /\ spoilt = FALSE
    /\ inbuf = <<>> /\ read = <<>> /\ open = TRUE

FramingNext ==
    \/ \E p \in Packets : SendFrame(p)
    \/ \E bytes \in Junk : SendJunk(bytes)
    \/ HangUp
    \/ \E n \in 0..Len(flight), end \in BOOLEAN : ReadSocket(n, end)

FramingSpec == FramingInit /\ [][FramingNext]_framingVars
-----------------------------------------------------------------------------
FramingTypeOK ==
    /\ sent \in Seq(Packets) /\ Len(sent) <= MaxFrames
    /\ flight \in Seq(Octet) /\ inbuf \in Seq(Octet)
    /\ read \in Seq([id : Nat, payload : Seq(Octet)])
    /\ ~open => hung = "yes" \/ spoilt

\* The packets handed on are those the client sent, in order, wherever its bytes
\* were cut; while the connection is open none that has arrived whole is held
\* back; what is lost is what arrived together with the end of the stream.
Bytes(frames) == FlattenSeq([i \in DOMAIN frames |-> Frame(frames[i])])
FramesWhole ==
    /\ IsPrefix(read, sent)
    /\ open /\ ~spoilt =>
           \A k \in DOMAIN sent :
               Len(Bytes(SubSeq(sent, 1, k))) <= Len(Bytes(sent)) - Len(flight) => k <= Len(read)
=============================================================================
