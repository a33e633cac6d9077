------------------------------ MODULE Transport ------------------------------
(***************************************************************************)
(* A flow on a stream of the idle pool: the task that pumps bytes between  *)
(* the flow and the wire, of crates/websocket/src/ws.rs (layer "ws") or of *)
(* crates/shadowsocks/src/aead.rs (layer "ss").                            *)
(*                                                                         *)
(* Either pump is a select! over a read from the flow and a read of one    *)
(* whole frame.  The frame comes in parts, each awaited; when the flow has *)
(* data between two parts, select! drops the read and with it the parts    *)
(* that were read.  The branches themselves are not interrupted.           *)
(***************************************************************************)
EXTENDS IdlePool

CONSTANTS
    MaxWrites,  \* bound on the writes of the flow
    MaxFrames,  \* bound on the frames of the server
    Lengths     \* payload lengths on which the length field is checked

\* n as a u64: its four words of 16 bits, the lowest first
Words(n) == <<n % 65536, (n \div 65536) % 65536, ((n \div 65536) \div 65536) % 65536,
              ((n \div 65536) \div 65536) \div 65536>>

ASSUME TransportAssumption ==
    /\ MaxWrites \in Nat /\ MaxFrames \in Nat
    /\ \A n \in Lengths : n \in Nat /\ Words(n)[4] < 65536

VARIABLES
    layer,    \* which of the two pumps
    flow,     \* "none" or "open"
    pending,  \* what the flow has written and the pump has not read
    writes,   \* how often the flow has written
    up,       \* the blocks on the wire to the server
    frames,   \* kinds of the frames the server has begun to send
    whole,    \* how many of them it has sent to the end
    wire,     \* parts on the way to the pump
    got,      \* parts of the frame that read_data_frame or read_chunk holds
    salted,   \* read_chunk has the server's salt
    expect,   \* dec_nonce
    pong,     \* read_data_frame is writing a pong
    out,      \* what the flow has been given
    torn      \* a read was dropped in the middle of a frame

flowVars == <<flow, pending, writes, up, frames, whole, wire, got, salted, expect, pong, out, torn>>
allVars == <<idle, filling, pc, layer, flowVars>>

TransportInit ==
    /\ Init
    /\ layer \in {"ws", "ss"}
    /\ flow = "none"
    /\ pending = <<>> /\ writes = 0 /\ up = <<>>
    /\ frames = <<>> /\ whole = 0 /\ wire = <<>> /\ got = <<>>
    /\ salted = FALSE /\ expect = 0
    /\ pong = FALSE /\ out = <<>> /\ torn = FALSE

\* The pump returns: both streams are dropped, and with them what is under way
\* in either direction.
PumpReturns ==
    /\ flow' = "none"
    /\ pending' = <<>> /\ writes' = 0 /\ up' = <<>>
    /\ frames' = <<>> /\ whole' = 0 /\ wire' = <<>> /\ got' = <<>>
    /\ salted' = FALSE /\ expect' = 0
    /\ pong' = FALSE /\ out' = <<>> /\ torn' = FALSE

-----------------------------------------------------------------------------
(* The flow.  A write is a number of chunks: the pump reads up to 16384    *)
(* bytes, one more than a Shadowsocks chunk may hold.                      *)

\* Mutant of OpenFlow: the newest stream is taken, and nothing refills.
OpenFlowNewest ==
    /\ flow = "none"
    /\ idle' = IF idle = <<>> THEN idle ELSE SubSeq(idle, 1, Len(idle) - 1)
    /\ flow' = "open"
    /\ pending' = IF layer = "ss" THEN <<[what |-> "address", chunks |-> 1]>> ELSE <<>>
    /\ UNCHANGED <<filling, pc, layer, writes, up, frames, whole, wire, got, salted, expect, pong, out, torn>>

\* ShadowsocksConnector::connect, or a WebSocket that has been dialled: a
\* stream of the pool, then the handshake; the first write is the address.
OpenFlow ==
    /\ flow = "none"
    /\ Take
    /\ flow' = "open"
    /\ pending' = IF layer = "ss" THEN <<[what |-> "address", chunks |-> 1]>> ELSE <<>>
    /\ UNCHANGED <<layer, writes, up, frames, whole, wire, got, salted, expect, pong, out, torn>>

FlowWrites ==
    /\ flow = "open" /\ writes < MaxWrites
    /\ \E n \in {1, 2} : pending' = Append(pending, [what |-> "data", chunks |-> n])
    /\ writes' = writes + 1
    /\ UNCHANGED <<idle, filling, pc, layer, flow, up, frames, whole, wire, got, salted, expect, pong, out, torn>>

\* Mutant of Seal: one nonce for the length and the body.
SealOnce(w) ==
    [i \in 1 .. 2 * w.chunks |-> [what |-> w.what, nonce |-> (Len(up) + i - 1) \div 2]]

\* Two blocks for every chunk, each sealed with the next nonce; on a WebSocket
\* one masked frame.
Seal(w) ==
    IF layer = "ws" THEN <<[what |-> w.what, nonce |-> Len(up)]>>
    ELSE [i \in 1 .. 2 * w.chunks |-> [what |-> w.what, nonce |-> Len(up) + i - 1]]

\* The first branch of the select!: what was read of a frame, or written of a
\* pong, is forgotten.
PumpUp ==
    /\ flow = "open" /\ pending # <<>>
    /\ up' = up \o Seal(Head(pending))
    /\ pending' = Tail(pending)
    /\ torn' = (torn \/ got # <<>> \/ pong)
    /\ got' = <<>>
    /\ pong' = FALSE
    /\ UNCHANGED <<idle, filling, pc, layer, flow, writes, frames, whole, wire, salted, expect, out>>

-----------------------------------------------------------------------------
(* The server.  A frame is a header and a payload, a chunk a sealed length *)
(* and a sealed body; the first chunk comes after the salt.                *)

Part(what, n) == [what |-> what, n |-> n]

ServerBegins ==
    /\ flow = "open" /\ whole = Len(frames) /\ whole < MaxFrames
    /\ \E kind \in IF layer = "ws" THEN {"data", "ping", "close"} ELSE {"data"} :
          frames' = Append(frames, kind)
    /\ wire' = wire \o (IF layer = "ss" /\ frames = <<>> THEN <<Part("salt", 0)>> ELSE <<>>)
                    \o <<Part("head", Len(frames) + 1)>>
    /\ UNCHANGED <<idle, filling, pc, layer, flow, pending, writes, up, whole, got, salted, expect, pong, out, torn>>

\* The rest of a frame may arrive much later.
ServerEnds ==
    /\ flow = "open" /\ whole < Len(frames)
    /\ whole' = Len(frames)
    /\ wire' = Append(wire, Part("body", Len(frames)))
    /\ UNCHANGED <<idle, filling, pc, layer, flow, pending, writes, up, frames, got, salted, expect, pong, out, torn>>

-----------------------------------------------------------------------------
(* The second branch of the select!: the next part.                        *)

\* One part further: parts held, what the flow has been given, pong to write
Advance(parts, given, answer) ==
    /\ wire' = Tail(wire)
    /\ got' = parts
    /\ out' = given
    /\ pong' = answer
    /\ UNCHANGED <<flow, pending, writes, up, frames, whole, torn>>

\* read_data_frame.  A payload that is taken for a header is junk: most often
\* an unknown opcode or a length out of bounds, at times a data frame.
ReadDataFrame ==
    /\ layer = "ws" /\ flow = "open" /\ ~pong /\ wire # <<>>
    /\ LET p == Head(wire)
           kind == IF got = <<>> THEN p.what ELSE frames[got[1].n]
       IN  \/ kind = "head" /\ Advance(<<p>>, out, FALSE) /\ UNCHANGED <<salted, expect>>
           \/ kind = "data" /\ Advance(<<>>, Append(out, p.n), FALSE) /\ UNCHANGED <<salted, expect>>
           \/ kind = "ping" /\ Advance(<<>>, out, TRUE) /\ UNCHANGED <<salted, expect>>
           \/ kind = "body" /\ Advance(<<>>, Append(out, 0), FALSE) /\ UNCHANGED <<salted, expect>>
           \/ kind \in {"close", "body"} /\ PumpReturns
    /\ UNCHANGED <<idle, filling, pc, layer>>

PongWritten ==
    /\ flow = "open" /\ pong
    /\ pong' = FALSE
    /\ UNCHANGED <<idle, filling, pc, layer, flow, pending, writes, up, frames, whole, wire, got, salted, expect,
                   out, torn>>

\* The nonce the server sealed a part with
NonceOf(p) == IF p.what = "head" THEN 2 * (p.n - 1) ELSE 2 * (p.n - 1) + 1

\* Mutant of Opens: any block is taken.
OpensAnything(p, what) == TRUE

\* Cipher::open: a block that was sealed with another nonce, or a body cut to
\* the size of a length block, fails.
Opens(p, what) == p.what = what /\ NonceOf(p) = expect

\* read_chunk.  The salt and dec_nonce survive the read that is dropped.
ReadChunk ==
    /\ layer = "ss" /\ flow = "open" /\ wire # <<>>
    /\ LET p == Head(wire) IN
       \/ ~salted /\ salted' = TRUE /\ Advance(<<>>, out, FALSE) /\ UNCHANGED expect
       \/ /\ salted /\ got = <<>> /\ Opens(p, "head")
          /\ expect' = expect + 1 /\ Advance(<<p>>, out, FALSE) /\ UNCHANGED salted
       \/ /\ salted /\ got # <<>> /\ Opens(p, "body")
          /\ expect' = expect + 1 /\ Advance(<<>>, Append(out, p.n), FALSE) /\ UNCHANGED salted
       \/ /\ salted /\ ~Opens(p, IF got = <<>> THEN "head" ELSE "body")
          /\ PumpReturns
    /\ UNCHANGED <<idle, filling, pc, layer>>

\* The flow closes its side, a write fails or the server closes: either pump
\* returns.
PumpEnds ==
    /\ flow = "open"
    /\ PumpReturns
    /\ UNCHANGED <<idle, filling, pc, layer>>

PoolStep ==
    /\ Fill \/ Tick \/ \E f \in Fillers : FillOne(f)
    /\ UNCHANGED <<layer, flowVars>>

TransportNext ==
    \/ PoolStep \/ OpenFlow \/ FlowWrites \/ ServerBegins \/ ServerEnds
    \/ PumpUp \/ ReadDataFrame \/ PongWritten \/ ReadChunk \/ PumpEnds

TransportSpec == TransportInit /\ [][TransportNext]_allVars

-----------------------------------------------------------------------------
(* The length field of a WebSocket frame, as write_frame writes it and     *)
(* read_data_frame reads it.                                               *)

\* Mutant of WriteLength: the two bytes are swapped.
WriteLengthSwapped(n) == IF n < 126 THEN <<n>> ELSE <<126, n % 256, n \div 256>>

WriteLength(n) ==
    LET w == Words(n) IN
    CASE n < 126 -> <<n>>
      [] n >= 126 /\ n <= 65535 -> <<126, n \div 256, n % 256>>
      [] n > 65535 -> <<127, w[4] \div 256, w[4] % 256, w[3] \div 256, w[3] % 256,
                             w[2] \div 256, w[2] % 256, w[1] \div 256, w[1] % 256>>

\* from_be_bytes of the bytes from i on
U16(bytes, i) == 256 * bytes[i] + bytes[i + 1]
U32(bytes, i) == 65536 * U16(bytes, i) + U16(bytes, i + 2)
U64(bytes, i) == 65536 * (65536 * U32(bytes, i)) + U32(bytes, i + 4)

ReadLength(bytes) ==
    CASE bytes[1] = 126 -> U16(bytes, 2)
      [] bytes[1] = 127 -> U64(bytes, 2)
      [] OTHER -> bytes[1]

-----------------------------------------------------------------------------
(* Properties.                                                             *)

\* out is a prefix of the data frames the server has begun, by their numbers
GivenAsSent ==
    /\ \A i \in 1 .. Len(out) : out[i] \in 1 .. Len(frames) /\ frames[out[i]] = "data"
    /\ \A i, j \in 1 .. Len(out) : i < j => out[i] < out[j]
    /\ \A n \in 1 .. Len(frames), i \in 1 .. Len(out) :
         frames[n] = "data" /\ n < out[i] => \E j \in 1 .. Len(out) : out[j] = n

\* With its user the pool behaves as IdlePool says, so what is proved of the
\* pool holds here: connect goes through take and nothing else.
PoolIsKept == Spec

\* What a flow is given is what the server sent, in order and without gaps.  A
\* Shadowsocks flow never gets anything else, also after a read was dropped in
\* the middle of a chunk: the next block does not open.  A WebSocket flow does
\* not as long as no read was dropped.
FlowIsTrue == (layer = "ss" \/ ~torn) => GivenAsSent

\* The server can open what the pump sends: the nonces count up by one block
\* after block, whatever the sizes of the writes, and the address comes first.
ServerCanOpen ==
    layer = "ss" => /\ \A i \in 1 .. Len(up) : up[i].nonce = i - 1
                    /\ up # <<>> => up[1].what = "address" /\ up[2].what = "address"

\* A frame length is read as it was written, at every boundary of the encoding.
LengthsAreRead == flow = "none" => \A n \in Lengths : ReadLength(WriteLength(n)) = n

\* ws.rs, its first line: "Minimal RFC 6455 client that exposes a byte stream".
WsIsByteStream == layer = "ws" => GivenAsSent
=============================================================================
