-------------------------------- MODULE Wire --------------------------------
(***************************************************************************)
(* What one connection carries, and what its client makes of it: the       *)
(* responses of http_api.c, the streams and snapshots of stream_handler.c, *)
(* the handshake and framing of ws_protocol.c, all sent by http_sendall    *)
(* in as many pieces as the socket takes.                                  *)
(*                                                                         *)
(* A handler sends parts.  Of a part the model has its kind, its number of *)
(* bytes and, for a header, what it tells the client to read next.  The    *)
(* client reads what it was told to; it is in step with the program while  *)
(* every byte it reads is of the part it takes it for.                     *)
(***************************************************************************)
EXTENDS Naturals, Sequences

CONSTANTS
    ShortLimit,  \* lengths below are in the header's second byte (126)
    FieldSize,   \* the extended length counts modulo this (2^16)
    FrameSizes,  \* sizes of captured frames
    BodySizes,   \* sizes of pages and JSON answers
    HeadSize,    \* bytes of a textual header
    KeyLengths   \* lengths of a WebSocket key after extract_ws_key, up to 24

ASSUME WireAssumption ==
    /\ ShortLimit \in Nat \ {0} /\ FieldSize \in Nat \ {0}
    /\ ShortLimit <= FieldSize
    /\ FrameSizes \subseteq Nat \ {0} /\ BodySizes \subseteq Nat \ {0}
    /\ HeadSize \in Nat \ {0}
    /\ KeyLengths \subseteq 0 .. 24

VARIABLES
    handler,  \* the handler that serves the connection
    key,      \* length of ws_pending_key
    todo,     \* parts it has still to send before it looks for the next frame
    left,     \* bytes left of the first of them (len in http_sendall)
    last,     \* it will look for no further frame
    gaveUp,   \* a send has failed, or the handshake was refused
    open,     \* the connection is not closed yet
    \* the client
    due,      \* the part it reads, and how much of it is left if it was told
    mid,      \* it has read some of a header but not its end
    inStep    \* every byte was of the part the client took it for

vars == <<handler, key, todo, left, last, gaveUp, open, due, mid, inStep>>

OneShot == {"page", "answer", "text", "switchFailed", "snapshot"}
Streams == {"mjpeg", "ws"}
Counted == {"body", "frame", "payload"}

(* What the client reads when it has all of a part it was told to read.    *)
After(kind) == CASE kind = "body" -> "eof"
                 [] kind = "frame" -> "end"
                 [] kind = "end" -> "part"
                 [] kind = "payload" -> "wsHeader"

Expect(kind, n) == IF kind \in Counted /\ n = 0
                   THEN [kind |-> After(kind), n |-> 0]
                   ELSE [kind |-> kind, n |-> n]

Part(kind, size, tells) == [kind |-> kind, size |-> size, tells |-> tells]
Nothing == Expect("eof", 0)
Data(kind, n) == Part(kind, n, Nothing)
-----------------------------------------------------------------------------
(* The parts the handlers send.                                            *)

(* handle_index, handle_ws_page: the length is a part of its own.          *)
PageParts(n) == <<Part("head", HeadSize, Expect("length", 0)),
                  Part("length", HeadSize, Expect("body", n)), Data("body", n)>>

(* handle_api_status, handle_api_led, handle_api_resolution; a snapshot.   *)
AnswerParts(n) == <<Part("head", HeadSize, Expect("body", n)), Data("body", n)>>

(* http_404 and http_503, header and body in one.                          *)
TextParts == <<Part("head", HeadSize, Nothing)>>

MjpegParts(n) == <<Part("part", HeadSize, Expect("frame", n)),
                   Data("frame", n), Part("end", 2, Expect("part", 0))>>

(* ws_send_binary.                                                         *)
WsLength(n) == IF n < ShortLimit THEN n ELSE n % FieldSize

WsParts(n) == <<Part("wsHeader", IF n < ShortLimit THEN 2 ELSE 4,
                     Expect("payload", WsLength(n))),
                Data("payload", n)>>

FirstParts(h, n) ==
    CASE h = "page" -> PageParts(n)
      [] h \in {"answer", "switchFailed"} -> AnswerParts(n)
      [] h = "text" -> TextParts
      [] h = "mjpeg" -> <<Part("head", HeadSize, Expect("part", 0))>>
      [] h = "ws" -> <<Part("head", HeadSize, Expect("wsHeader", 0))>>
      [] h = "snapshot" -> <<>>

FrameParts(h, n) == CASE h = "mjpeg" -> MjpegParts(n)
                      [] h = "ws" -> WsParts(n)
                      [] h = "snapshot" -> AnswerParts(n)
-----------------------------------------------------------------------------
(* The handshake's hash: key and GUID, padded to blocks of 64 bytes.       *)
HashInput == key + 36

(* Mutant: no room is kept for the length of the message. *)
PadLen_NoLength(len) == IF len + 1 <= 64 THEN 64 ELSE 128

PadLen(len) == IF len + 9 <= 64 THEN 64 ELSE 128

KeyAccepted == key >= 16
-----------------------------------------------------------------------------
Init ==
    /\ handler = "none" /\ key = 0 /\ todo = <<>> /\ left = 0
    /\ last = TRUE /\ gaveUp = FALSE /\ open = FALSE
    /\ due = Nothing /\ mid = FALSE /\ inStep = TRUE

(* A connection's request is handed to its handler.  A handshake with too  *)
(* short a key is refused without an answer.                               *)
Serve ==
    /\ ~open
    /\ open' = TRUE
    /\ \E h \in OneShot \cup Streams, n \in BodySizes :
         /\ handler' = h
         /\ key' \in IF h = "ws" THEN KeyLengths ELSE {0}
         /\ gaveUp' = (h = "ws" /\ ~KeyAccepted')
         /\ todo' = IF gaveUp' THEN <<>> ELSE FirstParts(h, n)
         /\ left' = IF todo' = <<>> THEN 0 ELSE HeadSize
         /\ last' = (h \notin Streams \cup {"snapshot"})
    /\ due' = Expect("head", 0) /\ mid' = FALSE /\ inStep' = TRUE

(* The handler has a frame to send; a snapshot has one only.               *)
NextFrame ==
    /\ open /\ todo = <<>> /\ ~gaveUp /\ ~last
    /\ \E n \in FrameSizes : todo' = FrameParts(handler, n)
    /\ left' = todo'[1].size
    /\ last' = (handler = "snapshot")
    /\ UNCHANGED <<handler, key, gaveUp, open, due, mid, inStep>>

(* It has none: a stream ends, a snapshot is answered with http_503.       *)
NoFrame ==
    /\ open /\ todo = <<>> /\ ~gaveUp /\ ~last
    /\ last' = TRUE
    /\ IF handler = "snapshot"
       THEN todo' = TextParts /\ left' = HeadSize
       ELSE UNCHANGED <<todo, left>>
    /\ UNCHANGED <<handler, key, gaveUp, open, due, mid, inStep>>

(* The client reads k bytes of the part p, and and p with them if ends.    *)
Reads(p, k, ends) ==
    LET takes == /\ due.kind = p.kind
                 /\ IF p.kind \in Counted THEN k <= due.n
                    ELSE left = p.size => ~mid
    IN /\ inStep' = (inStep /\ takes)
       /\ IF ~inStep' THEN UNCHANGED <<due, mid>>
          ELSE IF p.kind \in Counted
               THEN due' = Expect(p.kind, due.n - k) /\ UNCHANGED mid
               ELSE /\ mid' = ~ends
                    /\ due' = IF ends THEN p.tells ELSE due

NextLeft == IF Len(todo) > 1 THEN todo[2].size ELSE 0

(* zsock_send takes some of what is left; http_sendall goes on with the    *)
(* rest, the handler with its next part.                                   *)
SendSome ==
    /\ open /\ todo # <<>>
    /\ \E k \in 1 .. left :
         /\ Reads(Head(todo), k, k = left)
         /\ IF k < left
            THEN left' = left - k /\ UNCHANGED todo
            ELSE /\ todo' = Tail(todo)
                 /\ left' = NextLeft
    /\ UNCHANGED <<handler, key, last, gaveUp, open>>

(* Mutant: the result of sending a stream's headers is not looked at. *)
Ignores_PartHeader == Head(todo).kind \in {"part", "wsHeader"}

(* handle_api_resolution does not look at it when it reports a failure.    *)
Ignores == handler = "switchFailed" /\ Head(todo).kind = "head"

(* A send times out, or the connection is gone: the handler ends.          *)
SendFails ==
    /\ open /\ todo # <<>>
    /\ gaveUp' = TRUE
    /\ IF Ignores
       THEN todo' = Tail(todo) /\ left' = NextLeft
       ELSE todo' = <<>> /\ left' = 0
    /\ UNCHANGED <<handler, key, last, open, due, mid, inStep>>

(* Mutant: a handler leaves with a part unsent. *)
CloseReady_OneLeft == Len(todo) <= 1

CloseReady == todo = <<>>

(* The handler is done: http_wait_for_peer_close, then zsock_close.        *)
Close ==
    /\ open /\ CloseReady /\ (gaveUp \/ last)
    /\ open' = FALSE
    /\ UNCHANGED <<handler, key, todo, left, last, gaveUp, due, mid, inStep>>

Next == Serve \/ NextFrame \/ NoFrame \/ SendSome \/ SendFails \/ Close

Spec == Init /\ [][Next]_vars
-----------------------------------------------------------------------------
Kinds == {"head", "length", "part", "wsHeader", "end", "eof"} \cup Counted
Parts == [kind : Kinds, size : Nat \ {0}, tells : [kind : Kinds, n : Nat]]

(* Every variable keeps to its values; bytes are left exactly while a part *)
(* is being sent.                                                          *)
TypeOK ==
    /\ handler \in OneShot \cup Streams \cup {"none"} /\ key \in Nat
    /\ todo \in Seq(Parts)
    /\ left \in IF todo = <<>> THEN {0} ELSE 1 .. todo[1].size
    /\ last \in BOOLEAN /\ gaveUp \in BOOLEAN /\ open \in BOOLEAN
    /\ due \in [kind : Kinds, n : Nat] /\ mid \in BOOLEAN /\ inStep \in BOOLEAN

(* The client never takes bytes for something they are not, however the    *)
(* socket cuts them and wherever a send fails, as long as frames are below *)
(* 2^16 bytes and the answer is not that of a failed switch.               *)
InStep ==
    (\A n \in FrameSizes : n < FieldSize) /\ handler # "switchFailed" => inStep

(* "each sends a complete HTTP response to client" (http_api.h:28): of an  *)
(* answer the client takes no bytes for something they are not, that of a  *)
(* failed switch included.                                                 *)
AnswersInStep == handler \in OneShot => inStep

(* "Send a WebSocket binary frame": the client finds every frame in the    *)
(* stream (ws_protocol.h:26), whatever its size.                           *)
WsInStep == handler = "ws" => inStep

(* "each sends a complete HTTP response to client" (http_api.h:28): a      *)
(* connection is closed at the end of a response or between two frames,    *)
(* unless a send failed or the handshake was refused.                      *)
Complete == ~open /\ ~gaveUp /\ inStep =>
    ~mid /\ due.kind \in {"eof", "part", "wsHeader"}

(* The hash input fits its buffers, and the message, its end mark and its  *)
(* length fit the padded blocks.                                           *)
HashFits == handler = "ws" /\ KeyAccepted =>
    HashInput < 64 /\ HashInput + 1 + 8 <= PadLen(HashInput)

(* The type invariant with the room in the handshake's buffers.            *)
WireTypeOK == TypeOK /\ HashFits
=============================================================================
