----------------------------- MODULE Wire_proofs -----------------------------
(***************************************************************************)
(* Proofs about Wire, for any sizes of headers, pages and frames, any way  *)
(* the socket cuts what is sent, and a failure of any send.                *)
(***************************************************************************)
EXTENDS Wire, SequenceTheorems, TLAPS

(* What the client must be waiting for when a part begins, and what it     *)
(* waits for when it has read all of it.                                   *)
Start(p) == [kind |-> p.kind, n |-> IF p.kind \in Counted THEN p.size ELSE 0]
EndOf(p) == IF p.kind \in Counted THEN [kind |-> After(p.kind), n |-> 0]
                                  ELSE p.tells

(* Parts that a client can follow: each prepares it for the next.          *)
WellSent(s, first, end) ==
    /\ s \in Seq(Parts) /\ s # <<>>
    /\ Start(s[1]) = first
    /\ \A i \in 1 .. Len(s) - 1 : EndOf(s[i]) = Start(s[i + 1])
    /\ EndOf(s[Len(s)]) = end

(* What the client waits for while the handler has nothing to send.        *)
IdleOf(h, l) == [kind |-> IF h = "mjpeg" THEN "part"
                          ELSE IF h = "ws" THEN "wsHeader"
                          ELSE IF h = "snapshot" /\ ~l THEN "head"
                          ELSE "eof", n |-> 0]

(* As long as no send failed, the client is where the handler is.          *)
SyncInv == ~gaveUp =>
    /\ inStep
    /\ todo = <<>> => ~mid /\ due = IdleOf(handler, last)
    /\ todo # <<>> =>
         /\ WellSent(todo, Start(todo[1]), IdleOf(handler, last))
         /\ due = [kind |-> todo[1].kind,
                   n |-> IF todo[1].kind \in Counted THEN left ELSE 0]
         /\ mid <=> todo[1].kind \notin Counted /\ left < todo[1].size

(* After a failed send nothing is sent any more, but for one handler.      *)
GaveUpInv == gaveUp /\ handler # "switchFailed" => todo = <<>> /\ inStep

(* A closed connection has all it was to carry.                            *)
ClosedInv == /\ ~open => todo = <<>> /\ (gaveUp \/ last)
             /\ handler = "snapshot" /\ todo # <<>> => last

(* Only these handlers look for frames.                                    *)
FrameHandler == handler \in Streams \cup {"snapshot"} \/ last

IInv == SyncInv /\ GaveUpInv /\ ClosedInv

Small == \A n \in FrameSizes : n < FieldSize
-----------------------------------------------------------------------------
LEMMA One ==
    ASSUME NEW a \in Parts
    PROVE  WellSent(<<a>>, Start(a), EndOf(a))
BY DEF WellSent

LEMMA Two ==
    ASSUME NEW a \in Parts, NEW b \in Parts, EndOf(a) = Start(b)
    PROVE  WellSent(<<a, b>>, Start(a), EndOf(b))
<1> DEFINE s == <<a, b>>
<1>1. s \in Seq(Parts) /\ Len(s) = 2 /\ s # <<>> /\ s[1] = a /\ s[2] = b
  OBVIOUS
<1> HIDE DEF s
<1>2. \A i \in 1 .. Len(s) - 1 : i = 1
  BY <1>1
<1> QED
  BY <1>1, <1>2 DEF WellSent, s

LEMMA Three ==
    ASSUME NEW a \in Parts, NEW b \in Parts, NEW c \in Parts,
           EndOf(a) = Start(b), EndOf(b) = Start(c)
    PROVE  WellSent(<<a, b, c>>, Start(a), EndOf(c))
<1> DEFINE s == <<a, b, c>>
<1>1. s \in Seq(Parts) /\ Len(s) = 3 /\ s # <<>> /\ s[1] = a /\ s[2] = b /\ s[3] = c
  OBVIOUS
<1> HIDE DEF s
<1>2. \A i \in 1 .. Len(s) - 1 : i = 1 \/ i = 2
  BY <1>1
<1> QED
  BY <1>1, <1>2 DEF WellSent, s

LEMMA Rest ==
    ASSUME NEW s, NEW first, NEW end, WellSent(s, first, end)
    PROVE  /\ s \in Seq(Parts) /\ Len(s) \in Nat /\ Len(s) >= 1 /\ Head(s) = s[1]
           /\ Tail(s) \in Seq(Parts)
           /\ Len(s) = 1 => Tail(s) = <<>> /\ EndOf(s[1]) = end
           /\ Len(s) > 1 => /\ WellSent(Tail(s), EndOf(s[1]), end)
                            /\ Tail(s)[1] = s[2]
<1> DEFINE t == Tail(s)
<1>1. s \in Seq(Parts) /\ s # <<>>
  BY DEF WellSent
<1>2. /\ t \in Seq(Parts) /\ Len(t) = Len(s) - 1
      /\ \A i \in 1 .. Len(t) : t[i] = s[i + 1]
  BY <1>1, HeadTailProperties
<1>3. Len(s) \in Nat /\ Len(s) >= 1 /\ Head(s) = s[1]
  BY <1>1, LenProperties, EmptySeq
<1>4. t = <<>> <=> Len(t) = 0
  BY <1>2, EmptySeq
<1> HIDE DEF t
<1>5. ASSUME Len(s) = 1 PROVE t = <<>> /\ EndOf(s[1]) = end
  BY <1>2, <1>4, <1>5 DEF WellSent
<1>6. ASSUME Len(s) > 1 PROVE WellSent(t, EndOf(s[1]), end) /\ t[1] = s[2]
  <2>1. t # <<>> /\ 1 \in 1 .. Len(t) /\ Len(t) \in 1 .. Len(t) /\ Len(t) + 1 = Len(s)
    BY <1>2, <1>3, <1>4, <1>6
  <2>2. t[1] = s[2] /\ t[Len(t)] = s[Len(s)]
    BY <1>2, <2>1
  <2>3. Start(t[1]) = EndOf(s[1])
    <3>1. 1 \in 1 .. Len(s) - 1 /\ 1 + 1 = 2
      BY <1>3, <1>6
    <3> QED
      BY <2>2, <3>1 DEF WellSent
  <2>4. \A i \in 1 .. Len(t) - 1 : EndOf(t[i]) = Start(t[i + 1])
    <3>1. ASSUME NEW i \in 1 .. Len(t) - 1
          PROVE  EndOf(t[i]) = Start(t[i + 1])
      <4>1. i \in 1 .. Len(t) /\ i + 1 \in 1 .. Len(t) /\ i + 1 \in 1 .. Len(s) - 1
        BY <1>2, <1>3
      <4>2. t[i] = s[i + 1] /\ t[i + 1] = s[(i + 1) + 1]
        BY <1>2, <4>1
      <4> QED
        BY <4>1, <4>2 DEF WellSent
    <3> QED
      BY <3>1
  <2> QED
    BY <1>2, <2>1, <2>2, <2>3, <2>4 DEF WellSent
<1> QED
  BY <1>1, <1>2, <1>3, <1>5, <1>6 DEF t
-----------------------------------------------------------------------------
(* The parts of every handler can be followed.                             *)
Expects == [kind : Kinds, n : Nat]

LEMMA PartType ==
    ASSUME NEW kind \in Kinds, NEW size \in Nat \ {0}, NEW tells \in Expects
    PROVE  /\ Part(kind, size, tells) \in Parts
           /\ Part(kind, size, tells).kind = kind
           /\ Part(kind, size, tells).size = size
           /\ Part(kind, size, tells).tells = tells
BY DEF Part, Parts, Expects

LEMMA ExpectType ==
    ASSUME NEW kind \in Kinds, NEW n \in Nat
    PROVE  /\ Expect(kind, n) \in Expects
           /\ kind \notin Counted \/ n # 0 => Expect(kind, n) = [kind |-> kind, n |-> n]
           /\ kind \in Counted => Expect(kind, 0) = [kind |-> After(kind), n |-> 0]
<1>1. kind \in Counted => After(kind) \in Kinds
  BY DEF Counted, After, Kinds
<1> QED
  BY <1>1 DEF Expect, Expects

LEMMA DataFollowed ==
    ASSUME NEW kind \in Counted, NEW n \in Nat \ {0}
    PROVE  /\ Data(kind, n) \in Parts
           /\ Data(kind, n).kind = kind /\ Data(kind, n).size = n
           /\ Start(Data(kind, n)) = Expect(kind, n)
           /\ EndOf(Data(kind, n)) = [kind |-> After(kind), n |-> 0]
<1>1. kind \in Kinds /\ "eof" \in Kinds
  BY DEF Kinds
<1>2. Nothing \in Expects
  BY <1>1, ExpectType DEF Nothing
<1>3. Data(kind, n) \in Parts /\ Data(kind, n).kind = kind /\ Data(kind, n).size = n
  BY <1>1, <1>2, PartType DEF Data
<1> QED
  BY <1>1, <1>3, ExpectType DEF Start, EndOf

LEMMA HeaderFollowed ==
    ASSUME NEW kind \in Kinds \ Counted, NEW size \in Nat \ {0}, NEW tells \in Expects
    PROVE  /\ Part(kind, size, tells) \in Parts
           /\ Part(kind, size, tells).size = size
           /\ Start(Part(kind, size, tells)) = [kind |-> kind, n |-> 0]
           /\ EndOf(Part(kind, size, tells)) = tells
BY PartType DEF Start, EndOf

LEMMA KindFacts ==
    /\ {"head", "length", "part", "wsHeader", "end", "eof"} \subseteq Kinds \ Counted
    /\ Counted \subseteq Kinds
    /\ {"body", "frame", "payload"} \subseteq Counted
    /\ After("body") = "eof" /\ After("frame") = "end" /\ After("payload") = "wsHeader"
BY DEF Kinds, Counted, After

LEMMA ExpectHeader ==
    ASSUME NEW kind \in Kinds \ Counted
    PROVE  Expect(kind, 0) = [kind |-> kind, n |-> 0] /\ Expect(kind, 0) \in Expects
BY ExpectType

LEMMA AnswerFollowed ==
    ASSUME NEW n \in Nat \ {0}
    PROVE  /\ WellSent(AnswerParts(n), [kind |-> "head", n |-> 0], [kind |-> "eof", n |-> 0])
           /\ AnswerParts(n)[1].size = HeadSize
<1> DEFINE a == Part("head", HeadSize, Expect("body", n))
           b == Data("body", n)
<1>1. Expect("body", n) \in Expects
  BY ExpectType, KindFacts
<1>2. a \in Parts /\ a.size = HeadSize /\ Start(a) = [kind |-> "head", n |-> 0]
      /\ EndOf(a) = Expect("body", n)
  BY <1>1, HeaderFollowed, KindFacts, WireAssumption
<1>3. b \in Parts /\ Start(b) = Expect("body", n) /\ EndOf(b) = [kind |-> "eof", n |-> 0]
  BY DataFollowed, KindFacts
<1>4. AnswerParts(n) = <<a, b>>
  BY DEF AnswerParts
<1> HIDE DEF a, b
<1>5. WellSent(<<a, b>>, Start(a), EndOf(b)) /\ <<a, b>>[1] = a
  BY <1>2, <1>3, Two
<1> QED
  BY <1>2, <1>3, <1>4, <1>5

LEMMA PageFollowed ==
    ASSUME NEW n \in Nat \ {0}
    PROVE  /\ WellSent(PageParts(n), [kind |-> "head", n |-> 0], [kind |-> "eof", n |-> 0])
           /\ PageParts(n)[1].size = HeadSize
<1> DEFINE a == Part("head", HeadSize, Expect("length", 0))
           b == Part("length", HeadSize, Expect("body", n))
           c == Data("body", n)
<1>1. Expect("body", n) \in Expects /\ Expect("length", 0) \in Expects
      /\ Expect("length", 0) = [kind |-> "length", n |-> 0]
  BY ExpectType, ExpectHeader, KindFacts
<1>2. a \in Parts /\ a.size = HeadSize /\ Start(a) = [kind |-> "head", n |-> 0]
      /\ EndOf(a) = [kind |-> "length", n |-> 0]
  BY <1>1, HeaderFollowed, KindFacts, WireAssumption
<1>3. b \in Parts /\ Start(b) = [kind |-> "length", n |-> 0] /\ EndOf(b) = Expect("body", n)
  BY <1>1, HeaderFollowed, KindFacts, WireAssumption
<1>4. c \in Parts /\ Start(c) = Expect("body", n) /\ EndOf(c) = [kind |-> "eof", n |-> 0]
  BY DataFollowed, KindFacts
<1>5. PageParts(n) = <<a, b, c>>
  BY DEF PageParts
<1> HIDE DEF a, b, c
<1>6. WellSent(<<a, b, c>>, Start(a), EndOf(c)) /\ <<a, b, c>>[1] = a
  BY <1>2, <1>3, <1>4, Three
<1> QED
  BY <1>2, <1>4, <1>5, <1>6

LEMMA MjpegFollowed ==
    ASSUME NEW n \in Nat \ {0}
    PROVE  WellSent(MjpegParts(n), [kind |-> "part", n |-> 0], [kind |-> "part", n |-> 0])
<1> DEFINE a == Part("part", HeadSize, Expect("frame", n))
           b == Data("frame", n)
           c == Part("end", 2, Expect("part", 0))
<1>1. Expect("frame", n) \in Expects /\ Expect("part", 0) \in Expects
      /\ Expect("part", 0) = [kind |-> "part", n |-> 0]
  BY ExpectType, ExpectHeader, KindFacts
<1>2. a \in Parts /\ Start(a) = [kind |-> "part", n |-> 0] /\ EndOf(a) = Expect("frame", n)
  BY <1>1, HeaderFollowed, KindFacts, WireAssumption
<1>3. b \in Parts /\ Start(b) = Expect("frame", n) /\ EndOf(b) = [kind |-> "end", n |-> 0]
  BY DataFollowed, KindFacts
<1>4. c \in Parts /\ Start(c) = [kind |-> "end", n |-> 0]
      /\ EndOf(c) = [kind |-> "part", n |-> 0]
  BY <1>1, HeaderFollowed, KindFacts
<1>5. MjpegParts(n) = <<a, b, c>>
  BY DEF MjpegParts
<1> HIDE DEF a, b, c
<1>6. WellSent(<<a, b, c>>, Start(a), EndOf(c))
  BY <1>2, <1>3, <1>4, Three
<1> QED
  BY <1>2, <1>4, <1>5, <1>6

(* A frame below FieldSize keeps its length in the field.                  *)
LEMMA WsFollowed ==
    ASSUME NEW n \in Nat \ {0}, n < FieldSize
    PROVE  WellSent(WsParts(n), [kind |-> "wsHeader", n |-> 0], [kind |-> "wsHeader", n |-> 0])
<1> DEFINE size == IF n < ShortLimit THEN 2 ELSE 4
           a == Part("wsHeader", size, Expect("payload", n))
           b == Data("payload", n)
<1>1. n % FieldSize = n
  BY WireAssumption
<1>2. WsLength(n) = n
  BY <1>1 DEF WsLength
<1>3. size \in Nat \ {0} /\ Expect("payload", n) \in Expects
  BY ExpectType, KindFacts
<1>4. a \in Parts /\ Start(a) = [kind |-> "wsHeader", n |-> 0]
      /\ EndOf(a) = Expect("payload", n)
  BY <1>3, HeaderFollowed, KindFacts
<1>5. b \in Parts /\ Start(b) = Expect("payload", n)
      /\ EndOf(b) = [kind |-> "wsHeader", n |-> 0]
  BY DataFollowed, KindFacts
<1>6. WsParts(n) = <<a, b>>
  BY <1>2 DEF WsParts
<1> HIDE DEF a, b
<1>7. WellSent(<<a, b>>, Start(a), EndOf(b))
  BY <1>4, <1>5, Two
<1> QED
  BY <1>4, <1>5, <1>6, <1>7

LEMMA TextFollowed ==
    /\ WellSent(TextParts, [kind |-> "head", n |-> 0], [kind |-> "eof", n |-> 0])
    /\ TextParts[1].size = HeadSize
<1> DEFINE a == Part("head", HeadSize, Nothing)
<1>1. Nothing \in Expects /\ Nothing = [kind |-> "eof", n |-> 0]
  BY ExpectHeader, KindFacts DEF Nothing
<1>2. a \in Parts /\ a.size = HeadSize /\ Start(a) = [kind |-> "head", n |-> 0]
      /\ EndOf(a) = [kind |-> "eof", n |-> 0]
  BY <1>1, HeaderFollowed, KindFacts, WireAssumption
<1>3. TextParts = <<a>>
  BY DEF TextParts
<1> HIDE DEF a
<1> QED
  BY <1>2, <1>3, One

(* The head of a stream, and what it makes the client wait for.            *)
LEMMA HeadFollowed ==
    ASSUME NEW kind \in {"part", "wsHeader"}
    PROVE  LET s == <<Part("head", HeadSize, Expect(kind, 0))>>
           IN /\ WellSent(s, [kind |-> "head", n |-> 0], [kind |-> kind, n |-> 0])
              /\ s[1].size = HeadSize
<1> DEFINE a == Part("head", HeadSize, Expect(kind, 0))
<1>1. Expect(kind, 0) \in Expects /\ Expect(kind, 0) = [kind |-> kind, n |-> 0]
  BY ExpectHeader, KindFacts
<1>2. a \in Parts /\ a.size = HeadSize /\ Start(a) = [kind |-> "head", n |-> 0]
      /\ EndOf(a) = [kind |-> kind, n |-> 0]
  BY <1>1, HeaderFollowed, KindFacts, WireAssumption
<1> HIDE DEF a
<1>3. WellSent(<<a>>, Start(a), EndOf(a)) /\ <<a>>[1] = a
  BY <1>2, One
<1> QED
  BY <1>2, <1>3 DEF a

(* What Serve and NextFrame put up to be sent.                             *)
LEMMA FirstFollowed ==
    ASSUME NEW h \in OneShot \cup Streams, NEW n \in BodySizes
    PROVE  /\ FirstParts(h, n) = <<>> <=> h = "snapshot"
           /\ h # "snapshot" =>
                /\ WellSent(FirstParts(h, n), [kind |-> "head", n |-> 0],
                            IdleOf(h, h \notin Streams \cup {"snapshot"}))
                /\ FirstParts(h, n)[1].size = HeadSize
<1>1. n \in Nat \ {0}
  BY WireAssumption
<1>2. CASE h = "page"
  BY <1>1, <1>2, PageFollowed DEF FirstParts, IdleOf, WellSent
<1>3. CASE h \in {"answer", "switchFailed"}
  BY <1>1, <1>3, AnswerFollowed DEF FirstParts, IdleOf, WellSent
<1>4. CASE h = "text"
  BY <1>4, TextFollowed DEF FirstParts, IdleOf, WellSent
<1>5. CASE h = "mjpeg"
  BY <1>5, HeadFollowed DEF FirstParts, IdleOf
<1>6. CASE h = "ws"
  BY <1>6, HeadFollowed DEF FirstParts, IdleOf
<1>7. CASE h = "snapshot"
  BY <1>7 DEF FirstParts
<1> QED
  BY <1>2, <1>3, <1>4, <1>5, <1>6, <1>7 DEF OneShot, Streams

LEMMA FrameFollowed ==
    ASSUME NEW h \in Streams \cup {"snapshot"}, NEW n \in FrameSizes, n < FieldSize
    PROVE  WellSent(FrameParts(h, n), IdleOf(h, FALSE), IdleOf(h, h = "snapshot"))
<1>1. n \in Nat \ {0}
  BY WireAssumption
<1>2. CASE h = "mjpeg"
  BY <1>1, <1>2, MjpegFollowed DEF FrameParts, IdleOf
<1>3. CASE h = "ws"
  BY <1>1, <1>3, WsFollowed DEF FrameParts, IdleOf
<1>4. CASE h = "snapshot"
  BY <1>1, <1>4, AnswerFollowed DEF FrameParts, IdleOf
<1> QED
  BY <1>2, <1>3, <1>4 DEF Streams

(* Frames of any size are parts, only not ones a client can follow.        *)
LEMMA FrameType ==
    ASSUME NEW h \in Streams \cup {"snapshot"}, NEW n \in FrameSizes
    PROVE  FrameParts(h, n) \in Seq(Parts) /\ FrameParts(h, n) # <<>>
<1>1. n \in Nat \ {0}
  BY WireAssumption
<1>2. CASE h = "mjpeg"
  BY <1>1, <1>2, MjpegFollowed DEF FrameParts, WellSent
<1>3. CASE h = "ws"
  <2> DEFINE size == IF n < ShortLimit THEN 2 ELSE 4
             a == Part("wsHeader", size, Expect("payload", WsLength(n)))
             b == Data("payload", n)
  <2>1. WsLength(n) \in Nat
    BY <1>1, WireAssumption DEF WsLength
  <2>2. size \in Nat \ {0} /\ Expect("payload", WsLength(n)) \in Expects
    BY <2>1, ExpectType, KindFacts
  <2>3. a \in Parts /\ b \in Parts
    BY <1>1, <2>2, HeaderFollowed, DataFollowed, KindFacts
  <2>4. FrameParts(h, n) = <<a, b>>
    BY <1>3 DEF FrameParts, WsParts
  <2> HIDE DEF a, b
  <2> QED
    BY <2>3, <2>4
<1>4. CASE h = "snapshot"
  BY <1>1, <1>4, AnswerFollowed DEF FrameParts, WellSent
<1> QED
  BY <1>2, <1>3, <1>4 DEF Streams
-----------------------------------------------------------------------------
(* Type correctness.                                                       *)
LeftOK == left \in IF todo = <<>> THEN {0} ELSE 1 .. todo[1].size

LEMMA TodoFacts ==
    ASSUME TypeOK, todo # <<>>
    PROVE  /\ todo[1] \in Parts /\ Head(todo) = todo[1] /\ Len(todo) \in Nat /\ Len(todo) >= 1
           /\ todo[1].kind \in Kinds /\ todo[1].size \in Nat \ {0} /\ todo[1].tells \in Expects
           /\ left \in 1 .. todo[1].size /\ left \in Nat
<1>1. todo \in Seq(Parts) /\ Len(todo) \in Nat /\ Len(todo) # 0
  BY LenProperties, EmptySeq DEF TypeOK
<1>2. todo[1] \in Parts
  BY <1>1, ElementOfSeq
<1> QED
  BY <1>1, <1>2 DEF TypeOK, Parts, Expects

(* Going on with the next part.                                            *)
LEMMA NextPart ==
    ASSUME TypeOK, todo # <<>>
    PROVE  /\ Tail(todo) \in Seq(Parts)
           /\ Len(todo) = 1 => Tail(todo) = <<>> /\ NextLeft = 0
           /\ Len(todo) > 1 => /\ Tail(todo) # <<>> /\ Tail(todo)[1] = todo[2]
                               /\ NextLeft = todo[2].size /\ todo[2] \in Parts
           /\ NextLeft \in IF Tail(todo) = <<>> THEN {0} ELSE 1 .. Tail(todo)[1].size
<1> DEFINE t == Tail(todo)
<1>1. /\ t \in Seq(Parts) /\ Len(t) = Len(todo) - 1
      /\ \A i \in 1 .. Len(t) : t[i] = todo[i + 1]
  BY HeadTailProperties DEF TypeOK
<1>2. Len(todo) \in Nat /\ Len(todo) >= 1
  BY TodoFacts
<1>3. t = <<>> <=> Len(t) = 0
  BY <1>1, EmptySeq
<1> HIDE DEF t
<1>4. ASSUME Len(todo) = 1 PROVE t = <<>> /\ NextLeft = 0
  BY <1>1, <1>3, <1>4 DEF NextLeft
<1>5. ASSUME Len(todo) > 1
      PROVE  t # <<>> /\ t[1] = todo[2] /\ NextLeft = todo[2].size /\ todo[2] \in Parts
  <2>1. 1 \in 1 .. Len(t) /\ 2 \in 1 .. Len(todo)
    BY <1>1, <1>2, <1>5
  <2>2. todo[2] \in Parts
    BY <2>1, ElementOfSeq DEF TypeOK
  <2> QED
    BY <1>1, <1>3, <1>5, <2>1, <2>2 DEF NextLeft
<1>6. NextLeft \in IF t = <<>> THEN {0} ELSE 1 .. t[1].size
  <2>1. CASE Len(todo) = 1
    BY <1>4, <2>1
  <2>2. CASE Len(todo) > 1
    <3>1. todo[2].size \in Nat \ {0}
      BY <1>5, <2>2 DEF Parts
    <3>2. todo[2].size \in 1 .. todo[2].size
      BY <3>1
    <3> QED
      BY <1>5, <2>2, <3>2
  <2>3. Len(todo) = 1 \/ Len(todo) > 1
    <3> DEFINE n == Len(todo)
    <3>1. n \in Nat /\ n >= 1
      BY <1>2
    <3> HIDE DEF n
    <3>2. n = 1 \/ n > 1
      BY <3>1
    <3> QED
      BY <3>2 DEF n
  <2> QED
    BY <2>1, <2>2, <2>3
<1> QED
  BY <1>1, <1>4, <1>5, <1>6 DEF t

LEMMA ReadsType ==
    ASSUME TypeOK, todo # <<>>, NEW k \in 1 .. left, Reads(todo[1], k, k = left)
    PROVE  due' \in Expects /\ mid' \in BOOLEAN /\ inStep' \in BOOLEAN
<1> DEFINE p == todo[1]
<1>1. p.kind \in Kinds /\ p.tells \in Expects /\ left \in Nat
  BY TodoFacts
<1>2. due \in Expects /\ due.n \in Nat /\ mid \in BOOLEAN /\ inStep \in BOOLEAN
  BY DEF TypeOK, Expects
<1>3. inStep' \in BOOLEAN
  BY <1>2 DEF Reads
<1>4. CASE ~inStep'
  BY <1>2, <1>3, <1>4 DEF Reads
<1>5. CASE inStep' /\ p.kind \in Counted
  <2>1. k <= due.n /\ due' = Expect(p.kind, due.n - k) /\ mid' = mid
    BY <1>5 DEF Reads
  <2>2. due.n - k \in Nat
    BY <1>1, <1>2, <2>1
  <2> QED
    BY <1>1, <1>2, <1>3, <2>1, <2>2, ExpectType
<1>6. CASE inStep' /\ p.kind \notin Counted
  <2>1. mid' = ~(k = left) /\ due' \in {p.tells, due}
    BY <1>6 DEF Reads
  <2> QED
    BY <1>1, <1>2, <1>3, <2>1
<1> QED
  BY <1>3, <1>4, <1>5, <1>6

LEMMA ServeFacts ==
    ASSUME Serve
    PROVE  \E h \in OneShot \cup Streams, n \in BodySizes :
             /\ handler' = h /\ last' = (h \notin Streams \cup {"snapshot"})
             /\ gaveUp' \in BOOLEAN /\ key' \in Nat
             /\ todo' = IF gaveUp' THEN <<>> ELSE FirstParts(h, n)
             /\ left' = IF todo' = <<>> THEN 0 ELSE HeadSize
             /\ due' = [kind |-> "head", n |-> 0] /\ mid' = FALSE /\ inStep' = TRUE
             /\ open' = TRUE
             /\ gaveUp' => h = "ws"
<1>1. PICK h \in OneShot \cup Streams, n \in BodySizes :
         /\ handler' = h
         /\ key' \in IF h = "ws" THEN KeyLengths ELSE {0}
         /\ gaveUp' = (h = "ws" /\ ~KeyAccepted')
         /\ todo' = IF gaveUp' THEN <<>> ELSE FirstParts(h, n)
         /\ left' = IF todo' = <<>> THEN 0 ELSE HeadSize
         /\ last' = (h \notin Streams \cup {"snapshot"})
  BY DEF Serve
<1>2. key' \in Nat
  BY <1>1, WireAssumption
<1>3. gaveUp' \in BOOLEAN /\ (gaveUp' => h = "ws")
  BY <1>1
<1>4. due' = [kind |-> "head", n |-> 0] /\ mid' = FALSE /\ inStep' = TRUE /\ open' = TRUE
  BY ExpectHeader, KindFacts DEF Serve
<1> QED
  BY <1>1, <1>2, <1>3, <1>4

LEMMA TypeNext == TypeOK /\ FrameHandler /\ [Next]_vars => TypeOK'
<1> SUFFICES ASSUME TypeOK, FrameHandler, [Next]_vars PROVE TypeOK'
  OBVIOUS
<1> USE DEF Expects
<1>1. CASE Serve
  <2>1. PICK h \in OneShot \cup Streams, n \in BodySizes :
             /\ handler' = h /\ last' = (h \notin Streams \cup {"snapshot"})
             /\ gaveUp' \in BOOLEAN /\ key' \in Nat
             /\ todo' = IF gaveUp' THEN <<>> ELSE FirstParts(h, n)
             /\ left' = IF todo' = <<>> THEN 0 ELSE HeadSize
             /\ due' = [kind |-> "head", n |-> 0] /\ mid' = FALSE /\ inStep' = TRUE
             /\ open' = TRUE
    BY <1>1, ServeFacts
  <2>2. todo' \in Seq(Parts) /\ LeftOK'
    <3>1. CASE todo' = <<>>
      BY <2>1, <3>1, EmptySeq DEF LeftOK
    <3>2. CASE todo' # <<>>
      <4>1. todo' = FirstParts(h, n) /\ h # "snapshot" /\ left' = HeadSize
        BY <2>1, <3>2, FirstFollowed
      <4>2. todo' \in Seq(Parts) /\ todo'[1].size = HeadSize
        BY <4>1, FirstFollowed DEF WellSent
      <4>3. HeadSize \in 1 .. HeadSize
        BY WireAssumption
      <4> QED
        BY <3>2, <4>1, <4>2, <4>3 DEF LeftOK
    <3> QED
      BY <3>1, <3>2
  <2>3. due' \in [kind : Kinds, n : Nat]
    BY <2>1, KindFacts
  <2>4. last' \in BOOLEAN /\ open' \in BOOLEAN /\ mid' \in BOOLEAN /\ inStep' \in BOOLEAN
    BY <2>1
  <2> QED
    BY <2>1, <2>2, <2>3, <2>4 DEF TypeOK, LeftOK
<1>2. CASE NextFrame
  <2>1. handler \in Streams \cup {"snapshot"}
    BY <1>2 DEF NextFrame, FrameHandler
  <2>2. PICK n \in FrameSizes : todo' = FrameParts(handler, n)
    BY <1>2 DEF NextFrame
  <2>3. /\ left' = todo'[1].size /\ last' = (handler = "snapshot")
        /\ UNCHANGED <<handler, key, gaveUp, open, due, mid, inStep>>
    BY <1>2 DEF NextFrame
  <2>4. todo' \in Seq(Parts) /\ todo' # <<>>
    BY <2>1, <2>2, FrameType
  <2>5. todo'[1] \in Parts
    BY <2>4, LenProperties, EmptySeq, ElementOfSeq
  <2>6. todo'[1].size \in Nat \ {0}
    BY <2>5 DEF Parts
  <2>7. LeftOK'
    BY <2>3, <2>4, <2>6 DEF LeftOK
  <2>8. last' \in BOOLEAN
    BY <2>3
  <2> QED
    BY <2>3, <2>4, <2>7, <2>8 DEF TypeOK, LeftOK
<1>3. CASE NoFrame
  <2>1. last' = TRUE /\ UNCHANGED <<handler, key, gaveUp, open, due, mid, inStep>>
    BY <1>3 DEF NoFrame
  <2>2. todo' \in Seq(Parts) /\ LeftOK'
    <3>1. CASE handler = "snapshot"
      <4>1. todo' = TextParts /\ left' = HeadSize
        BY <1>3, <3>1 DEF NoFrame
      <4>2. todo' \in Seq(Parts) /\ todo' # <<>> /\ todo'[1].size = HeadSize
        BY <4>1, TextFollowed DEF WellSent
      <4>3. HeadSize \in 1 .. HeadSize
        BY WireAssumption
      <4> QED
        BY <4>1, <4>2, <4>3 DEF LeftOK
    <3>2. CASE handler # "snapshot"
      BY <1>3, <3>2 DEF NoFrame, LeftOK, TypeOK
    <3> QED
      BY <3>1, <3>2
  <2> QED
    BY <2>1, <2>2 DEF TypeOK, LeftOK
<1>4. CASE SendSome
  <2>1. todo # <<>> /\ UNCHANGED <<handler, key, last, gaveUp, open>>
    BY <1>4 DEF SendSome
  <2>2. PICK k \in 1 .. left :
           /\ Reads(todo[1], k, k = left)
           /\ IF k < left
              THEN left' = left - k /\ UNCHANGED todo
              ELSE todo' = Tail(todo) /\ left' = NextLeft
    BY <1>4, <2>1, TodoFacts DEF SendSome
  <2>3. due' \in Expects /\ mid' \in BOOLEAN /\ inStep' \in BOOLEAN
    BY <2>1, <2>2, ReadsType
  <2>4. todo' \in Seq(Parts) /\ LeftOK'
    <3>1. CASE k < left
      <4>1. left \in 1 .. todo[1].size /\ todo[1].size \in Nat
        BY <2>1, TodoFacts
      <4>2. left - k \in 1 .. todo[1].size
        BY <3>1, <4>1
      <4> QED
        BY <2>1, <2>2, <3>1, <4>2 DEF LeftOK, TypeOK
    <3>2. CASE ~(k < left)
      BY <2>1, <2>2, <3>2, NextPart DEF LeftOK
    <3> QED
      BY <3>1, <3>2
  <2> QED
    BY <2>1, <2>3, <2>4 DEF TypeOK, LeftOK
<1>5. CASE SendFails
  <2>1. /\ todo # <<>> /\ gaveUp' = TRUE
        /\ UNCHANGED <<handler, key, last, open, due, mid, inStep>>
    BY <1>5 DEF SendFails
  <2>2. todo' \in Seq(Parts) /\ LeftOK'
    <3>1. CASE Ignores
      BY <1>5, <2>1, <3>1, NextPart DEF SendFails, LeftOK
    <3>2. CASE ~Ignores
      BY <1>5, <3>2, EmptySeq DEF SendFails, LeftOK
    <3> QED
      BY <3>1, <3>2
  <2> QED
    BY <2>1, <2>2 DEF TypeOK, LeftOK
<1>6. CASE Close
  BY <1>6 DEF Close, TypeOK
<1>7. CASE UNCHANGED vars
  BY <1>7 DEF vars, TypeOK
<1> QED
  BY <1>1, <1>2, <1>3, <1>4, <1>5, <1>6, <1>7 DEF Next

LEMMA HandlerNext == FrameHandler /\ [Next]_vars => FrameHandler'
<1> SUFFICES ASSUME FrameHandler, [Next]_vars PROVE FrameHandler'
  OBVIOUS
<1>1. CASE Serve
  BY <1>1, ServeFacts DEF FrameHandler
<1>2. CASE NextFrame \/ NoFrame
  BY <1>2 DEF NextFrame, NoFrame, FrameHandler
<1>3. CASE SendSome \/ SendFails \/ Close \/ UNCHANGED vars
  BY <1>3 DEF SendSome, SendFails, Close, vars, FrameHandler
<1> QED
  BY <1>1, <1>2, <1>3 DEF Next

LEMMA TypeInit == Init => TypeOK /\ FrameHandler
<1> SUFFICES ASSUME Init PROVE TypeOK /\ FrameHandler
  OBVIOUS
<1>1. due \in [kind : Kinds, n : Nat]
  BY ExpectType, KindFacts DEF Init, Nothing, Expects
<1>2. todo \in Seq(Parts) /\ left \in IF todo = <<>> THEN {0} ELSE 1 .. todo[1].size
  BY EmptySeq DEF Init
<1>3. key \in Nat /\ handler \in OneShot \cup Streams \cup {"none"}
  BY DEF Init
<1>4. last \in BOOLEAN /\ gaveUp \in BOOLEAN /\ open \in BOOLEAN
      /\ mid \in BOOLEAN /\ inStep \in BOOLEAN
  BY DEF Init
<1> QED
  BY <1>1, <1>2, <1>3, <1>4 DEF Init, TypeOK, FrameHandler

(* The type invariant, for frames of any size.                             *)
THEOREM TypeCorrect == Spec => []TypeOK
<1>1. TypeOK /\ FrameHandler /\ [Next]_vars => TypeOK' /\ FrameHandler'
  BY TypeNext, HandlerNext
<1>2. Spec => [](TypeOK /\ FrameHandler)
  BY TypeInit, <1>1, PTL DEF Spec
<1> QED
  BY <1>2, PTL
-----------------------------------------------------------------------------
(* The client follows the handler, for frames below FieldSize.             *)
LEMMA InvInit == Init => IInv
<1> SUFFICES ASSUME Init PROVE IInv
  OBVIOUS
<1>1. due = [kind |-> "eof", n |-> 0]
  BY ExpectHeader, KindFacts DEF Init, Nothing
<1>2. IdleOf(handler, last) = [kind |-> "eof", n |-> 0]
  BY DEF Init, IdleOf
<1> QED
  BY <1>1, <1>2 DEF Init, IInv, SyncInv, GaveUpInv, ClosedInv

(* All of a part is left, and the client waits for it: what SyncInv says   *)
(* when a handler has just put up its parts.                               *)
LEMMA PutUp ==
    ASSUME NEW s, NEW first, NEW end, WellSent(s, first, end),
           NEW d, d = first, NEW l, l = s[1].size
    PROVE  /\ s # <<>> /\ WellSent(s, Start(s[1]), end)
           /\ d = [kind |-> s[1].kind, n |-> IF s[1].kind \in Counted THEN l ELSE 0]
           /\ ~(l < s[1].size)
<1>1. s \in Seq(Parts) /\ s # <<>> /\ Start(s[1]) = first
  BY DEF WellSent
<1>2. s[1] \in Parts
  BY <1>1, LenProperties, EmptySeq, ElementOfSeq
<1>3. s[1].size \in Nat
  BY <1>2 DEF Parts
<1>4. WellSent(s, Start(s[1]), end)
  BY <1>1
<1>5. ~(l < s[1].size)
  BY <1>3
<1> QED
  BY <1>1, <1>4, <1>5 DEF Start

LEMMA InvServe == Serve => IInv'
<1> SUFFICES ASSUME Serve PROVE IInv'
  OBVIOUS
<1>1. PICK h \in OneShot \cup Streams, n \in BodySizes :
             /\ handler' = h /\ last' = (h \notin Streams \cup {"snapshot"})
             /\ gaveUp' \in BOOLEAN /\ key' \in Nat
             /\ todo' = IF gaveUp' THEN <<>> ELSE FirstParts(h, n)
             /\ left' = IF todo' = <<>> THEN 0 ELSE HeadSize
             /\ due' = [kind |-> "head", n |-> 0] /\ mid' = FALSE /\ inStep' = TRUE
             /\ open' = TRUE
             /\ gaveUp' => h = "ws"
  BY ServeFacts
<1>2. SyncInv'
  <2> SUFFICES ASSUME ~gaveUp' PROVE SyncInv'
    BY DEF SyncInv
  <2>1. todo' = FirstParts(h, n)
    BY <1>1
  <2>2. CASE h = "snapshot"
    <3>1. todo' = <<>> /\ ~last'
      BY <1>1, <2>1, <2>2, FirstFollowed
    <3>2. IdleOf(handler', last') = [kind |-> "head", n |-> 0]
      BY <1>1, <2>2, <3>1 DEF IdleOf
    <3> QED
      BY <1>1, <3>1, <3>2 DEF SyncInv
  <2>3. CASE h # "snapshot"
    <3>1. /\ WellSent(todo', [kind |-> "head", n |-> 0], IdleOf(handler', last'))
          /\ todo'[1].size = HeadSize /\ todo' # <<>>
      BY <1>1, <2>1, <2>3, FirstFollowed
    <3>2. left' = todo'[1].size
      BY <1>1, <3>1
    <3> QED
      BY <1>1, <3>1, <3>2, PutUp DEF SyncInv
  <2> QED
    BY <2>2, <2>3
<1>3. GaveUpInv'
  BY <1>1 DEF GaveUpInv
<1>4. ClosedInv'
  BY <1>1, FirstFollowed DEF ClosedInv
<1> QED
  BY <1>2, <1>3, <1>4 DEF IInv

LEMMA InvNextFrame == IInv /\ Small /\ FrameHandler /\ NextFrame => IInv'
<1> SUFFICES ASSUME IInv, Small, FrameHandler, NextFrame PROVE IInv'
  OBVIOUS
<1>1. /\ handler \in Streams \cup {"snapshot"} /\ todo = <<>> /\ ~gaveUp /\ ~last /\ open
      /\ left' = todo'[1].size /\ last' = (handler = "snapshot")
      /\ UNCHANGED <<handler, key, gaveUp, open, due, mid, inStep>>
  BY DEF NextFrame, FrameHandler
<1>2. PICK n \in FrameSizes : todo' = FrameParts(handler, n)
  BY DEF NextFrame
<1>3. n < FieldSize
  BY DEF Small
<1>4. WellSent(todo', IdleOf(handler, FALSE), IdleOf(handler', last'))
  BY <1>1, <1>2, <1>3, FrameFollowed
<1>5. inStep /\ ~mid /\ due = IdleOf(handler, FALSE)
  BY <1>1 DEF IInv, SyncInv, IdleOf
<1>6. SyncInv'
  BY <1>1, <1>4, <1>5, PutUp DEF SyncInv
<1> QED
  BY <1>1, <1>6 DEF IInv, GaveUpInv, ClosedInv

LEMMA InvNoFrame == IInv /\ FrameHandler /\ NoFrame => IInv'
<1> SUFFICES ASSUME IInv, FrameHandler, NoFrame PROVE IInv'
  OBVIOUS
<1>1. /\ handler \in Streams \cup {"snapshot"} /\ todo = <<>> /\ ~gaveUp /\ ~last /\ open
      /\ last' = TRUE /\ UNCHANGED <<handler, key, gaveUp, open, due, mid, inStep>>
  BY DEF NoFrame, FrameHandler
<1>2. inStep /\ ~mid /\ due = IdleOf(handler, FALSE)
  BY <1>1 DEF IInv, SyncInv, IdleOf
<1>3. SyncInv'
  <2>1. CASE handler = "snapshot"
    <3>1. todo' = TextParts /\ left' = HeadSize
      BY <2>1 DEF NoFrame
    <3>2. IdleOf(handler, FALSE) = [kind |-> "head", n |-> 0]
          /\ IdleOf(handler', last') = [kind |-> "eof", n |-> 0]
      BY <1>1, <2>1 DEF IdleOf
    <3>3. WellSent(todo', IdleOf(handler, FALSE), IdleOf(handler', last'))
          /\ left' = todo'[1].size
      BY <3>1, <3>2, TextFollowed
    <3> QED
      BY <1>1, <1>2, <3>3, PutUp DEF SyncInv
  <2>2. CASE handler # "snapshot"
    <3>1. todo' = <<>>
      BY <1>1, <2>2 DEF NoFrame
    <3>2. IdleOf(handler', last') = IdleOf(handler, FALSE)
      BY <1>1, <2>2 DEF IdleOf, Streams
    <3> QED
      BY <1>1, <1>2, <3>1, <3>2 DEF SyncInv
  <2> QED
    BY <2>1, <2>2
<1> QED
  BY <1>1, <1>3 DEF IInv, GaveUpInv, ClosedInv

(* Bytes that are sent are bytes the client waits for.                     *)
LEMMA SyncSend ==
    ASSUME TypeOK, SyncInv, ~gaveUp, SendSome
    PROVE  SyncInv'
<1> DEFINE p == todo[1]
           idle == IdleOf(handler, last)
<1>1. todo # <<>> /\ UNCHANGED <<handler, key, last, gaveUp, open>>
  BY DEF SendSome
<1>2. PICK k \in 1 .. left :
           /\ Reads(p, k, k = left)
           /\ IF k < left
              THEN left' = left - k /\ UNCHANGED todo
              ELSE todo' = Tail(todo) /\ left' = NextLeft
  BY <1>1, TodoFacts DEF SendSome
<1>3. /\ p \in Parts /\ p.kind \in Kinds /\ p.size \in Nat \ {0} /\ p.tells \in Expects
      /\ left \in 1 .. p.size /\ left \in Nat /\ k \in Nat \ {0} /\ k <= left
  BY <1>1, TodoFacts
<1>4. /\ inStep /\ WellSent(todo, Start(p), idle)
      /\ due = [kind |-> p.kind, n |-> IF p.kind \in Counted THEN left ELSE 0]
      /\ mid <=> p.kind \notin Counted /\ left < p.size
  BY <1>1 DEF SyncInv
<1>5. mid \in BOOLEAN
  BY DEF TypeOK
<1>6. inStep'
  <2>1. due.kind = p.kind
    BY <1>4
  <2>2. p.kind \in Counted => k <= due.n
    BY <1>3, <1>4
  <2>3. p.kind \notin Counted => (left = p.size => ~mid)
    BY <1>3, <1>4
  <2> QED
    BY <1>2, <1>4, <2>1, <2>2, <2>3 DEF Reads
<1>7. /\ p.kind \in Counted => due' = Expect(p.kind, left - k) /\ mid' = mid /\ ~mid
      /\ p.kind \notin Counted => mid' = ~(k = left) /\ due' = IF k = left THEN p.tells ELSE due
  BY <1>2, <1>4, <1>6 DEF Reads
<1>8. CASE k < left
  <2>1. todo' = todo /\ left' = left - k /\ left - k \in Nat \ {0} /\ left - k < p.size
    BY <1>2, <1>3, <1>8
  <2>2. due' = [kind |-> p.kind, n |-> IF p.kind \in Counted THEN left' ELSE 0]
    <3>1. CASE p.kind \in Counted
      BY <1>3, <1>7, <2>1, <3>1, ExpectType
    <3>2. CASE p.kind \notin Counted
      BY <1>3, <1>4, <1>7, <1>8, <3>2
    <3> QED
      BY <3>1, <3>2
  <2>3. mid' <=> p.kind \notin Counted /\ left' < p.size
    <3>1. k # left /\ left' < p.size
      BY <1>3, <1>8, <2>1
    <3> HIDE DEF p
    <3>2. CASE p.kind \in Counted
      BY <1>7, <3>2
    <3>3. CASE p.kind \notin Counted
      BY <1>7, <3>1, <3>3
    <3> QED
      BY <3>2, <3>3
  <2> QED
    BY <1>1, <1>4, <1>6, <2>1, <2>2, <2>3 DEF SyncInv
<1>9. CASE ~(k < left)
  <2>1. k = left /\ todo' = Tail(todo) /\ left' = NextLeft
    BY <1>2, <1>3, <1>9
  <2>2. due' = EndOf(p) /\ ~mid'
    <3>1. CASE p.kind \in Counted
      <4>1. left - k = 0
        BY <1>3, <2>1
      <4> QED
        BY <1>3, <1>7, <3>1, <4>1, ExpectType DEF EndOf
    <3>2. CASE p.kind \notin Counted
      BY <1>7, <2>1, <3>2 DEF EndOf
    <3> QED
      BY <3>1, <3>2
  <2>3. CASE Len(todo) = 1
    <3>1. todo' = <<>> /\ due' = idle
      BY <1>4, <2>1, <2>2, <2>3, Rest
    <3> QED
      BY <1>1, <1>6, <2>2, <3>1 DEF SyncInv
  <2>4. CASE Len(todo) > 1
    <3>1. WellSent(todo', due', idle) /\ left' = todo'[1].size
      BY <1>1, <1>4, <2>1, <2>2, <2>4, Rest, NextPart
    <3> HIDE DEF idle
    <3>2. /\ todo' # <<>> /\ WellSent(todo', Start(todo'[1]), idle)
          /\ due' = [kind |-> todo'[1].kind,
                     n |-> IF todo'[1].kind \in Counted THEN left' ELSE 0]
          /\ ~(left' < todo'[1].size)
      BY <3>1, PutUp
    <3> QED
      BY <1>1, <1>6, <2>2, <3>2 DEF SyncInv, idle
  <2>5. Len(todo) = 1 \/ Len(todo) > 1
    <3> DEFINE n == Len(todo)
    <3>1. n \in Nat /\ n >= 1
      BY <1>1, TodoFacts
    <3> HIDE DEF n
    <3>2. n = 1 \/ n > 1
      BY <3>1
    <3> QED
      BY <3>2 DEF n
  <2> QED
    BY <2>3, <2>4, <2>5
<1> QED
  BY <1>8, <1>9

LEMMA InvSendSome == TypeOK /\ IInv /\ SendSome => IInv'
<1> SUFFICES ASSUME TypeOK, IInv, SendSome PROVE IInv'
  OBVIOUS
<1>1. open /\ todo # <<>> /\ UNCHANGED <<handler, key, last, gaveUp, open>>
  BY DEF SendSome
<1>2. SyncInv'
  BY <1>1, SyncSend DEF IInv, SyncInv
<1>3. GaveUpInv'
  BY <1>1 DEF IInv, GaveUpInv
<1>4. ClosedInv'
  BY <1>1 DEF IInv, ClosedInv
<1> QED
  BY <1>2, <1>3, <1>4 DEF IInv

LEMMA InvSendFails == IInv /\ SendFails => IInv'
<1> SUFFICES ASSUME IInv, SendFails PROVE IInv'
  OBVIOUS
<1>1. /\ open /\ todo # <<>> /\ gaveUp' = TRUE
      /\ UNCHANGED <<handler, key, last, open, due, mid, inStep>>
  BY DEF SendFails
<1>2. ASSUME handler # "switchFailed" PROVE todo' = <<>> /\ inStep
  BY <1>1, <1>2 DEF SendFails, Ignores, IInv, GaveUpInv, SyncInv
<1> QED
  BY <1>1, <1>2 DEF IInv, SyncInv, GaveUpInv, ClosedInv

LEMMA InvNext == TypeOK /\ FrameHandler /\ IInv /\ Small /\ [Next]_vars => IInv'
<1> SUFFICES ASSUME TypeOK, FrameHandler, IInv, Small, [Next]_vars PROVE IInv'
  OBVIOUS
<1>1. CASE Close
  BY <1>1 DEF Close, CloseReady, IInv, SyncInv, GaveUpInv, ClosedInv
<1>2. CASE UNCHANGED vars
  BY <1>2 DEF vars, IInv, SyncInv, GaveUpInv, ClosedInv
<1> QED
  BY <1>1, <1>2, InvServe, InvNextFrame, InvNoFrame, InvSendSome, InvSendFails DEF Next

(* Client and handler stay together: the inductive invariant.              *)
THEOREM Invariant == Small => (Spec => [](TypeOK /\ FrameHandler /\ IInv))
<1> SUFFICES ASSUME Small PROVE Spec => [](TypeOK /\ FrameHandler /\ IInv)
  OBVIOUS
<1>1. Init => TypeOK /\ FrameHandler /\ IInv
  BY TypeInit, InvInit
<1>2. TypeOK /\ FrameHandler /\ IInv /\ [Next]_vars => (TypeOK /\ FrameHandler /\ IInv)'
  BY TypeNext, HandlerNext, InvNext
<1> QED
  BY <1>1, <1>2, PTL DEF Spec

(* A client never takes bytes for something they are not, however the      *)
(* socket cuts them and wherever a send fails (http_sendall and every      *)
(* handler built on it).                                                   *)
THEOREM ClientsInStep == Spec => []InStep
<1>1. CASE Small
  <2>1. TypeOK /\ FrameHandler /\ IInv => InStep
    BY DEF TypeOK, IInv, SyncInv, GaveUpInv, InStep
  <2> QED
    BY <1>1, <2>1, Invariant, PTL
<1>2. CASE ~Small
  <2>1. InStep
    BY <1>2 DEF InStep, Small
  <2> QED
    BY <2>1, PTL
<1> QED
  BY <1>1, <1>2

(* Connections are closed with a whole response or between two frames.     *)
THEOREM ResponsesComplete == Small => (Spec => []Complete)
<1> SUFFICES ASSUME Small PROVE Spec => []Complete
  OBVIOUS
<1>1. TypeOK /\ FrameHandler /\ IInv => Complete
  <2> SUFFICES ASSUME IInv, ~open, ~gaveUp PROVE ~mid /\ due.kind \in {"eof", "part", "wsHeader"}
    BY DEF Complete
  <2>1. todo = <<>> /\ last
    BY DEF IInv, ClosedInv
  <2> QED
    BY <2>1 DEF IInv, SyncInv, IdleOf
<1> QED
  BY <1>1, Invariant, PTL

(* extract_ws_key keeps keys to 24 characters, so that what the handshake  *)
(* hashes fits its buffers and its padded blocks.                          *)
THEOREM HashInputFits == Spec => []HashFits
<1> DEFINE KeyInv == key \in 0 .. 24
<1>1. Init => KeyInv
  BY DEF Init
<1>2. KeyInv /\ [Next]_vars => KeyInv'
  <2> SUFFICES ASSUME KeyInv, [Next]_vars PROVE KeyInv'
    OBVIOUS
  <2>1. CASE Serve
    <3>1. key' \in KeyLengths \cup {0}
      BY <2>1 DEF Serve
    <3> QED
      BY <3>1, WireAssumption
  <2>2. CASE NextFrame \/ NoFrame \/ SendSome \/ SendFails \/ Close \/ UNCHANGED vars
    BY <2>2 DEF NextFrame, NoFrame, SendSome, SendFails, Close, vars
  <2> QED
    BY <2>1, <2>2 DEF Next
<1>3. KeyInv => HashFits
  BY DEF HashFits, HashInput, KeyAccepted, PadLen
<1> QED
  BY <1>1, <1>2, <1>3, PTL DEF Spec

(* Both together, the invariant of the run.                                *)
THEOREM TypesAndBuffers == Spec => []WireTypeOK
BY TypeCorrect, HashInputFits, PTL DEF WireTypeOK
=============================================================================
