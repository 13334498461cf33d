---------------------------- MODULE ExampleProofs -----------------------------
(***************************************************************************)
(* An upload that succeeds has uploaded the file, unless reading it failed *)
(* while it was copied, and the length announced for it is the length of   *)
(* what is sent, for files of any size and for any way of reading them.    *)
(***************************************************************************)
EXTENDS Example, FiniteSetTheorems, SequenceTheorems, TLAPS

HasMedia == Source # NoMedia

\* From the moment the reader is measured to the answer of the server.
Uploading == HasMedia /\ do \in {"sniff", "expand", "send", "transmit", "answer"}

Token == {Frame(f) : f \in Framing} \cup {Byte(n) : n \in 1..MaxSize}

\* The call, and what is known before its body is written.
CallOK ==
    /\ call = NoCall \/ call \in Calls
    /\ sent \in Seq(Token)
    /\ extra \in Nat
    /\ do = "idle" => call = NoCall
    /\ do \in {"idle", "measure"} => ~resized
    /\ do \in {"idle", "measure", "sniff"} => writer = "off" /\ sent = <<>> /\ extra = 0
    /\ do = "sniff" => HasMedia /\ (media.direct => media.front = <<>>)
    /\ do = "transmit" => HasMedia
    /\ do = "measure" => HasMedia /\ pos = Source.start /\ size = Source.size
    /\ HasMedia => whole = [i \in 1..(Source.size - Source.start) |-> Source.start + i]
    /\ do \notin {"broken", "done"} => result = "none"
    /\ do = "broken" => result = "broken"

(***************************************************************************)
(* The body as it grows: three frames, the bytes from where the reader     *)
(* stood, then `last' tokens that are no bytes.                            *)
(***************************************************************************)
BytesUntil(last) ==
    /\ Len(sent) >= 3 + last
    /\ \A i \in 4..(Len(sent) - last) : sent[i] = Byte(Source.start + (i - 3))

Body ==
    /\ writer \in {"off", "json header"} => sent = <<>>
    /\ writer = "json" => Len(sent) = 1
    /\ writer = "media header" => Len(sent) = 2
    /\ writer \in {"media", "boundary"} => BytesUntil(0)
    /\ writer \in {"close", "ended"} => BytesUntil(1)

\* How many bytes of the media have been sent.
Passed == IF writer = "media" THEN Len(sent) - 3 ELSE 0

\* What comes next is what was not sent yet.
Ahead ==
    writer \notin {"boundary", "close", "ended"} =>
        /\ \A j \in DOMAIN media.front : media.front[j] = Source.start + Passed + j
        /\ media.direct => pos = Source.start + Passed + Len(media.front)

\* As long as nothing had to be thrown away.
InLine == Uploading /\ extra = 0 => Body /\ Ahead

Announced ==
    Uploading =>
        /\ announced >= 4
        /\ ~media.fails => announced = 4 + (Source.size - Source.start)

Complete == do = "answer" /\ HasMedia => writer = "ended" /\ Len(sent) = announced /\ extra = 0

FramesLeft ==
    CASE writer \in {"off", "json header"} -> 4
      [] writer = "json"                   -> 3
      [] writer = "media header"           -> 2
      [] writer \in {"media", "boundary"}  -> 1
      [] OTHER                             -> 0

BytesLeft ==
    IF writer \in {"boundary", "close", "ended"} THEN 0
    ELSE Len(media.front) + (IF media.direct THEN size - pos ELSE 0)

Left == FramesLeft + BytesLeft

(***************************************************************************)
(* Nothing happened to the file: what was sent and what is left is what    *)
(* was announced.                                                          *)
(***************************************************************************)
Undisturbed == ~resized /\ Source.failsAt = 0 /\ Source.seek # "stuck"

Exact ==
    Uploading /\ Undisturbed =>
        /\ extra = 0
        /\ pos <= size
        /\ Len(sent) + Left = announced

IInv ==
    /\ TypeOK
    /\ CallOK
    /\ InLine
    /\ Announced
    /\ Complete
    /\ Exact
    /\ WholeMedia
    /\ LengthsAgree

-----------------------------------------------------------------------------
LEMMA OneMore ==
    ASSUME NEW S, NEW x, NEW T, IsFiniteSet(S), x \notin S, T = S \cup {x}
    PROVE  IsFiniteSet(T) /\ Cardinality(T) = Cardinality(S) + 1
  BY FS_AddElement

LEMMA FramingSize == Cardinality(Framing) = 4
  <1> DEFINE none == {}  one == {"json header"}  two == {"json header", "json"}
             three == {"json header", "json", "media header"}
  <1>1. Cardinality(none) = 0 /\ IsFiniteSet(none)
    BY FS_EmptySet
  <1>2. "json header" \notin none /\ one = none \cup {"json header"}
    OBVIOUS
  <1>3. "json" \notin one /\ two = one \cup {"json"}
    OBVIOUS
  <1>4. "media header" \notin two /\ three = two \cup {"media header"}
    OBVIOUS
  <1>5. "boundary" \notin three /\ Framing = three \cup {"boundary"}
    BY DEF Framing
  <1> HIDE DEF none, one, two, three
  <1>6. Cardinality(one) = Cardinality(none) + 1 /\ IsFiniteSet(one)
    BY <1>1, <1>2, OneMore, Zenon
  <1>7. Cardinality(two) = Cardinality(one) + 1 /\ IsFiniteSet(two)
    BY <1>3, <1>6, OneMore, Zenon
  <1>8. Cardinality(three) = Cardinality(two) + 1 /\ IsFiniteSet(three)
    BY <1>4, <1>7, OneMore, Zenon
  <1>9. Cardinality(Framing) = Cardinality(three) + 1
    BY <1>5, <1>8, OneMore, Zenon
  <1> QED
    BY <1>1, <1>6, <1>7, <1>8, <1>9

LEMMA NoCallHasNoMedia == NoCall.source = NoMedia
  BY DEF NoCall

\* The reader of a call is what the constants allow.
LEMMA SourceType ==
    ASSUME CallOK, HasMedia
    PROVE  /\ Source \in MediaSource
           /\ Source.start \in Nat /\ Source.size \in 0..MaxSize /\ Source.start <= Source.size
           /\ Source.failsAt \in Nat
           /\ MaxSize \in Nat
  <1>1. call \in Calls
    BY NoCallHasNoMedia DEF CallOK, HasMedia, Source
  <1> QED
    BY <1>1, CallsAssumption DEF HasMedia, Source, MediaSource

\* What can be read is what follows, up to the end of the file or to a failure.
LEMMA ReadableBytes ==
    ASSUME CallOK, HasMedia, size \in 0..MaxSize, NEW a \in 0..MaxSize
    PROVE  /\ Readable(a) \in Seq(1..MaxSize)
           /\ \A i \in 1..Len(Readable(a)) : Readable(a)[i] \in 1..MaxSize /\ Readable(a)[i] = a + i
           /\ Len(Readable(a)) \in Nat
           /\ a + Len(Readable(a)) <= MaxSize
           /\ ~FailsBefore(size) => Len(Readable(a)) = IF size > a THEN size - a ELSE 0
           /\ Readable(a) # <<>> => Len(Readable(a)) > 0 /\ a < MaxSize
           /\ Readable(a) = <<>> => Len(Readable(a)) = 0
  <1> DEFINE last == IF FailsBefore(size) THEN Source.failsAt - 1 ELSE size
             n == IF last > a THEN last - a ELSE 0
  <1>1. last \in Nat /\ last <= size /\ (~FailsBefore(size) => last = size)
    BY SourceType DEF FailsBefore
  <1>2. n \in Nat /\ a + n <= MaxSize
    BY <1>1, SourceType
  <1>3. Readable(a) = [i \in 1..n |-> a + i]
    BY DEF Readable
  <1> HIDE DEF last
  <1>4. \A i \in 1..n : a + i \in 1..MaxSize
    BY <1>2, SourceType
  <1> HIDE DEF n
  <1>5. Readable(a) \in Seq(1..MaxSize) /\ Len(Readable(a)) = n
    BY <1>2, <1>3, <1>4
  <1>6. \A i \in 1..n : Readable(a)[i] \in 1..MaxSize /\ Readable(a)[i] = a + i
    BY <1>3, <1>4
  <1>7. ~FailsBefore(size) => n = IF size > a THEN size - a ELSE 0
    BY <1>1 DEF n
  <1>8. Readable(a) # <<>> <=> n > 0
    BY <1>2, <1>5
  <1> QED
    BY <1>2, <1>5, <1>6, <1>7, <1>8, SourceType

LEMMA InitIInv == Init => IInv
  <1> SUFFICES ASSUME Init PROVE IInv
    OBVIOUS
  <1> USE DEF Init, LoginInit, CallInit
  <1>1. ~HasMedia
    BY NoCallHasNoMedia DEF HasMedia, Source
  <1>2. TypeOK
    <2>1. MaxSize \in Nat
      BY CallsAssumption
    <2>2. media \in [front: Seq(1..MaxSize), direct: BOOLEAN, fails: BOOLEAN]
      OBVIOUS
    <2>3. handler \in [Request -> {"none", "sending", "returned"}]
      OBVIOUS
    <2>4. pos \in 0..MaxSize /\ size \in 0..MaxSize /\ announced \in 0..(MaxSize + 4) /\ Len(sent) <= announced
      BY <2>1
    <2> QED
      BY <2>2, <2>3, <2>4, FramingSize DEF TypeOK, Framing
  <1>3. CallOK
    BY <1>1 DEF CallOK
  <1> QED
    BY <1>1, <1>2, <1>3 DEF IInv, InLine, Announced, Complete, Exact, Uploading, WholeMedia, LengthsAgree

\* The login touches nothing of the call.
LEMMA LoginKeeps ==
    ASSUME IInv, LoginNext, UNCHANGED callVars
    PROVE  IInv'
  <1> USE DEF callVars
  <1>1. TypeOK'
    <2>1. /\ main' \in {"start", "listen", "exchange", "close", "save", "client", "exit"}
          /\ handler' \in [Request -> {"none", "sending", "returned"}]
          /\ code' \in Request \cup {NoCode}
          /\ file' \in {"none", "unreadable", "token"}
      BY DEF IInv, TypeOK, LoginNext, LoginStep, Serve, TokenFromFile, Listen, Exchange, Close, SaveToken, Receive
    <2> QED
      BY <2>1 DEF IInv, TypeOK
  <1>2. CallOK'
    BY DEF IInv, CallOK, HasMedia, Source
  <1>3. InLine'
    BY DEF IInv, InLine, Uploading, HasMedia, Source, Body, BytesUntil, Ahead, Passed
  <1>4. Announced' /\ Complete'
    BY DEF IInv, Announced, Complete, Uploading, HasMedia, Source
  <1>5. Exact'
    BY DEF IInv, Exact, Undisturbed, Uploading, HasMedia, Source, Left, FramesLeft, BytesLeft
  <1>6. WholeMedia' /\ LengthsAgree'
    BY DEF IInv, WholeMedia, LengthsAgree, MediaPart
  <1> QED
    BY <1>1, <1>2, <1>3, <1>4, <1>5, <1>6 DEF IInv

-----------------------------------------------------------------------------
(* The caller.                                                             *)

\* A step that sends nothing and reads nothing.
LEMMA NothingSent ==
    ASSUME IInv, UNCHANGED <<call, pos, size, whole, resized, media, announced, sent, extra>>,
           writer' = writer \/ (writer = "close" /\ writer' = "ended"),
           Uploading' => Uploading
    PROVE  InLine' /\ Announced' /\ Exact'
  <1>1. InLine'
    BY DEF IInv, InLine, Uploading, HasMedia, Source, Body, BytesUntil, Ahead, Passed
  <1>2. Announced'
    BY DEF IInv, Announced, Uploading, HasMedia, Source
  <1>3. Left' = Left
    BY DEF Left, FramesLeft, BytesLeft
  <1>4. Exact'
    BY <1>3 DEF IInv, Exact, Undisturbed, Uploading, HasMedia, Source
  <1> QED
    BY <1>1, <1>2, <1>4

LEMMA StartDoKeeps ==
    ASSUME IInv, StartDo, UNCHANGED loginVars
    PROVE  IInv'
  <1> USE DEF StartDo, loginVars
  <1>1. do = "idle" /\ writer = "off" /\ sent = <<>> /\ extra = 0 /\ ~resized /\ result = "none"
    BY DEF IInv, CallOK
  <1>2. call' \in Calls /\ do' \in {"measure", "expand"}
    OBVIOUS
  <1>3. HasMedia' <=> call'.source # NoMedia
    BY DEF HasMedia, Source
  <1>4. HasMedia' => /\ Source'.size \in 0..MaxSize /\ Source'.start \in Nat
                     /\ Source'.start <= Source'.size
    BY <1>2, <1>3, CallsAssumption DEF Source, MediaSource
  <1>5. HasMedia' => /\ do' = "measure" /\ pos' = Source'.start /\ size' = Source'.size
                     /\ whole' = [i \in 1..(Source'.size - Source'.start) |-> Source'.start + i]
    BY <1>3 DEF Source
  <1>6. ~HasMedia' => do' = "expand" /\ UNCHANGED <<pos, size>>
    BY <1>3
  <1>7. pos' \in 0..MaxSize /\ size' \in 0..MaxSize
    BY <1>4, <1>5, <1>6, CallsAssumption DEF IInv, TypeOK
  <1>8. TypeOK'
    BY <1>2, <1>7 DEF IInv, TypeOK
  <1>9. CallOK'
    BY <1>1, <1>2, <1>5, <1>6 DEF IInv, CallOK
  <1>10. ~Uploading'
    BY <1>5, <1>6 DEF Uploading
  <1>11. InLine' /\ Announced' /\ Complete' /\ Exact' /\ WholeMedia' /\ LengthsAgree'
    BY <1>1, <1>2, <1>10 DEF InLine, Announced, Complete, Exact, WholeMedia, LengthsAgree
  <1> QED
    BY <1>8, <1>9, <1>11 DEF IInv

\* What the three ways of measuring have in common.
MeasureOf(length, front, direct, fails) ==
    /\ do = "measure"
    /\ Measured(length, front, direct, fails)
    /\ UNCHANGED <<call, path, size, whole, resized, writer, sent, extra, result>>
    /\ length \in 0..MaxSize
    /\ front \in Seq(1..MaxSize) /\ \A j \in 1..Len(front) : front[j] = pos + j
    /\ pos' \in 0..MaxSize
    /\ direct => front = <<>> /\ pos' = pos
    /\ ~fails => length = size - pos
    /\ Source.failsAt = 0 /\ Source.seek # "stuck" =>
           pos' <= size /\ length = Len(front) + (IF direct THEN size - pos' ELSE 0)

LEMMA MeasuredKeeps ==
    ASSUME IInv, UNCHANGED loginVars,
           NEW length, NEW front, NEW direct \in BOOLEAN, NEW fails \in BOOLEAN,
           MeasureOf(length, front, direct, fails)
    PROVE  IInv'
  <1> USE DEF MeasureOf, Measured, loginVars
  <1>1. /\ HasMedia /\ pos = Source.start /\ size = Source.size /\ pos \in 0..MaxSize /\ size \in 0..MaxSize
        /\ writer = "off" /\ sent = <<>> /\ extra = 0 /\ result = "none" /\ ~resized
    BY DEF IInv, CallOK, TypeOK
  <1>2. do' = "sniff" /\ Source' = Source /\ HasMedia' /\ announced' = 4 + length
    BY <1>1, FramingSize DEF Source, HasMedia
  <1>3. media'.front = front /\ media'.direct = direct /\ media'.fails = fails
    OBVIOUS
  <1>4. media' \in [front: Seq(1..MaxSize), direct: BOOLEAN, fails: BOOLEAN]
    OBVIOUS
  <1>5. announced' \in 0..(MaxSize + 4) /\ Len(sent') <= announced'
    BY <1>1, <1>2, CallsAssumption
  <1>6. TypeOK'
    BY <1>2, <1>4, <1>5, FramingSize DEF IInv, TypeOK
  <1>7. CallOK'
    BY <1>1, <1>2, <1>3 DEF IInv, CallOK
  <1>8. InLine'
    <2>1. Passed' = 0 /\ Source.start \in Nat
      BY <1>1, SourceType DEF IInv, Passed
    <2>2. Ahead'
      <3>1. /\ front \in Seq(1..MaxSize) /\ DOMAIN front = 1..Len(front)
            /\ \A j \in 1..Len(front) : front[j] = pos + j
        OBVIOUS
      <3>2. direct => Len(front) = 0 /\ pos' = Source.start + 0 + Len(front)
        BY <1>1, <2>1
      <3> HIDE DEF MeasureOf, Measured
      <3>3. pos = Source.start + 0
        BY <1>1, <2>1
      <3>4. \A j \in DOMAIN front : front[j] = Source.start + 0 + j
        BY <3>1, <3>3
      <3> QED
        BY <1>2, <1>3, <2>1, <3>2, <3>4 DEF Ahead
    <2>3. Body'
      BY <1>1 DEF Body
    <2> QED
      BY <2>2, <2>3 DEF InLine
  <1>9. Announced'
    BY <1>1, <1>2, <1>3, CallsAssumption DEF Announced
  <1>10. Exact'
    <2>1. FramesLeft' = 4 /\ BytesLeft' = Len(front) + (IF direct THEN size - pos' ELSE 0)
      BY <1>1, <1>3 DEF FramesLeft, BytesLeft
    <2>5. Undisturbed' => Source.failsAt = 0 /\ Source.seek # "stuck"
      BY <1>2 DEF Undisturbed
    <2>3. Len(sent') = 0 /\ extra' = 0 /\ size' = size
      BY <1>1
    <2>4. Source.failsAt = 0 /\ Source.seek # "stuck" =>
              pos' <= size /\ length = Len(front) + (IF direct THEN size - pos' ELSE 0)
      OBVIOUS
    <2>6. Source.failsAt = 0 /\ Source.seek # "stuck" => Left' = 4 + length /\ Len(sent') + Left' = 4 + length
      BY <2>1, <2>3, <2>4 DEF Left
    <2> HIDE DEF MeasureOf, Measured
    <2> QED
      BY <1>2, <2>1, <2>3, <2>4, <2>5, <2>6 DEF Exact
  <1>11. Complete' /\ WholeMedia' /\ LengthsAgree'
    BY <1>1, <1>2 DEF Complete, WholeMedia, LengthsAgree
  <1> QED
    BY <1>6, <1>7, <1>8, <1>9, <1>10, <1>11 DEF IInv

LEMMA MeasureKeeps ==
    ASSUME IInv, Measure \/ MeasureStuck \/ MeasureByCopy, UNCHANGED loginVars
    PROVE  IInv'
  <1>1. /\ HasMedia /\ pos = Source.start /\ size = Source.size /\ pos <= size
        /\ pos \in 0..MaxSize /\ size \in 0..MaxSize /\ MaxSize \in Nat
    <2>1. CallOK /\ HasMedia /\ pos = Source.start /\ size = Source.size
      BY DEF IInv, CallOK, Measure, MeasureStuck, MeasureByCopy
    <2> QED
      BY <2>1, SourceType DEF IInv, TypeOK
  <1>2. size - pos \in 0..MaxSize /\ <<>> \in Seq(1..MaxSize) /\ Len(<<>>) = 0 /\ DOMAIN <<>> = {}
    BY <1>1
  <1>3. CASE Measure
    <2>1. MeasureOf(size - pos, <<>>, TRUE, FALSE)
      <3>1. \A j \in 1..Len(<<>>) : <<>>[j] = pos + j
        BY <1>2
      <3>2. pos' = pos /\ pos' \in 0..MaxSize
        BY <1>1, <1>3 DEF Measure
      <3>3. pos' <= size /\ size - pos = Len(<<>>) + (size - pos')
        BY <1>1, <1>2, <3>2
      <3> QED
        BY <1>2, <1>3, <3>1, <3>2, <3>3 DEF Measure, MeasureOf
    <2> QED
      BY <2>1, MeasuredKeeps
  <1>4. CASE MeasureStuck
    <2>1. MeasureOf(size - pos, <<>>, FALSE, TRUE)
      <3>1. \A j \in 1..Len(<<>>) : <<>>[j] = pos + j
        BY <1>2
      <3>2. pos' = pos /\ pos' \in 0..MaxSize
        BY <1>1, <1>4 DEF MeasureStuck
      <3> QED
        BY <1>2, <1>4, <3>1, <3>2 DEF MeasureStuck, MeasureOf
    <2> QED
      BY <2>1, MeasuredKeeps
  <1>5. CASE MeasureByCopy
    <2> DEFINE front == Readable(pos)
    <2>1. /\ front \in Seq(1..MaxSize) /\ \A i \in 1..Len(front) : front[i] = pos + i
          /\ Len(front) \in 0..MaxSize /\ pos + Len(front) \in 0..MaxSize
          /\ ~FailsBefore(size) => Len(front) = size - pos
      <3>1. /\ Readable(pos) \in Seq(1..MaxSize)
            /\ \A i \in 1..Len(Readable(pos)) : Readable(pos)[i] = pos + i
            /\ Len(Readable(pos)) \in Nat
            /\ pos + Len(Readable(pos)) <= MaxSize
            /\ ~FailsBefore(size) => Len(Readable(pos)) = IF size > pos THEN size - pos ELSE 0
        BY <1>1, ReadableBytes DEF IInv
      <3>2. DOMAIN front = 1..Len(front)
        BY <3>1
      <3> HIDE DEF front
      <3> QED
        BY <1>1, <3>1, <3>2 DEF front
    <2>2. FailsBefore(size + 1) \in BOOLEAN
      BY DEF FailsBefore
    <2>3. /\ ~FailsBefore(size + 1) => ~FailsBefore(size)
          /\ Source.failsAt = 0 => ~FailsBefore(size)
      BY <1>1, SourceType DEF FailsBefore, IInv
    <2>4. /\ do = "measure" /\ Measured(Len(front), front, FALSE, FailsBefore(size + 1))
          /\ pos' = pos + Len(front)
          /\ UNCHANGED <<call, path, size, whole, resized, writer, sent, extra, result>>
      BY <1>5 DEF MeasureByCopy
    <2> HIDE DEF front
    <2>5. Source.failsAt = 0 => pos' <= size
      BY <1>1, <2>1, <2>3, <2>4
    <2>6. MeasureOf(Len(front), front, FALSE, FailsBefore(size + 1))
      <3>1. Source.failsAt = 0 => Len(front) = Len(front) + 0 /\ pos' <= size
        BY <2>1, <2>5
      <3>2. ~FailsBefore(size + 1) => Len(front) = size - pos
        BY <2>1, <2>3
      <3>3. pos' \in 0..MaxSize
        BY <2>1, <2>4
      <3> QED
        BY <2>1, <2>4, <3>1, <3>2, <3>3 DEF MeasureOf
    <2> QED
      BY <2>2, <2>6, MeasuredKeeps
  <1> QED
    BY <1>3, <1>4, <1>5

LEMMA SniffKeeps ==
    ASSUME IInv, Sniff, UNCHANGED loginVars
    PROVE  IInv'
  <1>1. /\ do = "sniff" /\ HasMedia /\ writer = "off" /\ sent = <<>> /\ extra = 0 /\ Uploading
        /\ media \in [front: Seq(1..MaxSize), direct: BOOLEAN, fails: BOOLEAN]
        /\ media.direct => media.front = <<>>
        /\ pos \in 0..MaxSize /\ size \in 0..MaxSize
        /\ result = "none"
    BY DEF IInv, CallOK, TypeOK, Sniff, Uploading
  <1>2. /\ do' = "expand" /\ writer' = "json header" /\ sent' = <<>> /\ extra' = 0 /\ Uploading'
        /\ Source' = Source /\ HasMedia'
        /\ UNCHANGED <<call, path, size, whole, resized, announced, sent, extra, result>>
        /\ UNCHANGED <<main, handler, code, file>>
    BY <1>1 DEF Sniff, loginVars, Uploading, Source, HasMedia
  <1> DEFINE AfterSniff ==
        /\ media' \in [front: Seq(1..MaxSize), direct: BOOLEAN, fails: BOOLEAN]
        /\ media'.direct = media.direct /\ media'.fails = media.fails
        /\ pos' \in 0..MaxSize
        /\ \A j \in DOMAIN media'.front : media'.front[j] = Source.start + j
        /\ media'.direct => pos' = Source.start + Len(media'.front)
        /\ Source.failsAt = 0 /\ pos <= size => pos' <= size
        /\ Len(media'.front) - Len(media.front) = pos' - pos
        /\ ~media.direct => UNCHANGED <<media, pos>>
  <1>3. AfterSniff
    <2>1. /\ \A j \in DOMAIN media.front : media.front[j] = Source.start + j
          /\ media.direct => pos = Source.start + Len(media.front)
      BY <1>1, SourceType DEF IInv, InLine, Ahead, Passed
    <2>2. CASE UNCHANGED <<media, pos>>
      BY <1>1, <2>1, <2>2
    <2>3. ASSUME media.direct, NEW n \in 0..SniffLen, n <= Len(Readable(pos)), pos' = pos + n,
                 media' = [media EXCEPT !.front = SubSeq(Readable(pos), 1, n)]
          PROVE  AfterSniff
      <3>1. n \in Nat /\ pos + n <= MaxSize /\ Source.start = pos /\ Len(media.front) = 0
        BY <1>1, <2>1, <2>3, CallsAssumption, ReadableBytes, SourceType DEF IInv
      <3>2. /\ \A i \in 1..n : Readable(pos)[i] \in 1..MaxSize /\ Readable(pos)[i] = pos + i
            /\ Source.failsAt = 0 => Len(Readable(pos)) = IF size > pos THEN size - pos ELSE 0
        <4>1. /\ Readable(pos) \in Seq(1..MaxSize)
              /\ \A i \in 1..Len(Readable(pos)) :
                    Readable(pos)[i] \in 1..MaxSize /\ Readable(pos)[i] = pos + i
              /\ Len(Readable(pos)) \in Nat
              /\ ~FailsBefore(size) => Len(Readable(pos)) = IF size > pos THEN size - pos ELSE 0
          BY <1>1, ReadableBytes DEF IInv
        <4>2. Source.failsAt = 0 => ~FailsBefore(size)
          BY DEF FailsBefore
        <4>3. \A i \in 1..n : i \in 1..Len(Readable(pos))
          BY <2>3, <3>1, <4>1
        <4> QED
          BY <2>3, <3>1, <4>1, <4>2, <4>3
      <3> DEFINE front == SubSeq(Readable(pos), 1, n)
      <3>3. front \in Seq(1..MaxSize) /\ Len(front) = n /\ \A i \in 1..n : front[i] = pos + i
        <4>1. /\ front \in Seq(1..MaxSize)
              /\ Len(front) = IF 1 <= n THEN n - 1 + 1 ELSE 0
              /\ \A i \in 1..(n - 1 + 1) : front[i] = Readable(pos)[1 + i - 1]
          BY <3>1, <3>2, SubSeqProperties
        <4> HIDE DEF front
        <4> QED
          BY <3>1, <3>2, <4>1
      <3>4. media'.front = front /\ media'.direct = media.direct /\ media'.fails = media.fails
        BY <1>1, <2>3
      <3>5. media' \in [front: Seq(1..MaxSize), direct: BOOLEAN, fails: BOOLEAN]
        BY <1>1, <2>3, <3>3
      <3> HIDE DEF front
      <3> QED
        <4>1. DOMAIN media'.front = 1..n /\ Len(media'.front) = n
          BY <3>3, <3>4
        <4>2. pos' \in 0..MaxSize /\ pos' = Source.start + n
          BY <1>1, <2>3, <3>1
        <4>3. Source.failsAt = 0 /\ pos <= size => pos' <= size
          BY <1>1, <2>3, <3>1, <3>2
        <4>4. Len(media'.front) - Len(media.front) = pos' - pos
          BY <1>1, <2>3, <3>1, <4>1
        <4> QED
          BY <2>3, <3>1, <3>3, <3>4, <3>5, <4>1, <4>2, <4>3, <4>4
    <2> QED
      BY <2>2, <2>3 DEF Sniff
  <1>4. TypeOK'
    BY <1>2, <1>3, FramingSize DEF IInv, TypeOK, Framing
  <1>5. CallOK'
    BY <1>1, <1>2 DEF IInv, CallOK
  <1>6. InLine'
    <2>1. Passed' = 0 /\ Source.start \in Nat
      BY <1>1, <1>2, SourceType DEF IInv, Passed
    <2>2. Ahead'
      <3>1. DOMAIN media'.front \subseteq Nat /\ Len(media'.front) \in Nat
        BY <1>3
      <3>2. Source.start + 0 = Source.start
        BY <2>1
      <3>3. \A j \in DOMAIN media'.front : media'.front[j] = Source.start + 0 + j
        BY <1>3, <3>2
      <3>4. media'.direct => pos' = Source.start + 0 + Len(media'.front)
        BY <1>3, <3>2
      <3> HIDE DEF AfterSniff
      <3> QED
        BY <1>2, <2>1, <3>3, <3>4 DEF Ahead
    <2>3. Body'
      BY <1>2 DEF Body
    <2> QED
      BY <2>2, <2>3 DEF InLine
  <1>7. Announced'
    BY <1>1, <1>2, <1>3 DEF IInv, Announced
  <1>8. Exact'
    <2>1. FramesLeft = 4 /\ FramesLeft' = 4
      BY <1>1, <1>2 DEF FramesLeft
    <2>2. Len(media.front) \in Nat /\ Len(media'.front) \in Nat
      BY <1>1, <1>3
    <2>3. BytesLeft' = BytesLeft
      <3>1. BytesLeft = Len(media.front) + (IF media.direct THEN size - pos ELSE 0)
        BY <1>1 DEF BytesLeft
      <3>2. BytesLeft' = Len(media'.front) + (IF media.direct THEN size - pos' ELSE 0)
        BY <1>2, <1>3 DEF BytesLeft
      <3>3. CASE media.direct
        <4>1. pos \in Nat /\ pos' \in Nat /\ size \in Nat
          BY <1>1, <1>3, CallsAssumption
        <4>2. Len(media'.front) - Len(media.front) = pos' - pos /\ media'.direct
          BY <1>3, <3>3
        <4>3. Len(media'.front) + (size - pos') = Len(media.front) + (size - pos)
          <5> DEFINE l == Len(media.front)
                     m == Len(media'.front)
                     a == pos
                     b == pos'
          <5>1. l \in Nat /\ m \in Nat /\ a \in Nat /\ b \in Nat /\ m - l = b - a
            BY <2>2, <4>1, <4>2
          <5> HIDE DEF l, m, a, b, AfterSniff
          <5>2. m + (size - b) = l + (size - a)
            BY <4>1, <5>1
          <5> QED
            BY <5>2 DEF l, m, a, b
        <4> HIDE DEF AfterSniff
        <4> QED
          BY <3>1, <3>2, <3>3, <4>2, <4>3
      <3>4. CASE ~media.direct
        BY <1>3, <3>1, <3>2, <3>4
      <3> QED
        BY <3>3, <3>4
    <2>4. Undisturbed' => Undisturbed /\ Source.failsAt = 0
      BY <1>2 DEF Undisturbed
    <2>5. Left' = Left
      BY <2>1, <2>3 DEF Left
    <2> QED
      BY <1>1, <1>2, <1>3, <2>4, <2>5 DEF IInv, Exact
  <1>9. Complete' /\ WholeMedia' /\ LengthsAgree'
    BY <1>1, <1>2 DEF Complete, WholeMedia, LengthsAgree
  <1> QED
    BY <1>4, <1>5, <1>6, <1>7, <1>8, <1>9 DEF IInv

LEMMA CallerKeeps ==
    ASSUME IInv, ExpandPath \/ Send \/ SendRefused \/ Break \/ ReturnBroken, UNCHANGED loginVars
    PROVE  IInv'
  <1> USE DEF ExpandPath, Send, SendRefused, Break, ReturnBroken, loginVars
  <1>1. /\ UNCHANGED <<call, pos, size, whole, resized, media, announced, sent, extra>>
        /\ UNCHANGED <<main, handler, code, file>>
        /\ Source' = Source /\ HasMedia' = HasMedia
    BY DEF Source, HasMedia
  <1>2. /\ do \in {"expand", "send", "transmit", "broken"}
        /\ do' \in {"send", "transmit", "answer", "broken", "done"}
        /\ do' = "answer" => ~HasMedia
        /\ do' = "transmit" => HasMedia
    BY DEF HasMedia
  <1>3. Uploading' => Uploading /\ writer' = writer
    BY <1>1, <1>2 DEF Uploading
  <1>4. /\ do' \in {"send", "transmit", "answer"} => result' = "none"
        /\ do' = "broken" => result' = "broken"
        /\ result' \in {"none", "error", "broken"}
    BY DEF IInv, CallOK
  <1>5. TypeOK'
    <2>1. writer' \in Framing \cup {"off", "media", "close", "ended"}
      BY DEF IInv, TypeOK
    <2> QED
      BY <1>1, <1>2, <1>4, <2>1 DEF IInv, TypeOK
  <1>6. CallOK'
    BY <1>1, <1>2, <1>4 DEF IInv, CallOK
  <1>7. InLine' /\ Announced' /\ Exact'
    <2>1. CASE Uploading'
      <3> HIDE DEF ExpandPath, Send, SendRefused, Break, ReturnBroken
      <3> QED
        BY <1>1, <1>3, <2>1, NothingSent
    <2>2. CASE ~Uploading'
      BY <2>2 DEF InLine, Announced, Exact
    <2> QED
      BY <2>1, <2>2
  <1>8. Complete' /\ WholeMedia' /\ LengthsAgree'
    BY <1>1, <1>2, <1>4 DEF Complete, WholeMedia, LengthsAgree
  <1> QED
    BY <1>5, <1>6, <1>7, <1>8 DEF IInv

\* What reading to the end of the body finds, and why it is not what was
\* announced.
LEMMA ReadEofKeeps ==
    ASSUME IInv, ReadEof, UNCHANGED loginVars
    PROVE  IInv'
  <1>1. /\ UNCHANGED <<call, pos, size, whole, resized, media, announced, writer, sent, extra>>
        /\ UNCHANGED <<main, handler, code, file>>
        /\ Source' = Source /\ HasMedia' = HasMedia
    BY DEF ReadEof, loginVars, Source, HasMedia
  <1>2. /\ do = "transmit" /\ writer = "ended" /\ result = "none"
        /\ \/ do' = "answer" /\ result' = "none" /\ Len(sent) = announced /\ extra = 0
           \/ do' = "done" /\ result' = "mismatch" /\ ~(Len(sent) = announced /\ extra = 0)
    BY DEF ReadEof, IInv, CallOK
  <1>3. TypeOK'
    BY <1>1, <1>2 DEF IInv, TypeOK
  <1>4. CallOK'
    BY <1>1, <1>2 DEF IInv, CallOK
  <1>5. Uploading' => Uploading
    BY <1>1, <1>2 DEF Uploading
  <1>6. InLine' /\ Announced' /\ Exact'
    BY <1>1, <1>5, NothingSent
  <1>7. Complete' /\ WholeMedia'
    BY <1>1, <1>2 DEF Complete, WholeMedia
  <1>8. LengthsAgree'
    <2>1. HasMedia /\ Undisturbed => extra = 0 /\ Len(sent) + 0 = announced
      <3>1. Left = 0
        BY <1>2 DEF Left, FramesLeft, BytesLeft
      <3> QED
        BY <1>2, <3>1 DEF IInv, Exact, Uploading
    <2>2. Len(sent) \in Nat
      BY DEF IInv, CallOK
    <2>3. HasMedia
      BY <1>2 DEF IInv, CallOK
    <2> QED
      BY <1>1, <1>2, <2>1, <2>2, <2>3 DEF LengthsAgree, Undisturbed, Source
  <1> QED
    BY <1>3, <1>4, <1>6, <1>7, <1>8 DEF IInv

\* The answer is good only for a body that is complete, and then the part
\* between the frames is the file.
LEMMA GetAnswerKeeps ==
    ASSUME IInv, GetAnswer, UNCHANGED loginVars
    PROVE  IInv'
  <1>1. /\ UNCHANGED <<call, path, pos, size, whole, resized, media, announced, writer, sent, extra>>
        /\ UNCHANGED <<main, handler, code, file>>
        /\ do = "answer" /\ do' = "done" /\ result' \in {"error", "ok"}
        /\ Source' = Source /\ HasMedia' = HasMedia
    BY DEF GetAnswer, loginVars, Source, HasMedia
  <1>2. TypeOK'
    BY <1>1 DEF IInv, TypeOK
  <1>3. CallOK'
    BY <1>1 DEF IInv, CallOK
  <1>4. InLine' /\ Announced' /\ Exact' /\ Complete' /\ LengthsAgree'
    BY <1>1 DEF InLine, Announced, Exact, Complete, Uploading, LengthsAgree
  <1>5. WholeMedia'
    <2> SUFFICES ASSUME HasMedia, ~media.fails PROVE MediaPart(sent) = whole
      BY <1>1 DEF WholeMedia, HasMedia, Source, MediaPart
    <2> DEFINE n == Source.size - Source.start
    <2>1. n \in Nat /\ Source.start \in Nat
      BY SourceType DEF IInv
    <2>2. writer = "ended" /\ Len(sent) = 4 + n /\ extra = 0
      BY <1>1 DEF IInv, Complete, Announced, Uploading
    <2>3. BytesUntil(1)
      BY <1>1, <2>2 DEF IInv, InLine, Uploading, Body
    <2>4. Len(sent) - Cardinality(Framing) = n
      BY <2>1, <2>2, FramingSize
    <2>5. ASSUME NEW i \in 1..n PROVE sent[i + 3].byte = Source.start + i
      <3>1. i + 3 \in 4..(Len(sent) - 1) /\ (i + 3) - 3 = i
        BY <2>1, <2>2
      <3>2. sent[i + 3] = Byte(Source.start + i)
        BY <2>3, <3>1 DEF BytesUntil
      <3> QED
        BY <3>2 DEF Byte
    <2>6. MediaPart(sent) = [i \in 1..n |-> sent[i + 3].byte]
      BY <2>4 DEF MediaPart
    <2>7. whole = [i \in 1..n |-> Source.start + i]
      BY DEF IInv, CallOK
    <2> HIDE DEF n
    <2> QED
      BY <2>5, <2>6, <2>7
  <1> QED
    BY <1>2, <1>3, <1>4, <1>5 DEF IInv

LEMMA ResizeKeeps ==
    ASSUME IInv, Resize, UNCHANGED loginVars
    PROVE  IInv'
  <1>1. /\ UNCHANGED <<call, path, do, pos, whole, media, announced, writer, sent, extra, result>>
        /\ UNCHANGED <<main, handler, code, file>>
        /\ resized' = TRUE /\ size' \in 0..MaxSize
        /\ do \in {"sniff", "expand", "send", "transmit"}
        /\ Source' = Source /\ HasMedia' = HasMedia
    BY DEF Resize, loginVars, Source, HasMedia
  <1>2. TypeOK'
    BY <1>1 DEF IInv, TypeOK
  <1>3. CallOK'
    BY <1>1 DEF IInv, CallOK
  <1>4. InLine'
    BY <1>1 DEF IInv, InLine, Uploading, Body, BytesUntil, Ahead, Passed
  <1>5. Announced' /\ Complete' /\ Exact' /\ WholeMedia' /\ LengthsAgree'
    BY <1>1 DEF IInv, CallOK, Announced, Complete, Exact, Undisturbed, Uploading, WholeMedia, LengthsAgree
  <1> QED
    BY <1>2, <1>3, <1>4, <1>5 DEF IInv

-----------------------------------------------------------------------------
(* The goroutine.                                                          *)

\* A token is read by the server, or thrown away.
LEMMA PassedOn ==
    ASSUME IInv, NEW token \in Token, Pass(token), UNCHANGED loginVars,
           writer' \in Framing \cup {"media", "close"},
           writer # "off" /\ writer' # "off",
           media' \in [front: Seq(1..MaxSize), direct: BOOLEAN, fails: BOOLEAN],
           media'.fails = media.fails,
           pos' \in 0..MaxSize,
           InLine',
           Undisturbed /\ HasMedia =>
               /\ pos' <= size
               /\ Left \in Nat /\ Left' \in Nat
               /\ Left' = Left - 1
    PROVE  IInv'
  <1>1. /\ do = "transmit" /\ UNCHANGED <<call, path, do, size, whole, resized, announced, result>>
        /\ UNCHANGED <<main, handler, code, file>>
        /\ Source' = Source /\ HasMedia' = HasMedia
    BY DEF Pass, loginVars, Source, HasMedia
  <1>2. sent \in Seq(Token) /\ extra \in Nat /\ announced \in Nat
    BY FramingSize, CallsAssumption DEF IInv, CallOK, TypeOK
  <1>3. /\ sent' \in Seq(Token) /\ extra' \in Nat /\ Len(sent') <= announced
        /\ Len(sent) < announced => Len(sent') = Len(sent) + 1 /\ extra' = extra
    <2>1. Len(sent) <= announced /\ Len(sent) \in Nat
      BY <1>2 DEF IInv, TypeOK
    <2>2. Append(sent, token) \in Seq(Token) /\ Len(Append(sent, token)) = Len(sent) + 1
      BY <1>2
    <2>3. CASE Len(sent) < announced
      <3>1. sent' = Append(sent, token) /\ extra' = extra
        BY <2>3 DEF Pass
      <3>2. Len(sent) + 1 <= announced
        BY <1>2, <2>1, <2>3
      <3> QED
        BY <1>2, <2>2, <3>1, <3>2
    <2>4. CASE ~(Len(sent) < announced)
      <3>1. sent' = sent /\ extra' = extra + 1
        BY <2>4 DEF Pass
      <3> QED
        BY <1>2, <2>1, <2>4, <3>1
    <2> QED
      BY <2>3, <2>4
  <1>4. TypeOK'
    <2>1. /\ do' \in {"idle", "measure", "sniff", "expand", "send", "transmit", "broken",
                     "answer", "done"}
          /\ writer' \in Framing \cup {"off", "media", "close", "ended"}
          /\ result' \in {"none", "ok", "error", "broken", "mismatch"}
      BY <1>1 DEF IInv, TypeOK
    <2>2. /\ size' \in 0..MaxSize /\ resized' \in BOOLEAN
          /\ announced' \in 0..(MaxSize + Cardinality(Framing))
          /\ Len(sent') <= announced'
      BY <1>1, <1>3 DEF IInv, TypeOK
    <2>3. /\ main' \in {"start", "listen", "exchange", "close", "save", "client", "exit"}
          /\ handler' \in [Request -> {"none", "sending", "returned"}]
          /\ code' \in Request \cup {NoCode}
          /\ file' \in {"none", "unreadable", "token"}
      BY <1>1 DEF IInv, TypeOK
    <2> QED
      BY <2>1, <2>2, <2>3 DEF TypeOK
  <1>5. CallOK'
    BY <1>1, <1>3 DEF IInv, CallOK
  <1>6. Announced' /\ Complete' /\ WholeMedia' /\ LengthsAgree'
    BY <1>1 DEF IInv, CallOK, Announced, Complete, Uploading, WholeMedia, LengthsAgree
  <1>7. Exact'
    <2> SUFFICES ASSUME HasMedia, Undisturbed
                 PROVE  /\ extra' = 0 /\ pos' <= size'
                        /\ Len(sent') + Left' = announced'
      BY <1>1 DEF Exact, Uploading, Undisturbed
    <2>1. extra = 0 /\ Len(sent) + Left = announced
      BY <1>1 DEF IInv, Exact, Uploading
    <2>2. Len(sent) \in Nat /\ Left \in Nat /\ Left' \in Nat /\ Left' = Left - 1 /\ pos' <= size
      BY <1>2
    <2>3. Len(sent) < announced
      BY <1>2, <2>1, <2>2
    <2>4. Len(sent') + Left' = announced
      BY <1>2, <1>3, <2>1, <2>2, <2>3
    <2> QED
      BY <1>1, <1>3, <2>1, <2>2, <2>3, <2>4
  <1> QED
    BY <1>4, <1>5, <1>6, <1>7 DEF IInv

\* A token that was not thrown away has come to the end of the body.
LEMMA Appended ==
    ASSUME IInv, NEW token \in Token, Pass(token), extra' = 0
    PROVE  /\ extra = 0 /\ HasMedia /\ Body /\ Ahead
           /\ Len(sent) \in Nat /\ Len(sent') = Len(sent) + 1
           /\ \A i \in 1..Len(sent) : sent'[i] = sent[i]
           /\ sent'[Len(sent) + 1] = token
  <1>1. sent \in Seq(Token) /\ extra \in Nat /\ do = "transmit" /\ HasMedia
    BY DEF IInv, CallOK, Pass
  <1>2. sent' = Append(sent, token) /\ extra = 0
    BY <1>1 DEF Pass
  <1>3. Body /\ Ahead
    BY <1>1, <1>2 DEF IInv, InLine, Uploading
  <1> QED
    BY <1>1, <1>2, <1>3

\* In an undisturbed call there is something left to count.
LEMMA LeftOver ==
    ASSUME IInv, Uploading, Undisturbed
    PROVE  /\ pos <= size /\ pos \in Nat /\ size \in Nat
           /\ Len(media.front) \in Nat
           /\ FramesLeft \in Nat /\ BytesLeft \in Nat /\ Left \in Nat
  <1>1. pos <= size /\ pos \in Nat /\ size \in Nat
    BY CallsAssumption DEF IInv, TypeOK, Exact
  <1>2. Len(media.front) \in Nat
    BY DEF IInv, TypeOK
  <1>3. FramesLeft \in Nat
    BY DEF FramesLeft
  <1>4. size - pos \in Nat
    BY <1>1
  <1>5. BytesLeft \in Nat
    BY <1>2, <1>4 DEF BytesLeft
  <1> QED
    BY <1>1, <1>2, <1>3, <1>5 DEF Left

LEMMA WriteFramingKeeps ==
    ASSUME IInv, WriteFraming, UNCHANGED loginVars
    PROVE  IInv'
  <1>1. /\ writer \in Framing /\ Pass(Frame(writer)) /\ writer' = After(writer)
        /\ UNCHANGED <<pos, media, call, size, announced>>
    BY DEF WriteFraming, Pass
  <1>2. \/ writer = "json header" /\ writer' = "json"
        \/ writer = "json" /\ writer' = "media header"
        \/ writer = "media header" /\ writer' = "media"
        \/ writer = "boundary" /\ writer' = "close"
    <2>1. CASE writer = "json header"
      BY <1>1, <2>1 DEF After
    <2>2. CASE writer = "json"
      BY <1>1, <2>2 DEF After
    <2>3. CASE writer = "media header"
      BY <1>1, <2>3 DEF After
    <2>4. CASE writer = "boundary"
      BY <1>1, <2>4 DEF After
    <2> QED
      BY <1>1, <2>1, <2>2, <2>3, <2>4 DEF Framing
  <1>3. Frame(writer) \in Token
    BY <1>1 DEF Token
  <1>4. InLine'
    <2>1. SUFFICES ASSUME extra' = 0 PROVE Body' /\ Ahead'
      BY DEF InLine
    <2>2. /\ Body /\ Ahead /\ Len(sent) \in Nat /\ Len(sent') = Len(sent) + 1
          /\ \A i \in 1..Len(sent) : sent'[i] = sent[i]
      BY <1>1, <1>3, <2>1, Appended
    <2>3. CASE writer = "json header" /\ writer' = "json"
      <3>0. sent = <<>>
        BY <2>2, <2>3 DEF Body
      <3>1. Len(sent) = 0
        BY <3>0
      <3>2. Len(sent') = 1
        BY <2>2, <3>1
      <3>3. Passed = 0 /\ Passed' = 0
        BY <2>3 DEF Passed
      <3>4. Body'
        BY <2>3, <3>2 DEF Body
      <3>5. Ahead'
        BY <1>1, <2>2, <2>3, <3>3 DEF Ahead, Source
      <3> QED
        BY <3>4, <3>5
    <2>4. CASE writer = "json" /\ writer' = "media header"
      <3>1. Len(sent) = 1
        BY <2>2, <2>4 DEF Body
      <3>2. Len(sent') = 2
        BY <2>2, <3>1
      <3>3. Passed = 0 /\ Passed' = 0
        BY <2>4 DEF Passed
      <3>4. Body'
        BY <2>4, <3>2 DEF Body
      <3>5. Ahead'
        BY <1>1, <2>2, <2>4, <3>3 DEF Ahead, Source
      <3> QED
        BY <3>4, <3>5
    <2>5. CASE writer = "media header" /\ writer' = "media"
      <3>0. Len(sent) = 2
        BY <2>2, <2>5 DEF Body
      <3>1. Len(sent') = 3
        BY <2>2, <3>0
      <3>2. Passed = 0
        BY <2>5 DEF Passed
      <3>3. Passed' = 0
        <4>1. Passed' = 3 - 3
          BY <2>5, <3>1 DEF Passed
        <4> QED
          BY <4>1
      <3>4. Ahead'
        BY <1>1, <2>2, <2>5, <3>2, <3>3 DEF Ahead, Source
      <3>5. BytesUntil(0)'
        BY <3>1 DEF BytesUntil
      <3> QED
        BY <2>5, <3>4, <3>5 DEF Body
    <2>6. CASE writer = "boundary" /\ writer' = "close"
      <3>1. BytesUntil(0)
        BY <2>2, <2>6 DEF Body
      <3>2. BytesUntil(1)'
        BY <1>1, <2>2, <3>1 DEF BytesUntil, Source
      <3> QED
        BY <2>6, <3>2 DEF Body, Ahead
    <2> QED
      BY <1>2, <2>3, <2>4, <2>5, <2>6
  <1>5. ASSUME HasMedia, Undisturbed
        PROVE  pos' <= size /\ Left \in Nat /\ Left' \in Nat /\ Left' = Left - 1
    <2>1. Uploading
      BY <1>1, <1>5 DEF Uploading, Pass
    <2>2. pos <= size /\ FramesLeft \in Nat /\ BytesLeft \in Nat /\ Left \in Nat
      BY <1>5, <2>1, LeftOver
    <2>3. FramesLeft \in 1..4 /\ FramesLeft' = FramesLeft - 1
      <3>1. CASE writer = "json header" /\ writer' = "json"
        <4>1. FramesLeft = 4 /\ FramesLeft' = 3
          BY <3>1 DEF FramesLeft
        <4> QED
          BY <4>1
      <3>2. CASE writer = "json" /\ writer' = "media header"
        <4>1. FramesLeft = 3 /\ FramesLeft' = 2
          BY <3>2 DEF FramesLeft
        <4> QED
          BY <4>1
      <3>3. CASE writer = "media header" /\ writer' = "media"
        <4>1. FramesLeft = 2 /\ FramesLeft' = 1
          BY <3>3 DEF FramesLeft
        <4> QED
          BY <4>1
      <3>4. CASE writer = "boundary" /\ writer' = "close"
        <4>1. FramesLeft = 1 /\ FramesLeft' = 0
          BY <3>4 DEF FramesLeft
        <4> QED
          BY <4>1
      <3> QED
        BY <1>2, <3>1, <3>2, <3>3, <3>4
    <2>4. BytesLeft' = BytesLeft
      BY <1>1, <1>2 DEF BytesLeft
    <2> QED
      BY <1>1, <2>2, <2>3, <2>4 DEF Left
  <1>6. /\ writer # "off" /\ writer' # "off" /\ writer' \in Framing \cup {"media", "close"}
        /\ media' \in [front: Seq(1..MaxSize), direct: BOOLEAN, fails: BOOLEAN]
        /\ media'.fails = media.fails /\ pos' \in 0..MaxSize
    BY <1>1, <1>2 DEF Framing, IInv, TypeOK
  <1> QED
    BY <1>1, <1>3, <1>4, <1>5, <1>6, PassedOn

\* Where the next byte is, counted in the body and in the file.
LEMMA NextOffset ==
    ASSUME NEW s \in Nat, NEW l \in Nat, l >= 3, NEW p, p = l - 3
    PROVE  p \in Nat /\ s + p + 1 = s + ((l + 1) - 3)
  OBVIOUS

LEMMA OneFurther == \A s, p, j \in Nat : s + (p + 1) + j = s + p + (j + 1)
  OBVIOUS

LEMMA WriteFrontKeeps ==
    ASSUME IInv, WriteFront, UNCHANGED loginVars
    PROVE  IInv'
  <1> DEFINE front == media.front  token == Byte(Head(front))
  <1>1. /\ writer = "media" /\ writer' = "media" /\ Pass(token)
        /\ media' = [media EXCEPT !.front = Tail(front)]
        /\ UNCHANGED <<pos, call, size, announced>>
        /\ media \in [front: Seq(1..MaxSize), direct: BOOLEAN, fails: BOOLEAN]
        /\ front \in Seq(1..MaxSize) /\ front # <<>>
    BY DEF WriteFront, Pass, IInv, TypeOK
  <1>2. /\ Head(front) \in 1..MaxSize /\ Head(front) = front[1] /\ 1 \in DOMAIN front
        /\ Tail(front) \in Seq(1..MaxSize) /\ Len(front) \in Nat /\ Len(Tail(front)) = Len(front) - 1
        /\ Len(Tail(front)) \in Nat
        /\ \A j \in DOMAIN Tail(front) : j \in Nat /\ j + 1 \in DOMAIN front /\ Tail(front)[j] = front[j + 1]
    <2>1. front \in Seq(1..MaxSize) /\ front # <<>>
      BY <1>1
    <2> HIDE DEF front
    <2>2. /\ Head(front) \in 1..MaxSize /\ Tail(front) \in Seq(1..MaxSize)
          /\ Len(Tail(front)) = Len(front) - 1
          /\ \A i \in 1..Len(Tail(front)) : Tail(front)[i] = front[i + 1]
      BY <2>1, HeadTailProperties
    <2>3. Len(front) \in Nat \ {0} /\ DOMAIN front = 1..Len(front) /\ Head(front) = front[1]
      BY <2>1
    <2>4. DOMAIN Tail(front) = 1..Len(Tail(front)) /\ Len(Tail(front)) \in Nat
      BY <2>2
    <2> QED
      BY <2>2, <2>3, <2>4
  <1>3. token \in Token
    BY <1>2 DEF Token
  <1>4. /\ media' \in [front: Seq(1..MaxSize), direct: BOOLEAN, fails: BOOLEAN]
        /\ media'.front = Tail(front) /\ media'.direct = media.direct /\ media'.fails = media.fails
    BY <1>1, <1>2
  <1>5. InLine'
    <2>1. SUFFICES ASSUME extra' = 0 PROVE Body' /\ Ahead'
      BY DEF InLine
    <2>2. /\ HasMedia /\ Body /\ Ahead /\ Len(sent) \in Nat /\ Len(sent') = Len(sent) + 1
          /\ \A i \in 1..Len(sent) : sent'[i] = sent[i]
          /\ sent'[Len(sent) + 1] = token
      BY <1>1, <1>3, <2>1, Appended
    <2>3. /\ Len(sent) >= 3 /\ Passed = Len(sent) - 3 /\ Passed' = Passed + 1
          /\ \A i \in 4..Len(sent) : sent[i] = Byte(Source.start + (i - 3))
      BY <1>1, <2>2 DEF Body, BytesUntil, Passed
    <2>4. Source' = Source /\ Source.start \in Nat
      BY <1>1, <2>2, SourceType DEF Source, IInv
    <2>5. /\ \A j \in DOMAIN front : front[j] = Source.start + Passed + j
          /\ media.direct => pos = Source.start + Passed + Len(front)
      BY <1>1, <2>2 DEF Ahead
    <2>6. token = Byte(Source.start + ((Len(sent) + 1) - 3))
      <3>1. Head(front) = Source.start + Passed + 1
        BY <1>2, <2>5
      <3>2. Source.start + Passed + 1 = Source.start + ((Len(sent) + 1) - 3)
        BY <2>2, <2>3, <2>4, NextOffset
      <3> QED
        BY <3>1, <3>2
    <2> HIDE DEF front, token
    <2>7. BytesUntil(0)'
      BY <2>2, <2>3, <2>4, <2>6 DEF BytesUntil
    <2>8. /\ \A j \in DOMAIN Tail(front) : Tail(front)[j] = Source.start + Passed' + j
          /\ media.direct => pos' = Source.start + Passed' + Len(Tail(front))
      <3>1. /\ Passed \in Nat /\ Passed' = Passed + 1
            /\ \A j \in Nat : Source.start + Passed' + j = Source.start + Passed + (j + 1)
        <4>1. Passed \in Nat
          BY <2>2, <2>3, <2>4, NextOffset
        <4>2. Passed' = Passed + 1
          BY <2>3
        <4>3. ASSUME NEW j \in Nat
              PROVE  Source.start + (Passed + 1) + j = Source.start + Passed + (j + 1)
          BY <2>4, <4>1, OneFurther
        <4> QED
          BY <4>1, <4>2, <4>3
      <3>2. ASSUME NEW j \in DOMAIN Tail(front) PROVE Tail(front)[j] = Source.start + Passed' + j
        BY <1>2, <2>5, <3>1
      <3>3. media.direct => pos' = Source.start + Passed' + Len(Tail(front))
        <4>1. Len(Tail(front)) + 1 = Len(front)
          BY <1>2
        <4> QED
          BY <1>1, <1>2, <2>5, <3>1, <4>1
      <3> QED
        BY <3>2, <3>3
    <2>9. Body'
      BY <1>1, <2>7 DEF Body
    <2> QED
      BY <1>1, <1>4, <2>4, <2>8, <2>9 DEF Ahead
  <1>6. ASSUME HasMedia, Undisturbed
        PROVE  pos' <= size /\ Left \in Nat /\ Left' \in Nat /\ Left' = Left - 1
    <2>1. Uploading
      BY <1>1, <1>6 DEF Uploading, Pass
    <2>2. pos <= size /\ pos \in Nat /\ size \in Nat
      BY <1>6, <2>1, LeftOver
    <2>3. FramesLeft = 1 /\ FramesLeft' = 1
      BY <1>1 DEF FramesLeft
    <2> DEFINE behind == IF media.direct THEN size - pos ELSE 0
    <2>4. BytesLeft = Len(front) + behind /\ BytesLeft' = Len(Tail(front)) + behind
      BY <1>1, <1>4 DEF BytesLeft
    <2>5. behind \in Nat
      BY <2>2
    <2> HIDE DEF front, behind
    <2> QED
      BY <1>1, <1>2, <2>2, <2>3, <2>4, <2>5 DEF Left
  <1>7. pos' \in 0..MaxSize
    BY <1>1 DEF IInv, TypeOK
  <1> HIDE DEF token
  <1> QED
    BY <1>1, <1>3, <1>4, <1>5, <1>6, <1>7, PassedOn

LEMMA WriteDirectKeeps ==
    ASSUME IInv, WriteDirect, UNCHANGED loginVars
    PROVE  IInv'
  <1> DEFINE token == Byte(pos + 1)
  <1>1. /\ writer = "media" /\ writer' = "media" /\ Pass(token)
        /\ media.front = <<>> /\ media.direct /\ Readable(pos) # <<>>
        /\ pos' = pos + 1 /\ HasMedia
        /\ UNCHANGED <<media, call, size, announced>>
        /\ media \in [front: Seq(1..MaxSize), direct: BOOLEAN, fails: BOOLEAN]
        /\ pos \in 0..MaxSize /\ size \in 0..MaxSize
    BY DEF WriteDirect, Pass, IInv, TypeOK, CallOK
  <1>2. pos \in Nat /\ size \in Nat /\ pos' \in 1..MaxSize
    BY <1>1, CallsAssumption, ReadableBytes DEF IInv
  <1>3. token \in Token
    BY <1>1, <1>2 DEF Token
  <1>4. InLine'
    <2>1. SUFFICES ASSUME extra' = 0 PROVE Body' /\ Ahead'
      BY DEF InLine
    <2>2. /\ Body /\ Ahead /\ Len(sent) \in Nat /\ Len(sent') = Len(sent) + 1
          /\ \A i \in 1..Len(sent) : sent'[i] = sent[i]
          /\ sent'[Len(sent) + 1] = token
      BY <1>1, <1>3, <2>1, Appended
    <2>3. /\ Len(sent) >= 3 /\ Passed = Len(sent) - 3 /\ Passed' = Passed + 1
          /\ \A i \in 4..Len(sent) : sent[i] = Byte(Source.start + (i - 3))
      BY <1>1, <2>2 DEF Body, BytesUntil, Passed
    <2>4. Source' = Source /\ Source.start \in Nat
      BY <1>1, SourceType DEF Source, IInv
    <2>5. Len(media.front) = 0 /\ DOMAIN media.front = {} /\ pos = Source.start + Passed + 0
      BY <1>1, <2>2 DEF Ahead
    <2>6. token = Byte(Source.start + ((Len(sent) + 1) - 3))
      BY <1>2, <2>2, <2>3, <2>4, <2>5
    <2> HIDE DEF token
    <2>7. BytesUntil(0)'
      BY <2>2, <2>3, <2>4, <2>6 DEF BytesUntil
    <2>8. pos' = Source.start + Passed' + 0
      BY <1>1, <2>2, <2>3, <2>4, <2>5
    <2>9. Body'
      BY <1>1, <2>7 DEF Body
    <2> QED
      BY <1>1, <2>4, <2>5, <2>8, <2>9 DEF Ahead
  <1>5. ASSUME Undisturbed
        PROVE  pos' <= size /\ Left \in Nat /\ Left' \in Nat /\ Left' = Left - 1
    <2>1. pos < size
      <3>1. ~FailsBefore(size)
        BY <1>5 DEF Undisturbed, FailsBefore
      <3> QED
        BY <1>1, <1>2, <3>1, ReadableBytes DEF IInv
    <2>2. FramesLeft = 1 /\ FramesLeft' = 1
      BY <1>1 DEF FramesLeft
    <2>3. BytesLeft = 0 + (size - pos) /\ BytesLeft' = 0 + (size - pos')
      <3>1. Len(media.front) = 0 /\ Len(media'.front) = 0
        BY <1>1
      <3> QED
        BY <1>1, <3>1 DEF BytesLeft
    <2> QED
      BY <1>1, <1>2, <2>1, <2>2, <2>3 DEF Left
  <1>6. pos' \in 0..MaxSize /\ media' \in [front: Seq(1..MaxSize), direct: BOOLEAN, fails: BOOLEAN]
    BY <1>1, <1>2
  <1> HIDE DEF token
  <1> QED
    BY <1>1, <1>3, <1>4, <1>5, <1>6, PassedOn

LEMMA MediaEndsKeeps ==
    ASSUME IInv, MediaEnds, UNCHANGED loginVars
    PROVE  IInv'
  <1>1. /\ writer = "media" /\ writer' = "boundary"
        /\ media.front = <<>> /\ (media.direct => Readable(pos) = <<>>)
        /\ UNCHANGED <<call, path, do, pos, size, whole, resized, media, announced, sent, extra, result>>
        /\ UNCHANGED <<main, handler, code, file>>
        /\ Source' = Source /\ HasMedia' = HasMedia
    BY DEF MediaEnds, loginVars, Source, HasMedia
  <1>2. TypeOK'
    <2>1. writer' \in Framing
      BY <1>1 DEF Framing
    <2> QED
      BY <1>1, <2>1 DEF IInv, TypeOK
  <1>3. CallOK'
    BY <1>1 DEF IInv, CallOK
  <1>4. InLine'
    BY <1>1 DEF IInv, InLine, Uploading, Body, BytesUntil, Ahead
  <1>5. Announced' /\ Complete' /\ WholeMedia' /\ LengthsAgree'
    BY <1>1 DEF IInv, Announced, Complete, Uploading, WholeMedia, LengthsAgree
  <1>6. Exact'
    <2> SUFFICES ASSUME Uploading, Undisturbed PROVE Left' = Left
      BY <1>1 DEF IInv, Exact, Uploading, Undisturbed
    <2>1. pos <= size /\ pos \in Nat /\ size \in Nat
      BY LeftOver
    <2>2. media.direct => size - pos = 0
      <3>1. ~FailsBefore(size)
        BY DEF Undisturbed, FailsBefore
      <3>2. pos \in 0..MaxSize /\ size \in 0..MaxSize /\ CallOK /\ HasMedia
        BY DEF IInv, TypeOK, Uploading
      <3> QED
        BY <1>1, <2>1, <3>1, <3>2, ReadableBytes
    <2>3. FramesLeft = 1 /\ FramesLeft' = 1
      BY <1>1 DEF FramesLeft
    <2>4. BytesLeft = 0 /\ BytesLeft' = 0
      <3>1. Len(media.front) = 0
        BY <1>1
      <3> QED
        BY <1>1, <2>2, <3>1 DEF BytesLeft
    <2> QED
      BY <2>3, <2>4 DEF Left
  <1> QED
    BY <1>2, <1>3, <1>4, <1>5, <1>6 DEF IInv

LEMMA ClosePipeKeeps ==
    ASSUME IInv, ClosePipe, UNCHANGED loginVars
    PROVE  IInv'
  <1>1. /\ writer = "close" /\ writer' = "ended"
        /\ UNCHANGED <<call, path, do, pos, size, whole, resized, media, announced, sent, extra, result>>
        /\ UNCHANGED <<main, handler, code, file>>
        /\ HasMedia' = HasMedia
    BY DEF ClosePipe, loginVars, Source, HasMedia
  <1>2. TypeOK'
    BY <1>1 DEF IInv, TypeOK
  <1>3. CallOK'
    BY <1>1 DEF IInv, CallOK, Source
  <1>4. Uploading' => Uploading
    BY <1>1 DEF Uploading
  <1>5. InLine' /\ Announced' /\ Exact'
    BY <1>1, <1>4, NothingSent
  <1>6. Complete' /\ WholeMedia' /\ LengthsAgree'
    BY <1>1 DEF IInv, Complete, Uploading, WholeMedia, LengthsAgree
  <1> QED
    BY <1>2, <1>3, <1>5, <1>6 DEF IInv

\* The body of a call that is broken is no concern of the invariant any more.
LEMMA WriteFailsKeeps ==
    ASSUME IInv, WriteFails, UNCHANGED loginVars
    PROVE  IInv'
  <1>1. /\ result = "broken" /\ writer' \in {"boundary", "close"}
        /\ UNCHANGED <<call, path, do, pos, size, whole, resized, media, announced, sent, extra, result>>
        /\ UNCHANGED <<main, handler, code, file>>
        /\ HasMedia' = HasMedia
    BY DEF WriteFails, loginVars, Source, HasMedia
  <1>2. do \in {"broken", "done"}
    BY <1>1 DEF IInv, CallOK
  <1>3. TypeOK'
    <2>1. writer' \in Framing \cup {"off", "media", "close", "ended"}
      BY <1>1 DEF Framing
    <2> QED
      BY <1>1, <2>1 DEF IInv, TypeOK
  <1>4. CallOK'
    BY <1>1, <1>2 DEF IInv, CallOK, Source
  <1>5. InLine' /\ Announced' /\ Exact' /\ Complete'
    BY <1>1, <1>2 DEF Uploading, InLine, Announced, Exact, Complete
  <1>6. WholeMedia' /\ LengthsAgree'
    BY <1>1 DEF IInv, WholeMedia, LengthsAgree
  <1> QED
    BY <1>3, <1>4, <1>5, <1>6 DEF IInv

-----------------------------------------------------------------------------
LEMMA StepIInv ==
    ASSUME IInv, [Next]_vars
    PROVE  IInv'
  <1>1. CASE UNCHANGED vars
    <2>1. UNCHANGED loginVars /\ UNCHANGED callVars
      BY <1>1 DEF vars
    <2>2. TypeOK'
      BY <2>1 DEF IInv, TypeOK, loginVars, callVars
    <2>3. Uploading' => Uploading
      BY <2>1 DEF callVars, Uploading, HasMedia, Source
    <2>4. InLine' /\ Announced' /\ Exact'
      BY <2>1, <2>3, NothingSent DEF callVars
    <2> QED
      BY <2>1, <2>2, <2>4 DEF IInv, CallOK, Complete, WholeMedia, LengthsAgree, callVars, HasMedia, Source, MediaPart
  <1>2. CASE LoginNext /\ UNCHANGED callVars
    BY <1>2, LoginKeeps
  <1>3. CASE CallNext /\ UNCHANGED loginVars
    BY <1>3, StartDoKeeps, MeasureKeeps, SniffKeeps, CallerKeeps, ReadEofKeeps, GetAnswerKeeps,
       ResizeKeeps, WriteFramingKeeps, WriteFrontKeeps, WriteDirectKeeps, MediaEndsKeeps,
       ClosePipeKeeps, WriteFailsKeeps DEF CallNext, CallStep
  <1> QED
    BY <1>1, <1>2, <1>3 DEF Next

\* The shape of the state of an example program: Do keeps to the Content-Length,
\* whatever the file does meanwhile.
THEOREM ExampleTypes == Spec => []TypeOK
  <1>1. Spec => []IInv
    BY InitIInv, StepIInv, PTL DEF Spec
  <1>2. IInv => TypeOK
    BY DEF IInv
  <1> QED
    BY <1>1, <1>2, PTL

\* A call of the API that returns without an error, with media of any size, has
\* uploaded the bytes there were when it was made, in their order, the ones that
\* getMediaType read and put back included (googleapi.go).  A reader that failed
\* while getReaderSize copied it is the exception, as WholeMedia says.
THEOREM UploadIsWhole == Spec => []WholeMedia
  <1>1. Spec => []IInv
    BY InitIInv, StepIInv, PTL DEF Spec
  <1>2. IInv => WholeMedia
    BY DEF IInv
  <1> QED
    BY <1>1, <1>2, PTL

\* The transport finds the length that getReaderSize announced to be wrong only
\* when the file has changed, or could not be read or rewound.
THEOREM UploadIsMeasured == Spec => []LengthsAgree
  <1>1. Spec => []IInv
    BY InitIInv, StepIInv, PTL DEF Spec
  <1>2. IInv => LengthsAgree
    BY DEF IInv
  <1> QED
    BY <1>1, <1>2, PTL
=============================================================================
