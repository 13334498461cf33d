------------------------------- MODULE Upload --------------------------------
(***************************************************************************)
(* google-api-go-client: one API call, as gen.go writes the Do method of   *)
(* every one of them: the path is expanded from a template, media goes     *)
(* into a multipart body that a goroutine writes into a pipe while the     *)
(* HTTP transport reads it, and its length is announced beforehand.        *)
(*                                                                         *)
(* The bytes of a source are numbered; a header, the JSON and the final    *)
(* boundary are one token each.                                            *)
(***************************************************************************)
EXTENDS UriTemplate, FiniteSets

CONSTANTS
    Calls,      \* [template, values, source]: what programs call with
    NoMedia,    \* a nil media reader
    SniffLen,   \* the buffer of getMediaType
    MaxSize     \* bound on the size of a source

\* A reader stands somewhere in what it reads, and may fail at a byte of it.
MediaSource ==
    [kind: {"lengther", "seeker", "plain"}, seek: {"ok", "fails", "stuck"},
     typed: BOOLEAN, start: Nat, size: 0..MaxSize, failsAt: Nat]

ASSUME CallsAssumption ==
    /\ SniffLen \in Nat /\ MaxSize \in Nat
    /\ NoMedia \notin MediaSource
    /\ \A c \in Calls :
          c.source # NoMedia => c.source \in MediaSource /\ c.source.start <= c.source.size

VARIABLES
    call,      \* the call in progress
    path,      \* the URL's path once it is expanded
    do,        \* where in Do the caller is
    pos, size, \* offset and size of the file behind the media reader
    whole,     \* history: the bytes there were when the call was made
    resized,   \* history: the file has changed its size
    media,     \* the reader: bytes buffered in front, the source after them or
               \* not, and whether it ends with an error instead of EOF
    announced, \* the Content-Length of the request
    writer,    \* where the goroutine is
    sent,      \* what the server has got of the body
    extra,     \* bytes written beyond the announced length
    result     \* what Do returned, or is about to

callVars == <<call, path, do, pos, size, whole, resized, media, announced,
              writer, sent, extra, result>>

Framing == {"json header", "json", "media header", "boundary"}

\* What goes through the pipe.
Frame(name) == [frame |-> name]
Byte(n)     == [byte |-> n]

NoCall == [template |-> <<>>, values |-> <<>>, source |-> NoMedia]

CallInit ==
    /\ call = NoCall
    /\ path = <<>>
    /\ do = "idle"
    /\ pos = 0
    /\ size = 0
    /\ whole = <<>>
    /\ resized = FALSE
    /\ media = [front |-> <<>>, direct |-> FALSE, fails |-> FALSE]
    /\ announced = 0
    /\ writer = "off"
    /\ sent = <<>>
    /\ extra = 0
    /\ result = "none"

Source == call.source

\* The bytes from offset a on that can be read before an error or the end.
FailsBefore(b) == Source.failsAt # 0 /\ Source.failsAt <= b
Readable(a) ==
    LET last == IF FailsBefore(size) THEN Source.failsAt - 1 ELSE size
    IN  [i \in 1..(IF last > a THEN last - a ELSE 0) |-> a + i]

\* Do is called.  Without media the body is the JSON alone.
StartDo ==
    /\ do = "idle"
    /\ call' \in Calls
    /\ IF call'.source = NoMedia
       THEN do' = "expand" /\ UNCHANGED <<pos, size, whole>>
       ELSE /\ do' = "measure"
            /\ pos' = call'.source.start
            /\ size' = call'.source.size
            /\ whole' = [i \in 1..(size' - pos') |-> pos' + i]
    /\ UNCHANGED <<path, resized, media, announced, writer, sent, extra, result>>

\* getReaderSize: the reader knows its size, or seeking tells it.
Measured(length, front, direct, fails) ==
    /\ media' = [front |-> front, direct |-> direct, fails |-> fails]
    /\ announced' = Cardinality(Framing) + length
    /\ do' = "sniff"

\* Mutant of Measure: the offset is added instead of taken off.
MeasurePlus ==
    /\ do = "measure"
    /\ Source.kind = "lengther" \/ (Source.kind = "seeker" /\ Source.seek = "ok")
    /\ Measured(size + pos, <<>>, TRUE, FALSE)
    /\ UNCHANGED <<call, path, pos, size, whole, resized, writer, sent, extra, result>>

\* Mutant of Measure: the way back leads to the beginning of the file.
MeasureFromStart ==
    /\ do = "measure"
    /\ Source.kind = "lengther" \/ (Source.kind = "seeker" /\ Source.seek = "ok")
    /\ Measured(size, <<>>, TRUE, FALSE)
    /\ pos' = 0
    /\ UNCHANGED <<call, path, size, whole, resized, writer, sent, extra, result>>

Measure ==
    /\ do = "measure"
    /\ Source.kind = "lengther" \/ (Source.kind = "seeker" /\ Source.seek = "ok")
    /\ Measured(size - pos, <<>>, TRUE, FALSE)
    /\ UNCHANGED <<call, path, pos, size, whole, resized, writer, sent, extra, result>>

\* The end was found but not the way back: nothing is left to read.
MeasureStuck ==
    /\ do = "measure"
    /\ Source.kind = "seeker" /\ Source.seek = "stuck"
    /\ Measured(size - pos, <<>>, FALSE, TRUE)
    /\ UNCHANGED <<call, path, pos, size, whole, resized, writer, sent, extra, result>>

\* Otherwise the reader is copied: its size is what could be read, and an error
\* is kept for whoever reads the copy.
MeasureByCopy ==
    /\ do = "measure"
    /\ Source.kind = "plain" \/ (Source.kind = "seeker" /\ Source.seek = "fails")
    /\ Measured(Len(Readable(pos)), Readable(pos), FALSE, FailsBefore(size + 1))
    /\ pos' = pos + Len(Readable(pos))
    /\ UNCHANGED <<call, path, size, whole, resized, writer, sent, extra, result>>

\* Mutant of Sniff: what was read is not put back.
SniffLost ==
    /\ do = "sniff"
    /\ IF Source.typed \/ ~media.direct THEN UNCHANGED <<media, pos>>
       ELSE \E n \in 0..SniffLen :
              /\ n <= Len(Readable(pos))
              /\ Readable(pos) # <<>> => n > 0
              /\ pos' = pos + n
              /\ UNCHANGED media
    /\ writer' = "json header"
    /\ do' = "expand"
    /\ UNCHANGED <<call, path, size, whole, resized, announced, sent, extra, result>>

\* getMediaType reads the beginning, unless the reader knows its type, and puts
\* it back in front.  A file may give fewer bytes than asked for.
Sniff ==
    /\ do = "sniff"
    /\ IF Source.typed \/ ~media.direct THEN UNCHANGED <<media, pos>>
       ELSE \E n \in 0..SniffLen :
              /\ n <= Len(Readable(pos))
              /\ Readable(pos) # <<>> => n > 0
              /\ media' = [media EXCEPT !.front = SubSeq(Readable(pos), 1, n)]
              /\ pos' = pos + n
    /\ writer' = "json header"
    /\ do' = "expand"
    /\ UNCHANGED <<call, path, size, whole, resized, announced, sent, extra, result>>

\* googleapi.Expand, SetOpaque: when the template cannot be expanded the path
\* keeps its braces.
ExpandPath ==
    /\ do = "expand"
    /\ path' = IF Expandable(call.template, call.values)
               THEN Expand(call.template, call.values) ELSE path
    /\ do' = "send"
    /\ UNCHANGED <<call, pos, size, whole, resized, media, announced, writer, sent, extra, result>>

\* client.Do: the RoundTrip of goauth2 has a token and the request goes out.
Send ==
    /\ do = "send"
    /\ do' = IF Source = NoMedia THEN "answer" ELSE "transmit"
    /\ UNCHANGED <<call, path, pos, size, whole, resized, media, announced, writer, sent, extra, result>>

\* RoundTrip returns before it sends, because there is no token: nobody reads
\* the body and nobody closes it.
SendRefused ==
    /\ do = "send"
    /\ do' = "done"
    /\ result' = "error"
    /\ UNCHANGED <<call, path, pos, size, whole, resized, media, announced, writer, sent, extra>>

-----------------------------------------------------------------------------
(* The goroutine and the transport, at the two ends of the pipe.           *)

After(w) == CASE w = "json header" -> "json"
              [] w = "json" -> "media header"
              [] w = "media header" -> "media"
              [] w = "boundary" -> "close"

\* A token goes through the pipe.  Beyond the announced length it is read and
\* thrown away.
Pass(token) ==
    /\ do = "transmit"
    /\ IF Len(sent) < announced
       THEN sent' = Append(sent, token) /\ UNCHANGED extra
       ELSE extra' = extra + 1 /\ UNCHANGED sent
    /\ UNCHANGED <<call, path, do, size, whole, resized, announced, result>>

WriteFraming ==
    /\ writer \in Framing
    /\ Pass(Frame(writer))
    /\ writer' = After(writer)
    /\ UNCHANGED <<pos, media>>

\* io.Copy(w, media), one byte.
WriteFront ==
    /\ writer = "media"
    /\ media.front # <<>>
    /\ Pass(Byte(Head(media.front)))
    /\ media' = [media EXCEPT !.front = Tail(media.front)]
    /\ UNCHANGED <<writer, pos>>

WriteDirect ==
    /\ writer = "media"
    /\ media.front = <<>> /\ media.direct
    /\ Readable(pos) # <<>>
    /\ Pass(Byte(pos + 1))
    /\ pos' = pos + 1
    /\ UNCHANGED <<writer, media>>

\* The media is at its end, or reading it fails: in both cases the deferred
\* mpw.Close() writes the final boundary.
MediaEnds ==
    /\ writer = "media"
    /\ media.front = <<>>
    /\ media.direct => Readable(pos) = <<>>
    /\ writer' = "boundary"
    /\ UNCHANGED <<call, path, do, pos, size, whole, resized, media, announced, sent, extra, result>>

\* Mutant of ClosePipe: pw.Close() is not deferred but the last statement, which
\* a goroutine does not reach when reading the media fails.
ClosePipeLast ==
    /\ writer = "close"
    /\ ~media.fails
    /\ writer' = "ended"
    /\ UNCHANGED <<call, path, do, pos, size, whole, resized, media, announced, sent, extra, result>>

\* The deferred pw.Close().
ClosePipe ==
    /\ writer = "close"
    /\ writer' = "ended"
    /\ UNCHANGED <<call, path, do, pos, size, whole, resized, media, announced, sent, extra, result>>

\* The transport reads EOF and compares what it read with the Content-Length.
ReadEof ==
    /\ do = "transmit"
    /\ writer = "ended"
    /\ IF Len(sent) = announced /\ extra = 0
       THEN do' = "answer" /\ UNCHANGED result
       ELSE do' = "done" /\ result' = "mismatch"
    /\ UNCHANGED <<call, path, pos, size, whole, resized, media, announced, writer, sent, extra>>

\* The connection fails, or the server answers early: the transport closes its
\* end of the pipe, and Do is about to return.
Break ==
    /\ do = "transmit"
    /\ do' = "broken"
    /\ result' = "broken"
    /\ UNCHANGED <<call, path, pos, size, whole, resized, media, announced, writer, sent, extra>>

\* Do returns, and does not wait for the goroutine.
ReturnBroken ==
    /\ do = "broken"
    /\ do' = "done"
    /\ UNCHANGED <<call, path, pos, size, whole, resized, media, announced, writer, sent, extra, result>>

\* A write into the pipe that nobody reads any more.  After one of the headers,
\* of the JSON or of the media the function returns, and its deferred calls run:
\* mpw.Close() writes the boundary, which fails as well, and pw.Close() follows.
\* How far the media was read does not matter any more.
WriteFails ==
    /\ result = "broken"
    /\ \/ writer \in Framing
       \/ writer = "media" /\ media.front # <<>>
       \/ writer = "media" /\ media.direct /\ Readable(pos) # <<>>
    /\ writer' = IF writer = "boundary" THEN "close" ELSE "boundary"
    /\ UNCHANGED <<call, path, do, pos, size, whole, resized, media, announced, sent, extra, result>>

\* What a server takes for a complete multipart body.
WellFormed(body) ==
    /\ Len(body) >= Cardinality(Framing)
    /\ SubSeq(body, 1, 3) = <<Frame("json header"), Frame("json"), Frame("media header")>>
    /\ body[Len(body)] = Frame("boundary")
    /\ \A i \in 4..(Len(body) - 1) : body[i] \in {Byte(n) : n \in 1..MaxSize}

MediaPart(body) == [i \in 1..(Len(body) - Cardinality(Framing)) |-> body[i + 3].byte]

\* The response: CheckResponse, the decoding of its body and CloseBody.
GetAnswer ==
    /\ do = "answer"
    /\ \/ result' = "error"
       \/ result' = "ok" /\ (Source # NoMedia => WellFormed(sent))
    /\ do' = "done"
    /\ UNCHANGED <<call, path, pos, size, whole, resized, media, announced, writer, sent, extra>>

\* Somebody writes to the file, or truncates it, while it is being uploaded.
Resize ==
    /\ Source # NoMedia
    /\ Source.kind = "seeker"
    /\ do \in {"sniff", "expand", "send", "transmit"}
    /\ ~resized
    /\ resized' = TRUE
    /\ size' \in 0..MaxSize
    /\ UNCHANGED <<call, path, do, pos, whole, media, announced, writer, sent, extra, result>>

CallStep ==
    \/ Measure \/ MeasureStuck \/ MeasureByCopy \/ Sniff \/ ExpandPath
    \/ Send \/ SendRefused
    \/ WriteFraming \/ WriteFront \/ WriteDirect \/ MediaEnds \/ ClosePipe
    \/ ReadEof \/ ReturnBroken \/ WriteFails \/ GetAnswer

CallNext == StartDo \/ CallStep \/ Break \/ Resize
=============================================================================
