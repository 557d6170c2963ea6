------------------------------ MODULE Response ------------------------------
(* What a script sees of the responses of one connection: the parser fed by    *)
(* reads that end anywhere, the callbacks of wrk.c that collect names, values  *)
(* and body in buffers, and script_response, which hands them to the script.   *)
(* The server sends one of Streams, each with what a reader of HTTP takes it   *)
(* to say; after the connection is lost another one brings another stream.     *)
EXTENDS HttpParser

CONSTANTS
  Streams,      \* what a server may send: see Reply and Stream below
  Later,        \* those it may send after the first connection
  Lossy,        \* those whose connection may be lost on the way
  RECVBUF,      \* what one read takes at most
  MaxRead,      \* bound: bytes of a read that stops before that and before the end
  Connections   \* bound: connections made

\* What a reader of HTTP takes the bytes to say. A reply ends with the byte
\* number end, one behind the last where the end of the connection ends it, and
\* its headers with byte number head. At byte number bad, the end of the
\* connection being one, the stream breaks the protocol; 0 if it does not.
Reply == [end : Nat, head : Nat, keeps : BOOLEAN, eof : BOOLEAN, status : Nat,
          headers : Seq([name : Seq(STRING), value : Seq(STRING)]),
          body : Seq(STRING)]
Stream == [bytes : Seq(STRING), replies : Seq(Reply), bad : Nat]

ASSUME ResponseAssumption ==
  /\ Streams \subseteq Stream
  /\ Later \cup Lossy \subseteq Streams
  /\ {RECVBUF, MaxRead, Connections} \subseteq Nat \ {0}

VARIABLES
  stream,       \* what the server sends on this connection
  got,          \* bytes of it read, one more when its end has been seen
  parser,       \* c->parser
  conn,         \* c->state, c->headers, c->body
  open,         \* the connection is there
  seen,         \* responses given to the script on this connection
  connections,  \* connections made so far
  cut           \* an earlier one ended inside a response

vars == <<stream, got, parser, conn, open, seen, connections, cut>>

Buffer == [allocated |-> FALSE, mem |-> <<>>, cursor |-> 0]

Init ==
  /\ stream \in Streams
  /\ got = 0
  /\ parser = NewParser
  /\ conn = [state |-> "FIELD", headers |-> Buffer, body |-> Buffer]
  /\ open = TRUE
  /\ seen = <<>>
  /\ connections = 1
  /\ cut = FALSE

-----------------------------------------------------------------------------
(* Buffers. What lies behind the cursor is left from what was there before.    *)

Write(b, text) ==
  [b EXCEPT !.mem = SubSeq(@, 1, b.cursor) \o text
                      \o SubSeq(@, b.cursor + Len(text) + 1, Len(@)),
            !.cursor = @ + Len(text)]

buffer_append(b, text) == [Write(b, text) EXCEPT !.allocated = TRUE]

\* A fault for the checks: what the script was given stays in the buffer.
KeepText(b) == b

buffer_reset(b) == [b EXCEPT !.cursor = 0]

\* strchr(start, 0); there is a NUL behind every name and value.
StringEnd(b, i) ==
  CHOOSE j \in i .. Len(b.mem) + 1 :
    /\ j = Len(b.mem) + 1 \/ b.mem[j] = "NUL"
    /\ \A k \in i .. j - 1 : b.mem[k] # "NUL"

\* The table of headers: names and values by turns, up to the cursor.
Headers(b) ==
  LET pairs[i \in Nat] ==
        IF i > b.cursor THEN <<>>
        ELSE LET e == StringEnd(b, i)
                 v == StringEnd(b, e + 1)
             IN <<[name |-> SubSeq(b.mem, i, e - 1),
                   value |-> SubSeq(b.mem, e + 1, v - 1)]>> \o pairs[v + 1]
  IN pairs[1]

-----------------------------------------------------------------------------
(* The callbacks. cc is the connection and what the script has seen.           *)

\* A change between names and values ends the string before it.
Turn(c, state) ==
  IF c.state = state THEN c
  ELSE [c EXCEPT !.state = state, !.headers = Write(@, <<"NUL">>)]

header_field(c, text) ==
  LET t == Turn(c, "FIELD") IN [t EXCEPT !.headers = buffer_append(@, text)]

header_value(c, text) ==
  LET t == Turn(c, "VALUE") IN [t EXCEPT !.headers = buffer_append(@, text)]

response_body(c, text) == [c EXCEPT !.body = buffer_append(@, text)]

\* script_response resets the buffers; without one nothing is called.
response_complete(cc, status) ==
  LET h == Write(cc.conn.headers, <<"NUL">>) IN
  IF ~cc.conn.headers.allocated THEN cc
  ELSE [conn |-> [state |-> "FIELD", headers |-> buffer_reset(h),
                  body |-> buffer_reset(cc.conn.body)],
        seen |-> Append(cc.seen, [status |-> status, headers |-> Headers(h),
                                  body |-> SubSeq(cc.conn.body.mem, 1,
                                                  cc.conn.body.cursor)])]

Callback(cc, call) ==
  CASE call.to = "header_field" -> [cc EXCEPT !.conn = header_field(@, call.text)]
    [] call.to = "header_value" -> [cc EXCEPT !.conn = header_value(@, call.text)]
    [] call.to = "body" -> [cc EXCEPT !.conn = response_body(@, call.text)]
    [] call.to = "message_complete" -> response_complete(cc, call.status)

\* The connection after each call of one read.
After(calls) ==
  LET after[i \in 0 .. Len(calls)] ==
        IF i = 0 THEN [conn |-> conn, seen |-> seen]
        ELSE Callback(after[i - 1], calls[i])
  IN after
Callbacks(calls) == After(calls)[Len(calls)]

-----------------------------------------------------------------------------
(* The connection.                                                             *)

\* The parser as it waits for the next read.
AtRest(p) == [p EXCEPT !.calls = <<>>, !.run = 0, !.taken = 0, !.stopped = FALSE]

\* The connection is given up when the parser has not taken all bytes, and by
\* response_complete behind a response that does not keep it.
Closes(p, n) ==
  \/ p.taken # n
  \/ p.state = "s_dead"
  \/ p.state = "s_body_identity_eof" /\ n = 0

socket_readable(data) ==
  LET p == http_parser_execute(parser, data)
      cc == Callbacks(p.calls)
  IN /\ open
     /\ parser' = AtRest(p)
     /\ conn' = cc.conn
     /\ seen' = cc.seen
     /\ open' = ~Closes(p, Len(data))
     /\ UNCHANGED <<stream, connections, cut>>

\* A read stops anywhere.
Read(n) ==
  /\ got + n <= Len(stream.bytes)
  /\ n <= RECVBUF
  /\ n <= MaxRead \/ n = RECVBUF \/ got + n = Len(stream.bytes)
  /\ got' = got + n
  /\ socket_readable(SubSeq(stream.bytes, got + 1, got + n))

EndOfFile ==
  /\ got = Len(stream.bytes)
  /\ got' = got + 1
  /\ socket_readable(<<>>)

\* A reset, or the error of a read.
Lose ==
  /\ open
  /\ stream \in Lossy
  /\ open' = FALSE
  /\ UNCHANGED <<stream, got, parser, conn, seen, connections, cut>>

Finished == {i \in DOMAIN stream.replies : stream.replies[i].end <= got}
InReply ==
  LET last == IF Finished = {} THEN 0 ELSE stream.replies[Cardinality(Finished)].end
  IN got > last /\ Len(stream.bytes) > last

\* The next connection: the parser starts afresh, the buffers go on.
socket_connected ==
  /\ ~open
  /\ connections < Connections
  /\ connections' = connections + 1
  /\ cut' = (cut \/ InReply)
  /\ stream' \in Later
  /\ got' = 0
  /\ parser' = NewParser
  /\ open' = TRUE
  /\ seen' = <<>>
  /\ UNCHANGED conn

Next ==
  \/ \E n \in 1 .. Len(stream.bytes) : Read(n)
  \/ EndOfFile
  \/ Lose
  \/ socket_connected

Spec == Init /\ [][Next]_vars

-----------------------------------------------------------------------------
(* Properties.                                                                 *)

\* The variables have their types, and no mark outlives a read.
TypeOK ==
  /\ stream \in Streams
  /\ got \in 0 .. Len(stream.bytes) + 1
  /\ parser.content_length \in 0 .. ULLONG_MAX
  /\ parser.http_errno = "HPE_OK" => parser.marked = {}
  /\ conn.state \in {"FIELD", "VALUE"}
  /\ conn.headers.cursor <= Len(conn.headers.mem)
  /\ conn.body.cursor <= Len(conn.body.mem)
  /\ {open, cut} \subseteq BOOLEAN
  /\ connections \in 1 .. Connections

Content(reply) ==
  [status |-> reply.status, headers |-> reply.headers, body |-> reply.body]

AllSeen == seen = [i \in 1 .. Cardinality(Finished) |-> Content(stream.replies[i])]

\* Wherever the reads end, the script gets every response whole, once, and with
\* its last byte (http_parser.c:2055, the marks left at the end of a read;
\* wrk.c:492-516), as long as no connection has ended inside a response. A first
\* response without any header never reaches the script (wrk.c:596); no stream checked begins with one.
ScriptSeesResponses == ~cut => AllSeen

\* "response() is called with the HTTP response status, headers, and body."
\* (SCRIPTING:77): those of the response, whatever became of others.
ScriptSeesOnlyResponses == AllSeen

\* The parser refuses what breaks the protocol at the byte that does, and
\* nothing else, so a length it cannot hold is not taken for another
\* (http_parser.c:1587). Only of headers that are too long it may have enough
\* before the limit, and once it has refused it takes nothing more.
RefusesOnlyBad ==
  /\ parser.http_errno # "HPE_OK" =>
       /\ stream.bad # 0
       /\ got >= stream.bad \/ parser.http_errno = "HPE_HEADER_OVERFLOW"
  /\ stream.bad # 0 /\ got >= stream.bad => parser.http_errno # "HPE_OK"

\* Where the parser is, as TcpClient has it, is where the server is: between
\* responses, inside one, in one that the end of the connection ends, or behind
\* the last one of the connection (http_parser.c:2102).
Where ==
  CASE parser.state = "s_start_res" -> "start"
    [] parser.state = "s_dead" -> "dead"
    [] parser.state = "s_body_identity_eof" -> "until_eof"
    [] OTHER -> "mid"

StateTellsWhere ==
  LET n == Cardinality(Finished) IN
  parser.http_errno = "HPE_OK" =>
    Where = IF InReply
              THEN IF n < Len(stream.replies) /\ stream.replies[n + 1].eof
                        /\ got >= stream.replies[n + 1].head
                     THEN "until_eof" ELSE "mid"
              ELSE IF n = 0 \/ stream.replies[n].keeps THEN "start"
                   ELSE IF stream.replies[n].eof THEN "until_eof" ELSE "dead"

\* No assert of the parser fails: at most one mark is left at the end of a read
\* (http_parser.c:2055), a chunk size begins with nothing counted (1922), and
\* a body that is read has bytes left (1877, 2005, 2025).
NoAssertFails == ~parser.failed
===============================================================================
