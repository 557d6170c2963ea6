----------------------------- MODULE MCResponse -----------------------------
(* Streams of responses for TLC: the combinations of what decides how long a   *)
(* response is and whether it keeps the connection, and streams that break the *)
(* protocol, each at one byte.                                                 *)
EXTENDS Response, SequencesExt

CRLF == <<"CR", "LF">>
Field(name, value) == [name |-> name, value |-> value]
Line(minor, code) ==
  <<"H", "TTP/", "1", ".", minor, " ">> \o code \o <<" ", "x">> \o CRLF
OnWire(f) == f.name \o <<":", " ">> \o f.value \o CRLF
Unfolded(v) == SelectSeq(v, LAMBDA c : c \notin EOL)

Lengths(d, body) ==
  [code |-> <<"2", "0", "0">>, status |-> 200, eof |-> FALSE, body |-> body,
   fields |-> <<Field(<<"content-", "length">>, d)>>, bytes |-> body, trailers |-> <<>>]
Trailer == Field(<<"up", "x">>, <<"a">>)
Chunked ==
  [Lengths(<<>>, <<"b", "LF", "H">>) EXCEPT
     !.fields = <<Field(<<"transfer-", "encoding">>, <<"chun", "ked">>)>>,
     !.bytes = <<"2", ";", "x">> \o CRLF \o <<"b", "LF">> \o CRLF
               \o <<"1">> \o CRLF \o <<"H">> \o CRLF \o <<"0">> \o CRLF
               \o OnWire(Trailer) \o CRLF,
     !.trailers = <<Trailer>>]
NoContent == [Lengths(<<>>, <<>>) EXCEPT !.code = <<"2", "0", "4">>, !.status = 204,
                                         !.fields = <<>>]
UntilEof == [Lengths(<<>>, <<"b", "CR">>) EXCEPT !.eof = TRUE, !.fields = <<>>]
Framings == {Lengths(<<"0">>, <<>>), Lengths(<<"2">>, <<"b", "CR">>),
             Chunked, NoContent, UntilEof}

Connection(tokens) == <<Field(<<"connec", "tion">>, tokens)>>
KeepAlive == Connection(<<"keep-", "alive">>)
Close == Connection(<<"clo", "se">>)
LateClose == Connection(<<"x", ",", " ", "clo", "se">>)
NotClose == Connection(<<"clo", "se", "x">>)
Tokens == {<<>>, KeepAlive, Close, LateClose, NotClose}
Keeps(minor, t) ==
  IF minor = "1" THEN t \notin {Close, LateClose} ELSE t = KeepAlive

Extras == {<<>>, <<Field(<<"x">>, <<>>)>>,
           <<Field(<<"x", "y">>, <<"a", " ", "CR", "LF", " ", "b">>)>>}

\* One response as the bytes before it leave off.
Response(before, minor, t, fr, ex) ==
  LET fields == t \o ex \o fr.fields
      head == before \o Line(minor, fr.code) \o FlattenSeq([i \in DOMAIN fields |->
                OnWire(fields[i])]) \o CRLF
      bytes == head \o fr.bytes
  IN [bytes |-> bytes,
      reply |-> [end |-> Len(bytes) + (IF fr.eof THEN 1 ELSE 0), head |-> Len(head),
                 keeps |-> Keeps(minor, t) /\ ~fr.eof, eof |-> fr.eof,
                 status |-> fr.status, body |-> fr.body,
                 headers |-> [i \in DOMAIN fields |->
                                Field(fields[i].name, Unfolded(fields[i].value))]
                             \o fr.trailers]]

One(r) == [bytes |-> r.bytes, replies |-> <<r.reply>>, bad |-> 0]
Two(r, s) == [bytes |-> s.bytes, replies |-> <<r.reply, s.reply>>, bad |-> 0]

Singles ==
  {One(Response(<<>>, minor, t, fr, ex)) :
     minor \in {"0", "1"}, t \in Tokens, ex \in Extras, fr \in Framings}
Headed == {s \in Singles : s.replies[1].headers # <<>>}
Firsts == {Response(<<>>, "1", <<>>, Lengths(<<"2">>, <<"b", "CR">>), <<>>),
           Response(<<>>, "1", <<>>, Lengths(<<"0">>, <<>>), <<>>),
           Response(<<>>, "0", KeepAlive, Chunked, <<>>)}
Pairs == UNION {{Two(r, Response(r.bytes, "1", t, fr, <<>>)) :
                   t \in {KeepAlive, Close}, fr \in Framings} : r \in Firsts}

\* Lines that end with a line feed only, and a switch to another protocol.
Plain(r) == [r EXCEPT !.bytes = SelectSeq(@, LAMBDA c : c # "CR"),
                      !.reply.end = @ - 4, !.reply.head = @ - 4]
Switch == [NoContent EXCEPT !.code = <<"1", "0", "1">>, !.status = 101,
                            !.fields = <<Field(<<"up", "grade">>, <<"x">>)>>]
Others ==
  {One(Plain(Response(<<>>, "1", t, Lengths(<<"1", "0">>, [i \in 1 .. 10 |-> "b"]),
                      <<>>))) : t \in {KeepAlive, Close}}
  \cup {One(Response(<<>>, "1", Connection(<<"up", "grade">>), Switch, <<>>))}

\* A response with a wrong byte, or without its end.
Bad(bytes, at) == [bytes |-> bytes, replies |-> <<>>, bad |-> at]
Wrong(before, after) == Bad(before \o after, Len(before) + 1)
Ok == Line("1", <<"2", "0", "0">>)
Length(d) == <<"content-", "length", ":", " ">> \o d
Chunks == OnWire(Chunked.fields[1]) \o CRLF
Broken ==
  {Wrong(<<"H">>, <<"H">>),
   Wrong(<<"H", "TTP/", "1", ".">>, <<".">>),
   Wrong(<<"H", "TTP/", "1", ".", "1", " ", "2", "0">>, <<"b">>),
   Wrong(Ok, <<" ", "x">>),
   Wrong(Ok \o <<"x">>, <<" ", ":">>),
   Wrong(Ok \o <<"x", ":", "x", "CR">>, <<"x">>),
   Wrong(Ok \o Length(<<>>), <<"b", "CR", "LF">>),
   Wrong(Ok \o Length(<<"2", "5">>), <<"7", "CR", "LF", "CR", "LF", "b", "b">>),
   Wrong(Ok \o Chunks, <<"x">>),
   Wrong(Ok \o Chunks \o <<"1", "0">>, <<"1", "CR", "LF", "b">>),
   Wrong(Ok \o Chunks \o <<"1", "CR", "LF", "b">>, <<"b", "CR", "LF">>),
   Bad(Ok \o Length(<<"2", "CR", "LF", "CR", "LF", "b">>), Len(Ok) + 11),
   Bad(Ok \o [i \in 1 .. HTTP_MAX_HEADER_SIZE - Len(Ok) |-> "y"], HTTP_MAX_HEADER_SIZE + 1)}

MCStreams == Headed \cup Pairs \cup Others \cup Broken
MCLater == {s \in Pairs : s.replies[1].keeps /\ s.replies[2].keeps}
MCLossy == {s \in Headed : Len(s.bytes) < 24}
===============================================================================
