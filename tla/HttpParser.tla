----------------------------- MODULE HttpParser -----------------------------
(* http_parser_execute (http_parser.c) on responses, as wrk runs it, with the  *)
(* callbacks it makes as a list of calls. Bytes are strings: one character, or *)
(* a piece of a word the parser spells out ("content-", "length"), so that a   *)
(* read may end inside every word. s is the parser together with the local     *)
(* variables of one call. A byte that REEXECUTE gives to another state is      *)
(* handed to the operator of that state.                                       *)
EXTENDS Integers, Sequences, FiniteSets, TLC

CONSTANTS
  ULLONG_MAX,            \* 2^64 - 1, and the length of a body without one
  HTTP_MAX_HEADER_SIZE

ASSUME ParserAssumption ==
  ULLONG_MAX \in Nat /\ ULLONG_MAX > 32 /\ HTTP_MAX_HEADER_SIZE \in Nat \ {0}

Digits == <<"0", "1", "2", "3", "4", "5", "6", "7", "8", "9", "a">>
unhex == [c \in {Digits[i] : i \in DOMAIN Digits} |->
            CHOOSE v \in 0 .. 10 : Digits[v + 1] = c]
IS_NUM(c) == c \in DOMAIN unhex \ {"a"}
EOL == {"CR", "LF"}
TOKEN(c) == c \notin EOL \cup {" ", ":", ",", ";", "(", "/", "TTP/"}

\* States in which bytes do not count as header.
BodyStates == {"s_chunk_data", "s_chunk_data_almost_done", "s_chunk_data_done",
               "s_body_identity", "s_body_identity_eof", "s_message_done"}

\* The words the parser looks for: what their first piece starts to match, in a
\* name and in a value of Connection or Transfer-Encoding; the piece that must
\* follow; what has then been found.
FieldStart == ("connec" :> "h_matching_connection") @@
              ("proxy-" :> "h_matching_proxy_connection") @@
              ("content-" :> "h_matching_content_length") @@
              ("transfer-" :> "h_matching_transfer_encoding") @@
              ("up" :> "h_matching_upgrade")
TokenStart == ("keep-" :> "h_matching_connection_keep_alive") @@
              ("clo" :> "h_matching_connection_close") @@
              ("up" :> "h_matching_connection_upgrade")
Rest == [h_matching_connection |-> "tion",
         h_matching_proxy_connection |-> "connection",
         h_matching_content_length |-> "length",
         h_matching_transfer_encoding |-> "encoding",
         h_matching_upgrade |-> "grade",
         h_matching_transfer_encoding_chunked |-> "ked",
         h_matching_connection_keep_alive |-> "alive",
         h_matching_connection_close |-> "se",
         h_matching_connection_upgrade |-> "grade"]
Found == [h_matching_connection |-> "h_connection",
          h_matching_proxy_connection |-> "h_connection",
          h_matching_content_length |-> "h_content_length",
          h_matching_transfer_encoding |-> "h_transfer_encoding",
          h_matching_upgrade |-> "h_upgrade",
          h_matching_transfer_encoding_chunked |-> "h_transfer_encoding_chunked",
          h_matching_connection_keep_alive |-> "h_connection_keep_alive",
          h_matching_connection_close |-> "h_connection_close",
          h_matching_connection_upgrade |-> "h_connection_upgrade"]
Flag == [h_connection_keep_alive |-> "F_CONNECTION_KEEP_ALIVE",
         h_connection_close |-> "F_CONNECTION_CLOSE",
         h_connection_upgrade |-> "F_CONNECTION_UPGRADE",
         h_transfer_encoding_chunked |-> "F_CHUNKED"]

Matches(h, c, other) == IF Rest[h] = c THEN Found[h] ELSE other
Flags(s) == IF s.header_state \in DOMAIN Flag THEN {Flag[s.header_state]} ELSE {}

Marks == {"header_field", "header_value", "body", "status"}

\* http_parser_init keeps what belongs to the call.
http_parser_init(s) ==
  [s EXCEPT !.state = "s_start_res", !.header_state = "h_general", !.flags = {},
            !.content_length = 0, !.nread = 0, !.http_major = 0,
            !.http_minor = 0, !.status_code = 0, !.upgrade = FALSE,
            !.http_errno = "HPE_OK"]

\* marked, text: the marks that are set and the bytes since; run: bytes the
\* inner loop over a name or value has seen; failed: an assert did not hold;
\* stopped: execute has returned early, taken is what it returns.
NewParser ==
  http_parser_init(
    [state |-> "s_dead", header_state |-> "h_general", flags |-> {},
     content_length |-> 0, nread |-> 0, http_major |-> 0, http_minor |-> 0,
     status_code |-> 0, upgrade |-> FALSE, http_errno |-> "HPE_OK",
     marked |-> {}, text |-> [m \in Marks |-> <<>>], run |-> 0, calls |-> <<>>,
     failed |-> FALSE, stopped |-> FALSE, taken |-> 0])

-----------------------------------------------------------------------------
(* The macros.                                                                 *)

Goto(s, st) == [s EXCEPT !.state = st]
Error(s, e) == [s EXCEPT !.http_errno = e]
Assert_(s, holds) == [s EXCEPT !.failed = @ \/ ~holds]
STRICT_CHECK(s, wrong, then) == IF wrong THEN Error(s, "HPE_STRICT") ELSE then

COUNT_HEADER_SIZE(s, n) ==
  IF s.nread + n > HTTP_MAX_HEADER_SIZE
    THEN Error([s EXCEPT !.nread = @ + n], "HPE_HEADER_OVERFLOW")
    ELSE [s EXCEPT !.nread = @ + n]

MARK(s, m) == [s EXCEPT !.marked = @ \cup {m}]

\* A fault for the checks: the mark stays when its bytes are delivered.
CallbackKeepsMark(s, m) ==
  IF m \notin s.marked \/ m = "status" THEN s
  ELSE [s EXCEPT !.calls = Append(@, [to |-> m, text |-> s.text[m], status |-> 0])]

\* wrk has no on_status.
CALLBACK_DATA(s, m) ==
  IF m \notin s.marked THEN s
  ELSE [s EXCEPT !.marked = @ \ {m}, !.text[m] = <<>>,
          !.calls = IF m = "status" THEN @
                    ELSE Append(@, [to |-> m, text |-> s.text[m], status |-> 0])]

\* The body is delivered with the byte at hand.
CALLBACK_BODY(s, ch) ==
  CALLBACK_DATA([s EXCEPT !.text["body"] = Append(@, ch)], "body")

http_message_needs_eof(s) ==
  /\ s.status_code \div 100 # 1
  /\ s.status_code \notin {204, 304}
  /\ "F_CHUNKED" \notin s.flags
  /\ s.content_length = ULLONG_MAX

\* A fault for the checks: HTTP/1.0 keeps the connection as 1.1 does.
KeepsUnlessClosed(s) ==
  "F_CONNECTION_CLOSE" \notin s.flags /\ ~http_message_needs_eof(s)

http_should_keep_alive(s) ==
  /\ IF s.http_major > 0 /\ s.http_minor > 0
       THEN "F_CONNECTION_CLOSE" \notin s.flags
       ELSE "F_CONNECTION_KEEP_ALIVE" \in s.flags
  /\ ~http_message_needs_eof(s)

NEW_MESSAGE(s) == IF http_should_keep_alive(s) THEN "s_start_res" ELSE "s_dead"

\* on_message_complete is response_complete, which initialises a parser that
\* goes on; the state it leaves is the one the parser goes on with.
MessageComplete(s) ==
  LET t == [s EXCEPT !.calls = Append(@, [to |-> "message_complete", text |-> <<>>,
                                          status |-> s.status_code])]
  IN IF http_should_keep_alive(s) THEN http_parser_init(t) ELSE t

EndMessage(s) == MessageComplete(Goto(s, NEW_MESSAGE(s)))

-----------------------------------------------------------------------------
(* The status line.                                                            *)

s_dead(s, ch) == IF ch \in EOL THEN s ELSE Error(s, "HPE_CLOSED_CONNECTION")

s_start_res(s, ch) ==
  LET t == [s EXCEPT !.flags = {}, !.content_length = ULLONG_MAX] IN
  CASE ch = "H" -> Goto(t, "s_res_H")
    [] ch \in EOL -> t
    [] OTHER -> Error(t, "HPE_INVALID_CONSTANT")

s_res_H(s, ch) == STRICT_CHECK(s, ch # "TTP/", Goto(s, "s_res_first_http_major"))

\* One more digit of a number of at most three.
More(n, ch) == n * 10 + unhex[ch]

Version(s, ch) ==
  CASE s.state = "s_res_http_major" /\ ch = "." -> Goto(s, "s_res_first_http_minor")
    [] s.state = "s_res_http_minor" /\ ch = " " -> Goto(s, "s_res_first_status_code")
    [] OTHER ->
       LET t == IF ~IS_NUM(ch) THEN s ELSE
                CASE s.state = "s_res_first_http_major" ->
                     Goto([s EXCEPT !.http_major = unhex[ch]], "s_res_http_major")
                  [] s.state = "s_res_http_major" ->
                     [s EXCEPT !.http_major = More(@, ch)]
                  [] s.state = "s_res_first_http_minor" ->
                     Goto([s EXCEPT !.http_minor = unhex[ch]], "s_res_http_minor")
                  [] OTHER -> [s EXCEPT !.http_minor = More(@, ch)]
       IN IF ~IS_NUM(ch) \/ t.http_major > 999 \/ t.http_minor > 999
            THEN Error(t, "HPE_INVALID_VERSION")
            ELSE t

\* A line that ends: at CR, or at a LF on its own.
EndLine(s, ch) ==
  Goto(s, IF ch = "CR" THEN "s_res_line_almost_done" ELSE "s_header_field_start")

StatusCode(s, ch) ==
  LET first == s.state = "s_res_first_status_code"
      t == [s EXCEPT !.status_code = IF first THEN unhex[ch] ELSE More(@, ch)]
  IN CASE IS_NUM(ch) -> IF t.status_code > 999 THEN Error(t, "HPE_INVALID_STATUS")
                        ELSE Goto(t, "s_res_status_code")
       [] ch = " " -> IF first THEN s ELSE Goto(s, "s_res_status_start")
       [] ch \in EOL /\ ~first -> EndLine(s, ch)
       [] OTHER -> Error(s, "HPE_INVALID_STATUS")

s_res_status_start(s, ch) ==
  IF ch \in EOL THEN EndLine(s, ch) ELSE Goto(MARK(s, "status"), "s_res_status")

s_res_status(s, ch) ==
  IF ch \in EOL THEN CALLBACK_DATA(EndLine(s, ch), "status") ELSE s

s_res_line_almost_done(s, ch) ==
  STRICT_CHECK(s, ch # "LF", Goto(s, "s_header_field_start"))

-----------------------------------------------------------------------------
(* The end of the headers, and then the headers, from the last state back to   *)
(* the first: a byte is only ever handed on to a state defined before.         *)

\* A fault for the checks: a length of zero waits for a body.
DoneZeroLength(s) ==
  Goto([s EXCEPT !.nread = 0],
       CASE "F_CHUNKED" \in s.flags -> "s_chunk_size_start"
         [] s.content_length # ULLONG_MAX -> "s_body_identity"
         [] OTHER -> "s_body_identity_eof")

s_headers_done(s) ==
  LET t == [s EXCEPT !.nread = 0] IN
  CASE s.upgrade -> [EndMessage(t) EXCEPT !.stopped = TRUE]
    [] ~s.upgrade /\ "F_CHUNKED" \in s.flags -> Goto(t, "s_chunk_size_start")
    [] OTHER ->
       CASE s.content_length = 0 -> EndMessage(t)
         [] s.content_length \notin {0, ULLONG_MAX} -> Goto(t, "s_body_identity")
         [] OTHER -> IF http_message_needs_eof(s) THEN Goto(t, "s_body_identity_eof")
                     ELSE EndMessage(t)

\* A byte handed on counts again.
Again(s, then) == IF s.http_errno = "HPE_OK" THEN then ELSE s

\* The last line feed, of the headers or of the trailers behind the chunks.
s_headers_almost_done(s, ch) ==
  LET t == COUNT_HEADER_SIZE(
             [Goto(s, "s_headers_done") EXCEPT
                !.upgrade = {"F_UPGRADE", "F_CONNECTION_UPGRADE"} \subseteq s.flags], 1)
  IN STRICT_CHECK(s, ch # "LF",
       IF "F_TRAILING" \in s.flags THEN EndMessage(s)
                                   ELSE Again(t, s_headers_done(t)))

s_header_field_start(s, ch) ==
  CASE ch = "CR" -> Goto(s, "s_headers_almost_done")
    [] ch = "LF" -> LET t == COUNT_HEADER_SIZE(Goto(s, "s_headers_almost_done"), 1)
                    IN Again(t, s_headers_almost_done(t, ch))
    [] ch \notin EOL /\ ~TOKEN(ch) -> Error(s, "HPE_INVALID_HEADER_TOKEN")
    [] OTHER -> [Goto(MARK(s, "header_field"), "s_header_field") EXCEPT
                   !.run = 0,
                   !.header_state = IF ch \in DOMAIN FieldStart THEN FieldStart[ch]
                                                                ELSE "h_general"]

\* A name that goes on behind the word it spelled is another name. The bytes
\* of the inner loop count when it ends.
s_header_field(s, ch) ==
  LET t == COUNT_HEADER_SIZE(s, s.run) IN
  CASE TOKEN(ch) -> [s EXCEPT !.run = @ + 1,
                       !.header_state = IF @ \in DOMAIN Rest
                                          THEN Matches(@, ch, "h_general")
                                          ELSE "h_general"]
    [] ch = ":" -> Again(t, CALLBACK_DATA(Goto(t, "s_header_value_discard_ws"),
                                          "header_field"))
    [] OTHER -> Again(t, Error(t, "HPE_INVALID_HEADER_TOKEN"))

\* The first byte of a value, or of the continuation of one.
s_header_value_start(s, ch) ==
  LET t == [Goto(MARK(s, "header_value"), "s_header_value") EXCEPT !.run = 0]
      h == s.header_state
  IN CASE h = "h_upgrade" -> [t EXCEPT !.flags = @ \cup {"F_UPGRADE"},
                                       !.header_state = "h_general"]
       [] h = "h_transfer_encoding" ->
          [t EXCEPT !.header_state = IF ch = "chun"
                                       THEN "h_matching_transfer_encoding_chunked"
                                       ELSE "h_general"]
       [] h = "h_content_length" ->
          IF IS_NUM(ch) THEN [t EXCEPT !.content_length = unhex[ch]]
                        ELSE Error(t, "HPE_INVALID_CONTENT_LENGTH")
       [] h = "h_connection" ->
          [t EXCEPT !.header_state = IF ch \in DOMAIN TokenStart THEN TokenStart[ch]
                                     ELSE "h_matching_connection_token"]
       [] h = "h_matching_connection_token_start" -> t
       [] OTHER -> [t EXCEPT !.header_state = "h_general"]

s_header_value_discard_ws(s, ch) ==
  CASE ch = " "  -> s
    [] ch = "CR" -> Goto(s, "s_header_value_discard_ws_almost_done")
    [] ch = "LF" -> Goto(s, "s_header_value_discard_lws")
    [] OTHER -> s_header_value_start(s, ch)

\* A fault for the checks: the test of the length comes after the multiplication.
LengthWraps(s, ch, base, e) ==
  [s EXCEPT !.content_length = (@ * base + unhex[ch]) % (ULLONG_MAX + 1)]

\* One more digit of a length, tested before it is taken.
Lengthen(s, ch, base, e) ==
  IF (ULLONG_MAX - base) \div base < s.content_length
    THEN Error(s, "HPE_INVALID_CONTENT_LENGTH")
    ELSE [s EXCEPT !.content_length = @ * base + unhex[ch]]

\* Where the tokens of a Connection header lead; a comma sets the flag of the
\* one before it.
ConnectionToken(s, ch) ==
  LET h == s.header_state
      found == DOMAIN Flag \ {"h_transfer_encoding_chunked"}
  IN [s EXCEPT
        !.flags = IF h \in found /\ ch = "," THEN @ \cup Flags(s) ELSE @,
        !.header_state =
          CASE h = "h_matching_connection_token_start" /\ ch \in DOMAIN TokenStart ->
                 TokenStart[ch]
            [] h = "h_matching_connection_token_start" /\ ch = " " -> h
            [] h = "h_matching_connection_token_start" /\ ch \notin DOMAIN TokenStart
                 /\ ch # " " ->
                 IF TOKEN(ch) THEN "h_matching_connection_token" ELSE "h_general"
            [] h \in DOMAIN Rest -> Matches(h, ch, "h_matching_connection_token")
            [] h \in found /\ ch = " " -> h
            [] h \in found \cup {"h_matching_connection_token"} /\ ch = "," ->
                 "h_matching_connection_token_start"
            [] OTHER -> "h_matching_connection_token"]

\* The bytes of a value. A LF without CR is handed on, and the value counts a
\* second time.
s_header_value(s, ch) ==
  LET h == s.header_state
      t == [s EXCEPT !.run = @ + 1]
      ended == CALLBACK_DATA(Goto(s, "s_header_almost_done"), "header_value")
  IN CASE ch = "CR" -> COUNT_HEADER_SIZE(ended, s.run)
       [] ch = "LF" -> LET u == COUNT_HEADER_SIZE(s, s.run)
                           v == COUNT_HEADER_SIZE(CALLBACK_DATA(u, "header_value"), s.run)
                       IN Again(u, Goto(v, IF v.http_errno = "HPE_OK"
                                             THEN "s_header_value_lws"
                                             ELSE "s_header_almost_done"))
       [] ch \notin EOL /\ h = "h_general" -> t
       [] ch \notin EOL /\ h = "h_content_length" ->
          CASE ch = " " -> t
            [] IS_NUM(ch) -> Lengthen(t, ch, 10, h)
            [] OTHER -> Error(t, "HPE_INVALID_CONTENT_LENGTH")
       [] ch \notin EOL /\ h = "h_matching_transfer_encoding_chunked" ->
          [t EXCEPT !.header_state = Matches(h, ch, "h_general")]
       [] ch \notin EOL /\ h = "h_transfer_encoding_chunked" ->
          [t EXCEPT !.header_state = IF ch = " " THEN h ELSE "h_general"]
       [] OTHER -> ConnectionToken(t, ch)

s_header_almost_done(s, ch) ==
  STRICT_CHECK(s, ch # "LF", Goto(s, "s_header_value_lws"))

\* The header is over unless the next line continues it.
s_header_value_lws(s, ch) ==
  IF ch = " "
    THEN LET t == COUNT_HEADER_SIZE(Goto(s, "s_header_value_start"), 1)
         IN Again(t, s_header_value_start(t, ch))
    ELSE LET t == COUNT_HEADER_SIZE([Goto(s, "s_header_field_start") EXCEPT
                                       !.flags = @ \cup Flags(s)], 1)
         IN Again(t, s_header_field_start(t, ch))

\* A value that is empty is delivered as such.
s_header_value_discard_lws(s, ch) ==
  IF ch = " " THEN Goto(s, "s_header_value_discard_ws")
  ELSE LET t == COUNT_HEADER_SIZE(
                  CALLBACK_DATA(MARK([Goto(s, "s_header_field_start") EXCEPT
                                        !.flags = @ \cup Flags(s)], "header_value"),
                                "header_value"), 1)
       IN Again(t, s_header_field_start(t, ch))

-----------------------------------------------------------------------------
(* The body. A run of body bytes is read one by one here, which leaves the     *)
(* same length and the same mark as the code's skip over it.                   *)

s_body_identity(s, ch) ==
  LET t == Assert_([MARK(s, "body") EXCEPT !.content_length = @ - 1],
                   s.content_length \notin {0, ULLONG_MAX})
  IN IF t.content_length = 0 THEN EndMessage(CALLBACK_BODY(t, ch)) ELSE t

s_chunk_size_start(s, ch) ==
  LET t == Assert_(s, s.nread = 1 /\ "F_CHUNKED" \in s.flags) IN
  IF ch \in DOMAIN unhex
    THEN Goto([t EXCEPT !.content_length = unhex[ch]], "s_chunk_size")
    ELSE Error(t, "HPE_INVALID_CHUNK_SIZE")

s_chunk_size(s, ch) ==
  CASE ch = "CR" -> Goto(s, "s_chunk_size_almost_done")
    [] ch \in DOMAIN unhex -> Lengthen(s, ch, 16, s.header_state)
    [] ch \in {";", " "} -> Goto(s, "s_chunk_parameters")
    [] OTHER -> Error(s, "HPE_INVALID_CHUNK_SIZE")

s_chunk_parameters(s, ch) ==
  IF ch = "CR" THEN Goto(s, "s_chunk_size_almost_done") ELSE s

\* The chunk of size zero is followed by trailers, which are read as headers.
s_chunk_size_almost_done(s, ch) ==
  LET t == [s EXCEPT !.nread = 0] IN
  STRICT_CHECK(s, ch # "LF",
    IF s.content_length = 0
      THEN Goto([t EXCEPT !.flags = @ \cup {"F_TRAILING"}], "s_header_field_start")
      ELSE Goto(t, "s_chunk_data"))

s_chunk_data(s, ch) ==
  LET t == Assert_([MARK(s, "body") EXCEPT !.content_length = @ - 1],
                   "F_CHUNKED" \in s.flags /\ s.content_length \notin {0, ULLONG_MAX})
  IN IF t.content_length = 0 THEN Goto(t, "s_chunk_data_almost_done") ELSE t

s_chunk_data_almost_done(s, ch) ==
  STRICT_CHECK(s, ch # "CR",
    CALLBACK_DATA(Goto(Assert_(s, s.content_length = 0), "s_chunk_data_done"), "body"))

s_chunk_data_done(s, ch) ==
  STRICT_CHECK(s, ch # "LF", Goto([s EXCEPT !.nread = 0], "s_chunk_size_start"))

-----------------------------------------------------------------------------
(* http_parser_execute.                                                        *)

Handle(s, ch) ==
  CASE s.state = "s_dead" -> s_dead(s, ch)
    [] s.state = "s_start_res" -> s_start_res(s, ch)
    [] s.state = "s_res_H" -> s_res_H(s, ch)
    [] s.state \in {"s_res_first_http_major", "s_res_http_major",
                    "s_res_first_http_minor", "s_res_http_minor"} -> Version(s, ch)
    [] s.state \in {"s_res_first_status_code", "s_res_status_code"} -> StatusCode(s, ch)
    [] s.state = "s_res_status_start" -> s_res_status_start(s, ch)
    [] s.state = "s_res_status" -> s_res_status(s, ch)
    [] s.state = "s_res_line_almost_done" -> s_res_line_almost_done(s, ch)
    [] s.state = "s_header_field_start" -> s_header_field_start(s, ch)
    [] s.state = "s_header_field" -> s_header_field(s, ch)
    [] s.state = "s_header_value_discard_ws" -> s_header_value_discard_ws(s, ch)
    [] s.state = "s_header_value_discard_ws_almost_done" ->
         STRICT_CHECK(s, ch # "LF", Goto(s, "s_header_value_discard_lws"))
    [] s.state = "s_header_value_discard_lws" -> s_header_value_discard_lws(s, ch)
    [] s.state = "s_header_value" -> s_header_value(s, ch)
    [] s.state = "s_header_almost_done" -> s_header_almost_done(s, ch)
    [] s.state = "s_header_value_lws" -> s_header_value_lws(s, ch)
    [] s.state = "s_headers_almost_done" -> s_headers_almost_done(s, ch)
    [] s.state = "s_body_identity" -> s_body_identity(s, ch)
    [] s.state = "s_body_identity_eof" -> MARK(s, "body")
    [] s.state = "s_chunk_size_start" -> s_chunk_size_start(s, ch)
    [] s.state = "s_chunk_size" -> s_chunk_size(s, ch)
    [] s.state = "s_chunk_parameters" -> s_chunk_parameters(s, ch)
    [] s.state = "s_chunk_size_almost_done" -> s_chunk_size_almost_done(s, ch)
    [] s.state = "s_chunk_data" -> s_chunk_data(s, ch)
    [] s.state = "s_chunk_data_almost_done" -> s_chunk_data_almost_done(s, ch)
    [] s.state = "s_chunk_data_done" -> s_chunk_data_done(s, ch)

\* One turn of the loop: count the byte, handle it, and go past it.
Consume(s, ch) ==
  LET inner == s.state \in {"s_header_field", "s_header_value"} /\ s.run > 0
      counted == IF s.state \in BodyStates \/ inner THEN s ELSE COUNT_HEADER_SIZE(s, 1)
      t == Again(counted, Handle(counted, ch))
  IN IF t.http_errno # "HPE_OK" THEN t
     ELSE [t EXCEPT !.taken = @ + 1,
            !.text = [m \in Marks |-> IF m \in t.marked THEN Append(t.text[m], ch)
                                                        ELSE <<>>]]

\* A call that begins inside a name, a value or a status marks its first byte.
Enter(s) ==
  [s EXCEPT !.run = 0, !.taken = 0, !.stopped = FALSE, !.calls = <<>>,
     !.marked = CASE s.state = "s_header_field" -> {"header_field"}
                  [] s.state = "s_header_value" -> {"header_value"}
                  [] s.state = "s_res_status" -> {"status"}
                  [] OTHER -> {}]

\* What is marked when the bytes run out is delivered as it is. A name or a
\* value that goes on counts one byte too many, and if that is too many, all
\* bytes are taken nevertheless.
Leave(s) ==
  IF s.http_errno # "HPE_OK" \/ s.stopped THEN s
  ELSE LET t == IF s.state \in {"s_header_field", "s_header_value"}
                  THEN COUNT_HEADER_SIZE(s, s.run) ELSE s
           u == Assert_(t, Cardinality(t.marked) <= 1)
       IN Again(t, CALLBACK_DATA(CALLBACK_DATA(CALLBACK_DATA(CALLBACK_DATA(u,
                 "header_field"), "header_value"), "body"), "status"))

AtEnd(s) ==
  CASE s.state = "s_body_identity_eof" -> MessageComplete(s)
    [] s.state \in {"s_dead", "s_start_res"} -> s
    [] OTHER -> [Error(s, "HPE_INVALID_EOF_STATE") EXCEPT !.taken = 1]

\* The parser after each byte of a read. Behind an error, and behind an upgrade,
\* it takes no more.
Turns(p, data) ==
  LET turn[i \in 0 .. Len(data)] ==
        IF i = 0 THEN Enter(p)
        ELSE LET s == turn[i - 1] IN
             IF s.http_errno # "HPE_OK" \/ s.stopped THEN s ELSE Consume(s, data[i])
  IN turn

\* The bytes of one read; none is the end of the connection.
http_parser_execute(p, data) ==
  CASE p.http_errno # "HPE_OK" -> [Enter(p) EXCEPT !.marked = {}]
    [] p.http_errno = "HPE_OK" /\ data = <<>> -> AtEnd([Enter(p) EXCEPT !.marked = {}])
    [] OTHER -> Leave(Turns(p, data)[Len(data)])
===============================================================================
