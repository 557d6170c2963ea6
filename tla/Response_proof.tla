--------------------------- MODULE Response_proof ---------------------------
(* Proofs about the parser and what wrk collects from it: whatever bytes a     *)
(* server sends and wherever the reads end, no assert of the parser fails.     *)
EXTENDS Response, FiniteSetTheorems, WellFoundedInduction, TLAPS

-----------------------------------------------------------------------------
(* The inductive invariant of the parser.                                      *)

\* A byte. The literal is one of STRING, but the provers do not know it.
Char == STRING \cup {"NUL"}

\* The states a byte is handed to, and those that only last while one is.
ChunkStates ==
  {"s_chunk_size_start", "s_chunk_size", "s_chunk_parameters",
   "s_chunk_size_almost_done", "s_chunk_data", "s_chunk_data_almost_done",
   "s_chunk_data_done"}
States ==
  ChunkStates \cup
  {"s_dead", "s_start_res", "s_res_H", "s_res_first_http_major", "s_res_http_major",
   "s_res_first_http_minor", "s_res_http_minor", "s_res_first_status_code",
   "s_res_status_code", "s_res_status_start", "s_res_status",
   "s_res_line_almost_done", "s_header_field_start", "s_header_field",
   "s_header_value_discard_ws", "s_header_value_discard_ws_almost_done",
   "s_header_value_discard_lws", "s_header_value", "s_header_almost_done",
   "s_header_value_lws", "s_headers_almost_done", "s_body_identity",
   "s_body_identity_eof"}

Fields ==
  {"state", "header_state", "flags", "content_length", "nread", "http_major",
   "http_minor", "status_code", "upgrade", "http_errno", "marked", "text", "run",
   "calls", "failed", "stopped", "taken"}
Call == [to : {"header_field", "header_value", "body", "message_complete"},
         text : Seq(Char), status : Nat]

Parser(s) ==
  /\ DOMAIN s = Fields
  /\ s.content_length \in 0 .. ULLONG_MAX
  /\ s.nread \in Nat /\ s.run \in Nat /\ s.taken \in Nat
  /\ s.http_major \in Nat /\ s.http_minor \in Nat /\ s.status_code \in Nat
  /\ s.marked \subseteq Marks
  /\ s.text \in [Marks -> Seq(Char)]
  /\ s.calls \in Seq(Call)
  /\ s.failed = FALSE
  /\ s.stopped \in BOOLEAN /\ (s.stopped => s.marked = {})

\* The one mark a state may have set.
MarksOf(state) ==
  IF state = "s_header_field" THEN {"header_field"}
  ELSE IF state = "s_header_value" THEN {"header_value"}
  ELSE IF state = "s_res_status" THEN {"status"}
  ELSE IF state \in {"s_body_identity", "s_body_identity_eof", "s_chunk_data",
                     "s_chunk_data_almost_done"} THEN {"body"}
  ELSE {}

\* What the states of a body know of its length.
Length_(s) ==
  /\ s.state \in States
  /\ s.state \in ChunkStates => "F_CHUNKED" \in s.flags
  /\ s.state \in {"s_chunk_size", "s_chunk_parameters", "s_chunk_size_almost_done"} =>
       s.content_length # ULLONG_MAX
  /\ s.state \in {"s_body_identity", "s_chunk_data"} =>
       s.content_length \notin {0, ULLONG_MAX}
  /\ s.state = "s_chunk_data_almost_done" => s.content_length = 0

ParserInv(s) ==
  /\ Parser(s)
  /\ s.marked \subseteq MarksOf(s.state)
  /\ s.http_errno = "HPE_OK" =>
       Length_(s) /\ (s.state = "s_chunk_size_start" => s.nread = 0)

\* Between the count of a byte and its handling.
Counted(s, state) ==
  /\ Parser(s)
  /\ s.state = state
  /\ s.marked \subseteq MarksOf(state)
  /\ s.http_errno = "HPE_OK"
  /\ s.stopped = FALSE
  /\ Length_(s)

\* Outside the states of a body the invariant is about types and marks only.
HeadStates == States \ (ChunkStates \cup {"s_body_identity"})
Plain(s) ==
  /\ Parser(s)
  /\ s.marked \subseteq MarksOf(s.state)
  /\ s.state \in HeadStates \/ s.http_errno # "HPE_OK"

LEMMA PlainInv == ASSUME NEW s, Plain(s) PROVE ParserInv(s)
BY DEF Plain, ParserInv, Length_, HeadStates, ChunkStates

-----------------------------------------------------------------------------
(* The macros.                                                                 *)

LEMMA UnhexRange ==
  \A c \in DOMAIN unhex : unhex[c] \in 0 .. 10 /\ (IS_NUM(c) => unhex[c] \in 0 .. 9)
<1> SUFFICES ASSUME NEW c \in DOMAIN unhex
             PROVE  unhex[c] \in 0 .. 10 /\ (IS_NUM(c) => unhex[c] \in 0 .. 9)
  OBVIOUS
<1>1. DOMAIN unhex = {Digits[i] : i \in DOMAIN Digits} /\ DOMAIN Digits = 1 .. 11
  BY DEF unhex, Digits
<1>2. PICK i \in 1 .. 11 : c = Digits[i]
  BY <1>1
<1>3. \E v \in 0 .. 10 : Digits[v + 1] = c
  <2>1. i - 1 \in 0 .. 10 /\ (i - 1) + 1 = i
    OBVIOUS
  <2> QED BY <1>2, <2>1
<1>4. unhex[c] = CHOOSE v \in 0 .. 10 : Digits[v + 1] = c
  BY <1>1 DEF unhex
<1>5. unhex[c] \in 0 .. 10 /\ Digits[unhex[c] + 1] = c
  BY <1>3, <1>4
<1>6. Digits[11] = "a"
  BY DEF Digits
<1>7. IS_NUM(c) => unhex[c] # 10
  BY <1>5, <1>6 DEF IS_NUM
<1> QED BY <1>5, <1>7

LEMMA UnhexDomain ==
  DOMAIN unhex = {"0", "1", "2", "3", "4", "5", "6", "7", "8", "9", "a"}
<1>1. DOMAIN unhex = {Digits[i] : i \in 1 .. 11}
  BY DEF unhex, Digits
<1> QED BY <1>1 DEF Digits

LEMMA ErrorPlain ==
  ASSUME NEW s, Parser(s), s.marked \subseteq MarksOf(s.state), NEW e, e # "HPE_OK"
  PROVE  Plain(Error(s, e))
BY DEF Plain, Parser, Fields, Error

LEMMA MoreNat ==
  ASSUME NEW n \in Nat, NEW ch, IS_NUM(ch)
  PROVE  unhex[ch] \in Nat /\ More(n, ch) \in Nat
<1>1. unhex[ch] \in 0 .. 9
  BY UnhexRange DEF IS_NUM
<1> QED BY <1>1 DEF More

LEMMA CallbackData ==
  ASSUME NEW s, Parser(s), NEW m \in Marks
  PROVE  LET t == CALLBACK_DATA(s, m) IN
         /\ Parser(t)
         /\ t.state = s.state /\ t.flags = s.flags /\ t.nread = s.nread
         /\ t.content_length = s.content_length /\ t.http_errno = s.http_errno
         /\ t.marked = s.marked \ {m} /\ t.run = s.run /\ t.stopped = s.stopped
<1> DEFINE t == CALLBACK_DATA(s, m)
<1>1. ASSUME m \in s.marked
      PROVE  /\ DOMAIN t = Fields /\ t.text \in [Marks -> Seq(Char)]
             /\ t.calls \in Seq(Call)
  <2>1. t.text = [s.text EXCEPT ![m] = <<>>] /\ DOMAIN t = Fields
    BY <1>1 DEF CALLBACK_DATA, Parser, Fields
  <2>2. t.text \in [Marks -> Seq(Char)]
    BY <2>1 DEF Parser
  <2>3. CASE m = "status"
    <3>1. t.calls = s.calls
      BY <1>1, <2>3 DEF CALLBACK_DATA, Parser, Fields
    <3> QED BY <2>1, <2>2, <3>1 DEF Parser
  <2>4. CASE m # "status"
    <3>1. t.calls = Append(s.calls, [to |-> m, text |-> s.text[m], status |-> 0])
      BY <1>1, <2>4 DEF CALLBACK_DATA, Parser, Fields
    <3>2. [to |-> m, text |-> s.text[m], status |-> 0] \in Call
      BY <2>4 DEF Call, Parser, Marks
    <3> QED BY <2>1, <2>2, <3>1, <3>2 DEF Parser
  <2> QED BY <2>3, <2>4
<1>2. CASE m \in s.marked
  <2>1. /\ t.state = s.state /\ t.flags = s.flags /\ t.nread = s.nread
        /\ t.content_length = s.content_length /\ t.http_errno = s.http_errno
        /\ t.marked = s.marked \ {m} /\ t.run = s.run /\ t.stopped = s.stopped
        /\ t.taken = s.taken /\ t.failed = s.failed
        /\ t.http_major = s.http_major /\ t.http_minor = s.http_minor
        /\ t.status_code = s.status_code
    <3>1. DOMAIN s = Fields
      BY DEF Parser
    <3>2. /\ \A g \in Fields \ {"marked", "text", "calls"} : t[g] = s[g]
          /\ t.marked = s.marked \ {m}
      BY <1>2, <3>1 DEF CALLBACK_DATA, Fields
    <3> HIDE DEF t
    <3> QED BY <3>2 DEF Fields
  <2> HIDE DEF t
  <2>2. Parser(t)
    BY <1>1, <1>2, <2>1 DEF Parser
  <2> QED BY <2>1, <2>2 DEF t
<1>3. CASE m \notin s.marked
  BY <1>3 DEF CALLBACK_DATA
<1> QED BY <1>2, <1>3

LEMMA CountHeaderSize ==
  ASSUME NEW s, Parser(s), NEW n \in Nat
  PROVE  LET t == COUNT_HEADER_SIZE(s, n) IN
         /\ Parser(t)
         /\ t.state = s.state /\ t.flags = s.flags /\ t.nread = s.nread + n
         /\ t.content_length = s.content_length
         /\ t.http_errno = s.http_errno \/ t.http_errno # "HPE_OK"
         /\ t.marked = s.marked /\ t.run = s.run /\ t.stopped = s.stopped
BY DEF COUNT_HEADER_SIZE, Parser, Fields, Error

-----------------------------------------------------------------------------
(* The status line.                                                            *)

LEMMA DeadInv ==
  ASSUME NEW s, NEW ch, Counted(s, "s_dead")
  PROVE  Plain(s_dead(s, ch))
BY DEF Counted, Plain, Parser, Fields, s_dead, Error, HeadStates, States, ChunkStates

LEMMA StartResInv ==
  ASSUME NEW s, NEW ch, Counted(s, "s_start_res")
  PROVE  Plain(s_start_res(s, ch))
BY ParserAssumption
   DEF Counted, Plain, Parser, Fields, s_start_res, EOL, Goto, Error, HeadStates,
       States, ChunkStates, MarksOf

LEMMA ResHInv ==
  ASSUME NEW s, NEW ch, Counted(s, "s_res_H")
  PROVE  Plain(s_res_H(s, ch))
BY DEF Counted, Plain, Parser, Fields, s_res_H, STRICT_CHECK, Goto, Error, HeadStates,
       States, ChunkStates, MarksOf

VersionStates == {"s_res_first_http_major", "s_res_http_major",
                  "s_res_first_http_minor", "s_res_http_minor"}

\* The parser once a digit of the version is counted.
VersionRead(s, ch) ==
  IF ~IS_NUM(ch) THEN s ELSE
  CASE s.state = "s_res_first_http_major" ->
       Goto([s EXCEPT !.http_major = unhex[ch]], "s_res_http_major")
    [] s.state = "s_res_http_major" ->
       [s EXCEPT !.http_major = More(@, ch)]
    [] s.state = "s_res_first_http_minor" ->
       Goto([s EXCEPT !.http_minor = unhex[ch]], "s_res_http_minor")
    [] OTHER -> [s EXCEPT !.http_minor = More(@, ch)]

LEMMA VersionIs ==
  ASSUME NEW s, NEW ch, ch # ".", ch # " "
  PROVE  \/ Version(s, ch) = VersionRead(s, ch)
         \/ Version(s, ch) = Error(VersionRead(s, ch), "HPE_INVALID_VERSION")
<1> DEFINE t == VersionRead(s, ch)
           wrong == ~IS_NUM(ch) \/ t.http_major > 999 \/ t.http_minor > 999
<1>1. Version(s, ch) = IF wrong THEN Error(t, "HPE_INVALID_VERSION") ELSE t
  BY DEF Version, VersionRead
<1> HIDE DEF t, wrong
<1>2. Version(s, ch) = t \/ Version(s, ch) = Error(t, "HPE_INVALID_VERSION")
  BY <1>1
<1> QED BY <1>2 DEF t

LEMMA VersionInv ==
  ASSUME NEW s, NEW ch, NEW state \in VersionStates, Counted(s, state)
  PROVE  Plain(Version(s, ch))
<1>0. Parser(s) /\ s.state = state /\ s.marked = {}
  BY DEF Counted, VersionStates, MarksOf
<1>1. ASSUME NEW t, Parser(t), t.marked = {}, t.state \in VersionStates
      PROVE  Plain(t) /\ Plain(Error(t, "HPE_INVALID_VERSION"))
  BY <1>1, ErrorPlain DEF Plain, VersionStates, HeadStates, States, ChunkStates
<1>2. CASE ~IS_NUM(ch)
  <2>1. \/ Version(s, ch) = Goto(s, "s_res_first_http_minor")
        \/ Version(s, ch) = Goto(s, "s_res_first_status_code")
        \/ Version(s, ch) = Error(s, "HPE_INVALID_VERSION")
    BY <1>2 DEF Version
  <2>2. /\ Plain(Goto(s, "s_res_first_http_minor"))
        /\ Plain(Goto(s, "s_res_first_status_code"))
    BY <1>0
       DEF Plain, Parser, Fields, Goto, VersionStates, HeadStates, States, ChunkStates
  <2> QED BY <1>0, <1>1, <2>1, <2>2
<1>3. CASE IS_NUM(ch)
  <2>1. ch # "." /\ ch # " "
    BY <1>3, UnhexDomain DEF IS_NUM
  <2>2. /\ unhex[ch] \in Nat
        /\ More(s.http_major, ch) \in Nat /\ More(s.http_minor, ch) \in Nat
    BY <1>0, <1>3, MoreNat DEF Parser
  <2>3. PICK t : t = VersionRead(s, ch)
    OBVIOUS
  <2>4. Version(s, ch) = t \/ Version(s, ch) = Error(t, "HPE_INVALID_VERSION")
    BY <2>1, <2>3, VersionIs
  <2>5. Parser(t) /\ t.marked = {} /\ t.state \in VersionStates
    <3>1. CASE state = "s_res_first_http_major"
      <4>1. t = Goto([s EXCEPT !.http_major = unhex[ch]], "s_res_http_major")
        BY <1>0, <1>3, <2>3, <3>1 DEF VersionRead
      <4> QED BY <1>0, <2>2, <4>1 DEF Parser, Fields, Goto, VersionStates
    <3>2. CASE state = "s_res_http_major"
      <4>1. t = [s EXCEPT !.http_major = More(@, ch)]
        BY <1>0, <1>3, <2>3, <3>2 DEF VersionRead
      <4> QED BY <1>0, <2>2, <4>1 DEF Parser, Fields, VersionStates
    <3>3. CASE state = "s_res_first_http_minor"
      <4>1. t = Goto([s EXCEPT !.http_minor = unhex[ch]], "s_res_http_minor")
        BY <1>0, <1>3, <2>3, <3>3 DEF VersionRead
      <4> QED BY <1>0, <2>2, <4>1 DEF Parser, Fields, Goto, VersionStates
    <3>4. CASE state = "s_res_http_minor"
      <4>1. t = [s EXCEPT !.http_minor = More(@, ch)]
        BY <1>0, <1>3, <2>3, <3>4 DEF VersionRead
      <4> QED BY <1>0, <2>2, <4>1 DEF Parser, Fields, VersionStates
    <3> QED BY <3>1, <3>2, <3>3, <3>4 DEF VersionStates
  <2> QED BY <1>1, <2>4, <2>5
<1> QED BY <1>2, <1>3

LEMMA EndLineInv ==
  ASSUME NEW s, NEW ch, Parser(s)
  PROVE  LET t == EndLine(s, ch) IN
         /\ Parser(t) /\ t.marked = s.marked
         /\ t.state \in HeadStates /\ MarksOf(t.state) = {}
BY DEF Parser, Fields, EndLine, Goto, HeadStates, States, ChunkStates, MarksOf

LEMMA StatusCodeInv ==
  ASSUME NEW s, NEW ch, NEW state \in {"s_res_first_status_code", "s_res_status_code"},
         Counted(s, state)
  PROVE  Plain(StatusCode(s, ch))
<1>0. EndLine(s, ch).marked = s.marked /\ s.marked = {}
  BY EndLineInv DEF Counted, MarksOf
<1>4. Plain(Error(s, "HPE_INVALID_STATUS"))
  BY ErrorPlain DEF Counted
<1>1. CASE ~IS_NUM(ch) /\ ch \in EOL
  <2>1. \/ StatusCode(s, ch) = EndLine(s, ch)
        \/ StatusCode(s, ch) = Error(s, "HPE_INVALID_STATUS")
    BY <1>1 DEF StatusCode, EOL
  <2>2. Plain(EndLine(s, ch))
    BY <1>0, EndLineInv DEF Counted, Plain
  <2> QED BY <1>4, <2>1, <2>2
<1>2. CASE ~IS_NUM(ch) /\ ch \notin EOL
  <2>1. \/ StatusCode(s, ch) = s /\ state = "s_res_first_status_code"
        \/ StatusCode(s, ch) = Goto(s, "s_res_status_start")
        \/ StatusCode(s, ch) = Error(s, "HPE_INVALID_STATUS")
    BY <1>2 DEF StatusCode, Counted
  <2>2. state = "s_res_first_status_code" => Plain(s)
    BY <1>0 DEF Counted, Plain, HeadStates, States, ChunkStates
  <2>3. Plain(Goto(s, "s_res_status_start"))
    BY <1>0 DEF Counted, Plain, Parser, Fields, Goto, HeadStates, States, ChunkStates
  <2> QED BY <1>4, <2>1, <2>2, <2>3
<1>3. CASE IS_NUM(ch)
  <2>1. /\ unhex[ch] \in Nat /\ More(s.status_code, ch) \in Nat
        /\ ch # " " /\ ch \notin EOL
    BY <1>3, MoreNat, UnhexDomain DEF Counted, Parser, IS_NUM, EOL
  <2> DEFINE first == s.state = "s_res_first_status_code"
             t == [s EXCEPT !.status_code = IF first THEN unhex[ch] ELSE More(@, ch)]
  <2>3. \/ StatusCode(s, ch) = Error(t, "HPE_INVALID_STATUS")
        \/ StatusCode(s, ch) = Goto(t, "s_res_status_code")
    <3> DEFINE wrong == t.status_code > 999
    <3>1. StatusCode(s, ch) = IF wrong THEN Error(t, "HPE_INVALID_STATUS")
                              ELSE Goto(t, "s_res_status_code")
      BY <1>3, <2>1 DEF StatusCode
    <3> HIDE DEF t, wrong
    <3> QED BY <3>1
  <2>4. Parser(t) /\ t.marked = {} /\ t.state = state
    BY <1>0, <2>1 DEF Counted, Parser, Fields
  <2> HIDE DEF t
  <2>5. Plain(Error(t, "HPE_INVALID_STATUS"))
    BY <2>4, ErrorPlain
  <2>6. Plain(Goto(t, "s_res_status_code"))
    BY <2>4 DEF Plain, Parser, Fields, Goto, HeadStates, States, ChunkStates
  <2> QED BY <2>3, <2>5, <2>6
<1> QED BY <1>1, <1>2, <1>3

LEMMA ResStatusStartInv ==
  ASSUME NEW s, NEW ch, Counted(s, "s_res_status_start")
  PROVE  Plain(s_res_status_start(s, ch))
<1>1. CASE ch \in EOL
  BY <1>1, EndLineInv DEF Counted, Plain, s_res_status_start, MarksOf
<1>2. CASE ch \notin EOL
  BY <1>2
     DEF Counted, Plain, Parser, Fields, s_res_status_start, Goto, MARK, HeadStates,
         States, ChunkStates, MarksOf, Marks
<1> QED BY <1>1, <1>2

LEMMA ResStatusInv ==
  ASSUME NEW s, NEW ch, Counted(s, "s_res_status")
  PROVE  Plain(s_res_status(s, ch))
<1>1. CASE ch \in EOL
  BY <1>1, EndLineInv, CallbackData DEF Counted, Plain, s_res_status, MarksOf, Marks
<1>2. CASE ch \notin EOL
  BY <1>2 DEF Counted, Plain, s_res_status, HeadStates, States, ChunkStates
<1> QED BY <1>1, <1>2

LEMMA ResLineAlmostDoneInv ==
  ASSUME NEW s, NEW ch, Counted(s, "s_res_line_almost_done")
  PROVE  Plain(s_res_line_almost_done(s, ch))
BY DEF Counted, Plain, Parser, Fields, s_res_line_almost_done, STRICT_CHECK, Goto,
       Error, HeadStates, States, ChunkStates, MarksOf

-----------------------------------------------------------------------------
(* The end of a message and of its headers.                                    *)

LEMMA MessageCompleteInv ==
  ASSUME NEW s, Parser(s), s.marked = {},
         s.state \in HeadStates \/ s.http_errno # "HPE_OK"
  PROVE  Plain(MessageComplete(s)) /\ MessageComplete(s).marked = {}
<1>1. PICK c : c = [to |-> "message_complete", text |-> <<>>, status |-> s.status_code]
  OBVIOUS
<1>2. c \in Call
  BY <1>1 DEF Call, Parser
<1>3. PICK t : t = [s EXCEPT !.calls = Append(@, c)]
  OBVIOUS
<1>4. Plain(t) /\ t.marked = {}
  <2>1. Append(s.calls, c) \in Seq(Call)
    BY <1>2 DEF Parser
  <2> QED BY <1>3, <2>1 DEF Plain, Parser, Fields
<1>5. Plain(http_parser_init(t)) /\ http_parser_init(t).marked = {}
  <2>1. PICK u : u = http_parser_init(t)
    OBVIOUS
  <2>2. DOMAIN t = Fields
    BY <1>4 DEF Plain, Parser
  <2>3. DOMAIN u = Fields /\ u.state = "s_start_res"
    BY <2>1, <2>2 DEF Fields, http_parser_init
  <2>4. u.content_length = 0 /\ u.nread = 0
    BY <2>1, <2>2 DEF Fields, http_parser_init
  <2>5. u.http_major = 0 /\ u.http_minor = 0 /\ u.status_code = 0
    BY <2>1, <2>2 DEF Fields, http_parser_init
  <2>6. u.run = t.run /\ u.taken = t.taken /\ u.marked = t.marked
    BY <2>1, <2>2 DEF Fields, http_parser_init
  <2>7. /\ u.text = t.text /\ u.calls = t.calls /\ u.failed = t.failed
        /\ u.stopped = t.stopped
    BY <2>1, <2>2 DEF Fields, http_parser_init
  <2> QED
    BY <1>4, <2>1, <2>3, <2>4, <2>5, <2>6, <2>7, ParserAssumption
       DEF Plain, Parser, HeadStates, States, ChunkStates
<1>6. MessageComplete(s) = t \/ MessageComplete(s) = http_parser_init(t)
  BY <1>1, <1>3 DEF MessageComplete
<1> QED BY <1>4, <1>5, <1>6

LEMMA EndMessageInv ==
  ASSUME NEW s, Parser(s), s.marked = {}
  PROVE  Plain(EndMessage(s)) /\ EndMessage(s).marked = {}
<1>1. PICK t : t = Goto(s, NEW_MESSAGE(s))
  OBVIOUS
<1>2. Parser(t) /\ t.marked = {} /\ t.state \in HeadStates
  BY <1>1 DEF Parser, Fields, Goto, NEW_MESSAGE, HeadStates, States, ChunkStates
<1> QED BY <1>1, <1>2, MessageCompleteInv DEF EndMessage

LEMMA HeadersDoneInv ==
  ASSUME NEW s, Parser(s), s.marked = {}
  PROVE  ParserInv(s_headers_done(s))
<1>1. PICK t : t = [s EXCEPT !.nread = 0]
  OBVIOUS
<1>2. /\ Parser(t) /\ t.marked = {} /\ t.nread = 0
      /\ t.flags = s.flags /\ t.content_length = s.content_length
  BY <1>1 DEF Parser, Fields
<1>3. Plain(EndMessage(t)) /\ EndMessage(t).marked = {}
  BY <1>2, EndMessageInv
<1>4. ParserInv([EndMessage(t) EXCEPT !.stopped = TRUE])
  <2>1. Plain([EndMessage(t) EXCEPT !.stopped = TRUE])
    BY <1>3 DEF Plain, Parser, Fields
  <2> QED BY <2>1, PlainInv
<1>5. ASSUME "F_CHUNKED" \in s.flags PROVE ParserInv(Goto(t, "s_chunk_size_start"))
  BY <1>2, <1>5 DEF ParserInv, Parser, Fields, Goto, Length_, States, ChunkStates
<1>6. ASSUME s.content_length \notin {0, ULLONG_MAX}
      PROVE  ParserInv(Goto(t, "s_body_identity"))
  BY <1>2, <1>6 DEF ParserInv, Parser, Fields, Goto, Length_, States, ChunkStates
<1>7. ParserInv(Goto(t, "s_body_identity_eof"))
  BY <1>2 DEF ParserInv, Parser, Fields, Goto, Length_, States, ChunkStates
<1>8. ParserInv(EndMessage(t))
  BY <1>3, PlainInv
<1>9. \/ s_headers_done(s) = [EndMessage(t) EXCEPT !.stopped = TRUE]
      \/ "F_CHUNKED" \in s.flags /\ s_headers_done(s) = Goto(t, "s_chunk_size_start")
      \/ s_headers_done(s) = EndMessage(t)
      \/ /\ s.content_length \notin {0, ULLONG_MAX}
         /\ s_headers_done(s) = Goto(t, "s_body_identity")
      \/ s_headers_done(s) = Goto(t, "s_body_identity_eof")
  BY <1>1 DEF s_headers_done
<1> QED BY <1>4, <1>5, <1>6, <1>7, <1>8, <1>9

LEMMA HeadersAlmostDoneInv ==
  ASSUME NEW s, NEW ch, Parser(s), s.marked = {}, s.state = "s_headers_almost_done"
  PROVE  ParserInv(s_headers_almost_done(s, ch))
<1>1. PICK u : u = [Goto(s, "s_headers_done") EXCEPT
                      !.upgrade = {"F_UPGRADE", "F_CONNECTION_UPGRADE"} \subseteq s.flags]
  OBVIOUS
<1>2. Parser(u) /\ u.marked = {}
  BY <1>1 DEF Parser, Fields, Goto
<1>3. PICK t : t = COUNT_HEADER_SIZE(u, 1)
  OBVIOUS
<1>4. Parser(t) /\ t.marked = {}
  BY <1>2, <1>3, CountHeaderSize
<1>5. ParserInv(Again(t, s_headers_done(t)))
  <2>1. CASE t.http_errno = "HPE_OK"
    BY <1>4, <2>1, HeadersDoneInv DEF Again
  <2>2. CASE t.http_errno # "HPE_OK"
    BY <1>4, <2>2 DEF Again, ParserInv
  <2> QED BY <2>1, <2>2
<1>6. ParserInv(EndMessage(s))
  BY EndMessageInv, PlainInv
<1>7. ParserInv(Error(s, "HPE_STRICT"))
  BY ErrorPlain, PlainInv
<1>8. \/ s_headers_almost_done(s, ch) = Error(s, "HPE_STRICT")
      \/ s_headers_almost_done(s, ch) = EndMessage(s)
      \/ s_headers_almost_done(s, ch) = Again(t, s_headers_done(t))
  BY <1>1, <1>3 DEF s_headers_almost_done, STRICT_CHECK
<1> QED BY <1>5, <1>6, <1>7, <1>8

-----------------------------------------------------------------------------
(* The headers.                                                                *)

\* A byte that is handed on: either it does not fit, or the next state takes it.
LEMMA AgainInv ==
  ASSUME NEW s, Parser(s), s.marked \subseteq MarksOf(s.state), NEW then,
         s.http_errno = "HPE_OK" => ParserInv(then)
  PROVE  ParserInv(Again(s, then))
BY DEF Again, ParserInv

LEMMA HeaderFieldStartInv ==
  ASSUME NEW s, NEW ch, Parser(s), s.marked = {}, s.stopped = FALSE
  PROVE  ParserInv(s_header_field_start(s, ch))
<1>1. Plain(Goto(s, "s_headers_almost_done"))
  BY DEF Plain, Parser, Fields, Goto, HeadStates, States, ChunkStates
<1>2. CASE ch = "CR"
  BY <1>1, <1>2, PlainInv DEF s_header_field_start, EOL
<1>3. CASE ch = "LF"
  <2>1. PICK t : t = COUNT_HEADER_SIZE(Goto(s, "s_headers_almost_done"), 1)
    OBVIOUS
  <2>2. Goto(s, "s_headers_almost_done").marked = {}
        /\ Goto(s, "s_headers_almost_done").state = "s_headers_almost_done"
    BY DEF Parser, Fields, Goto
  <2>3. Parser(t) /\ t.marked = {} /\ t.state = "s_headers_almost_done"
    BY <1>1, <2>1, <2>2, CountHeaderSize DEF Plain
  <2>4. ParserInv(Again(t, s_headers_almost_done(t, ch)))
    BY <2>3, AgainInv, HeadersAlmostDoneInv
  <2>5. s_header_field_start(s, ch) = Again(t, s_headers_almost_done(t, ch))
    BY <1>3, <2>1 DEF s_header_field_start, EOL
  <2> QED BY <2>4, <2>5
<1>4. CASE ch \notin EOL /\ ~TOKEN(ch)
  <2>1. Plain(Error(s, "HPE_INVALID_HEADER_TOKEN"))
    BY ErrorPlain
  <2> QED BY <1>4, <2>1, PlainInv DEF s_header_field_start, EOL
<1>5. CASE ch \notin EOL /\ TOKEN(ch)
  <2>1. PICK h : h = IF ch \in DOMAIN FieldStart THEN FieldStart[ch] ELSE "h_general"
    OBVIOUS
  <2>2. s_header_field_start(s, ch) =
          [Goto(MARK(s, "header_field"), "s_header_field") EXCEPT
             !.run = 0, !.header_state = h]
    BY <1>5, <2>1 DEF s_header_field_start, EOL
  <2>3. Plain([Goto(MARK(s, "header_field"), "s_header_field") EXCEPT
                 !.run = 0, !.header_state = h])
    BY DEF Plain, Parser, Fields, Goto, MARK, Marks, MarksOf, HeadStates, States,
           ChunkStates
  <2> QED BY <2>2, <2>3, PlainInv
<1> QED BY <1>2, <1>3, <1>4, <1>5 DEF EOL

LEMMA HeaderFieldInv ==
  ASSUME NEW s, NEW ch, Counted(s, "s_header_field")
  PROVE  ParserInv(s_header_field(s, ch))
<1>0. /\ Parser(s) /\ s.state = "s_header_field" /\ s.marked \subseteq {"header_field"}
      /\ s.run \in Nat
  BY DEF Counted, MarksOf, Parser
<1>1. CASE TOKEN(ch)
  <2>1. PICK h : h = IF s.header_state \in DOMAIN Rest
                       THEN Matches(s.header_state, ch, "h_general")
                       ELSE "h_general"
    OBVIOUS
  <2>2. s_header_field(s, ch) = [s EXCEPT !.run = @ + 1, !.header_state = h]
    BY <1>1, <2>1 DEF s_header_field, TOKEN
  <2>3. Plain([s EXCEPT !.run = @ + 1, !.header_state = h])
    BY <1>0 DEF Plain, Parser, Fields, MarksOf, HeadStates, States, ChunkStates
  <2> QED BY <2>2, <2>3, PlainInv
<1>2. CASE ~TOKEN(ch)
  <2>1. PICK t : t = COUNT_HEADER_SIZE(s, s.run)
    OBVIOUS
  <2>2. Parser(t) /\ t.state = "s_header_field" /\ t.marked \subseteq {"header_field"}
    BY <1>0, <2>1, CountHeaderSize
  <2>3. Plain(Error(t, "HPE_INVALID_HEADER_TOKEN"))
    BY <2>2, ErrorPlain DEF MarksOf
  <2>4. PICK u : u = Goto(t, "s_header_value_discard_ws")
    OBVIOUS
  <2>5. /\ Parser(u) /\ u.state = "s_header_value_discard_ws"
        /\ u.marked \subseteq {"header_field"}
    BY <2>2, <2>4 DEF Parser, Fields, Goto
  <2>6. Plain(CALLBACK_DATA(u, "header_field"))
    BY <2>5, CallbackData DEF Plain, Marks, HeadStates, States, ChunkStates
  <2>7. \/ s_header_field(s, ch) = Again(t, CALLBACK_DATA(u, "header_field"))
        \/ s_header_field(s, ch) = Again(t, Error(t, "HPE_INVALID_HEADER_TOKEN"))
    BY <1>2, <2>1, <2>4 DEF s_header_field
  <2> QED BY <2>2, <2>3, <2>6, <2>7, AgainInv, PlainInv DEF MarksOf
<1> QED BY <1>1, <1>2

LEMMA HeaderValueStartInv ==
  ASSUME NEW s, NEW ch, Parser(s), s.marked = {}, s.stopped = FALSE
  PROVE  Plain(s_header_value_start(s, ch))
<1>1. PICK t : t = [Goto(MARK(s, "header_value"), "s_header_value") EXCEPT !.run = 0]
  OBVIOUS
<1>2. /\ Parser(t) /\ t.state = "s_header_value" /\ t.marked = {"header_value"}
  BY <1>1 DEF Parser, Fields, Goto, MARK, Marks
<1>3. Plain(t) /\ Plain(Error(t, "HPE_INVALID_CONTENT_LENGTH"))
  BY <1>2, ErrorPlain DEF Plain, MarksOf, HeadStates, States, ChunkStates
<1>4. ASSUME NEW h PROVE Plain([t EXCEPT !.header_state = h])
  BY <1>3 DEF Plain, Parser, Fields
<1>5. ASSUME IS_NUM(ch) PROVE Plain([t EXCEPT !.content_length = unhex[ch]])
  <2>1. unhex[ch] \in 0 .. ULLONG_MAX
    BY <1>5, UnhexRange, ParserAssumption DEF IS_NUM
  <2> QED BY <1>3, <2>1 DEF Plain, Parser, Fields
<1>6. CASE s.header_state = "h_content_length"
  <2>1. \/ IS_NUM(ch) /\ s_header_value_start(s, ch) = [t EXCEPT !.content_length = unhex[ch]]
        \/ s_header_value_start(s, ch) = Error(t, "HPE_INVALID_CONTENT_LENGTH")
    BY <1>1, <1>6 DEF s_header_value_start
  <2> QED BY <1>3, <1>5, <2>1
<1>7. CASE s.header_state = "h_upgrade"
  <2>1. PICK f : f = t.flags \cup {"F_UPGRADE"}
    OBVIOUS
  <2>2. s_header_value_start(s, ch) = [t EXCEPT !.flags = f, !.header_state = "h_general"]
    BY <1>1, <1>7, <2>1 DEF s_header_value_start
  <2>3. Plain([t EXCEPT !.flags = f, !.header_state = "h_general"])
    BY <1>3 DEF Plain, Parser, Fields
  <2> QED BY <2>2, <2>3
<1>8. CASE s.header_state \notin {"h_content_length", "h_upgrade"}
  <2>1. \/ s_header_value_start(s, ch) = t
        \/ \E h : s_header_value_start(s, ch) = [t EXCEPT !.header_state = h]
    BY <1>1, <1>8 DEF s_header_value_start
  <2> QED BY <1>3, <1>4, <2>1
<1> QED BY <1>6, <1>7, <1>8

LEMMA HeaderValueDiscardWsInv ==
  ASSUME NEW s, NEW ch, Counted(s, "s_header_value_discard_ws")
  PROVE  Plain(s_header_value_discard_ws(s, ch))
<1>0. /\ Parser(s) /\ s.state = "s_header_value_discard_ws" /\ s.marked = {}
      /\ s.stopped = FALSE
  BY DEF Counted, MarksOf
<1>1. /\ Plain(s)
      /\ Plain(Goto(s, "s_header_value_discard_ws_almost_done"))
      /\ Plain(Goto(s, "s_header_value_discard_lws"))
  BY <1>0 DEF Plain, Parser, Fields, Goto, HeadStates, States, ChunkStates
<1>2. Plain(s_header_value_start(s, ch))
  BY <1>0, HeaderValueStartInv
<1> QED BY <1>1, <1>2 DEF s_header_value_discard_ws

LEMMA DiscardWsAlmostDoneInv ==
  ASSUME NEW s, NEW ch, Counted(s, "s_header_value_discard_ws_almost_done")
  PROVE  Plain(STRICT_CHECK(s, ch # "LF", Goto(s, "s_header_value_discard_lws")))
BY DEF Counted, Plain, Parser, Fields, STRICT_CHECK, Goto, Error, HeadStates, States,
       ChunkStates, MarksOf

\* A length that still fits stays below the value that stands for no length.
LEMMA LengthenInv ==
  ASSUME NEW s, Parser(s), NEW ch, NEW base \in {10, 16}, NEW e,
         unhex[ch] \in 0 .. base - 1
  PROVE  \/ Lengthen(s, ch, base, e) = Error(s, "HPE_INVALID_CONTENT_LENGTH")
         \/ LET t == Lengthen(s, ch, base, e) IN
            /\ Parser(t) /\ t.content_length # ULLONG_MAX
            /\ t.state = s.state /\ t.flags = s.flags /\ t.marked = s.marked
            /\ t.http_errno = s.http_errno
<1>1. PICK c : c = s.content_length
  OBVIOUS
<1>2. PICK d : d = unhex[ch]
  OBVIOUS
<1>3. c \in Nat /\ d \in 0 .. base - 1
  BY <1>1, <1>2 DEF Parser
<1>4. CASE (ULLONG_MAX - base) \div base < c
  BY <1>1, <1>4 DEF Lengthen
<1>5. CASE ~((ULLONG_MAX - base) \div base < c)
  <2>1. PICK q : q = (ULLONG_MAX - base) \div base
    OBVIOUS
  <2>2. q \in Nat /\ q * base <= ULLONG_MAX - base /\ c <= q
    <3>1. CASE base = 10
      BY <1>3, <1>5, <2>1, <3>1, ParserAssumption
    <3>2. CASE base = 16
      BY <1>3, <1>5, <2>1, <3>2, ParserAssumption
    <3> QED BY <3>1, <3>2
  <2>3. c * base + d \in 0 .. ULLONG_MAX /\ c * base + d # ULLONG_MAX
    <3>1. CASE base = 10
      BY <1>3, <2>2, <3>1, ParserAssumption
    <3>2. CASE base = 16
      BY <1>3, <2>2, <3>2, ParserAssumption
    <3> QED BY <3>1, <3>2
  <2>4. PICK n : n = c * base + d
    OBVIOUS
  <2>5. Lengthen(s, ch, base, e) = [s EXCEPT !.content_length = n]
    BY <1>1, <1>2, <1>5, <2>4 DEF Lengthen
  <2> QED BY <2>3, <2>4, <2>5 DEF Parser, Fields
<1> QED BY <1>4, <1>5

LEMMA HeaderValueInv ==
  ASSUME NEW s, NEW ch, Counted(s, "s_header_value")
  PROVE  Plain(s_header_value(s, ch))
<1>0. /\ Parser(s) /\ s.state = "s_header_value" /\ s.marked \subseteq {"header_value"}
      /\ s.run \in Nat
  BY DEF Counted, MarksOf, Parser
<1>1. CASE ch = "CR"
  <2>1. PICK u : u = Goto(s, "s_header_almost_done")
    OBVIOUS
  <2>2. /\ Parser(u) /\ u.state = "s_header_almost_done"
        /\ u.marked \subseteq {"header_value"}
    BY <1>0, <2>1 DEF Parser, Fields, Goto
  <2>3. PICK v : v = CALLBACK_DATA(u, "header_value")
    OBVIOUS
  <2>4. Parser(v) /\ v.state = "s_header_almost_done" /\ v.marked = {}
    BY <2>2, <2>3, CallbackData DEF Marks
  <2>5. s_header_value(s, ch) = COUNT_HEADER_SIZE(v, s.run)
    BY <1>1, <2>1, <2>3 DEF s_header_value, EOL
  <2>6. Parser(COUNT_HEADER_SIZE(v, s.run))
        /\ COUNT_HEADER_SIZE(v, s.run).state = "s_header_almost_done"
        /\ COUNT_HEADER_SIZE(v, s.run).marked = {}
    BY <1>0, <2>4, CountHeaderSize
  <2> QED BY <2>5, <2>6 DEF Plain, HeadStates, States, ChunkStates
<1>2. CASE ch = "LF"
  <2>1. PICK u : u = COUNT_HEADER_SIZE(s, s.run)
    OBVIOUS
  <2>2. Parser(u) /\ u.state = "s_header_value" /\ u.marked \subseteq {"header_value"}
    BY <1>0, <2>1, CountHeaderSize
  <2>3. PICK w : w = CALLBACK_DATA(u, "header_value")
    OBVIOUS
  <2>4. Parser(w) /\ w.state = "s_header_value" /\ w.marked = {}
    BY <2>2, <2>3, CallbackData DEF Marks
  <2>5. PICK v : v = COUNT_HEADER_SIZE(w, s.run)
    OBVIOUS
  <2>6. Parser(v) /\ v.marked = {}
    BY <1>0, <2>4, <2>5, CountHeaderSize
  <2>7. PICK st : st = IF v.http_errno = "HPE_OK" THEN "s_header_value_lws"
                                                  ELSE "s_header_almost_done"
    OBVIOUS
  <2>8. s_header_value(s, ch) = Again(u, Goto(v, st))
    BY <1>2, <2>1, <2>3, <2>5, <2>7 DEF s_header_value, EOL
  <2>9. Plain(Goto(v, st))
    BY <2>6, <2>7 DEF Plain, Parser, Fields, Goto, HeadStates, States, ChunkStates
  <2>10. u.http_errno # "HPE_OK" => Plain(u)
    BY <2>2 DEF Plain, MarksOf
  <2> QED BY <2>8, <2>9, <2>10 DEF Again
<1>3. CASE ch \notin EOL
  <2>1. PICK t : t = [s EXCEPT !.run = @ + 1]
    OBVIOUS
  <2>2. Parser(t) /\ t.state = "s_header_value" /\ t.marked \subseteq {"header_value"}
    BY <1>0, <2>1 DEF Parser, Fields
  <2>3. Plain(t) /\ Plain(Error(t, "HPE_INVALID_CONTENT_LENGTH"))
    BY <2>2, ErrorPlain DEF Plain, MarksOf, HeadStates, States, ChunkStates
  <2>4. ASSUME NEW h PROVE Plain([t EXCEPT !.header_state = h])
    BY <2>3 DEF Plain, Parser, Fields
  <2>5. Plain(ConnectionToken(t, ch))
    <3>1. \E f, h : ConnectionToken(t, ch) = [t EXCEPT !.flags = f, !.header_state = h]
      BY DEF ConnectionToken
    <3>2. PICK f, h : ConnectionToken(t, ch) = [t EXCEPT !.flags = f, !.header_state = h]
      BY <3>1
    <3> QED BY <2>3, <3>2 DEF Plain, Parser, Fields
  <2>6. ASSUME IS_NUM(ch) PROVE Plain(Lengthen(t, ch, 10, s.header_state))
    <3>1. unhex[ch] \in 0 .. 10 - 1
      BY <2>6, UnhexRange DEF IS_NUM
    <3> QED
      BY <2>2, <2>3, <3>1, LengthenInv
         DEF Plain, MarksOf, HeadStates, States, ChunkStates
  <2>7. CASE s.header_state = "h_content_length"
    <3>0. IS_NUM(ch) => ch # " "
      BY UnhexDomain DEF IS_NUM
    <3>1. \/ s_header_value(s, ch) = t
          \/ IS_NUM(ch) /\ s_header_value(s, ch) = Lengthen(t, ch, 10, s.header_state)
          \/ s_header_value(s, ch) = Error(t, "HPE_INVALID_CONTENT_LENGTH")
      BY <1>3, <2>1, <2>7, <3>0 DEF s_header_value, EOL
    <3> QED BY <2>3, <2>6, <3>1
  <2>8. CASE s.header_state # "h_content_length"
    <3>1. \/ s_header_value(s, ch) = t
          \/ \E h : s_header_value(s, ch) = [t EXCEPT !.header_state = h]
          \/ s_header_value(s, ch) = ConnectionToken(t, ch)
      BY <1>3, <2>1, <2>8 DEF s_header_value, EOL
    <3> QED BY <2>3, <2>4, <2>5, <3>1
  <2> QED BY <2>7, <2>8
<1> QED BY <1>1, <1>2, <1>3 DEF EOL

LEMMA HeaderAlmostDoneInv ==
  ASSUME NEW s, NEW ch, Counted(s, "s_header_almost_done")
  PROVE  Plain(s_header_almost_done(s, ch))
BY DEF Counted, Plain, Parser, Fields, s_header_almost_done, STRICT_CHECK, Goto, Error,
       HeadStates, States, ChunkStates, MarksOf

LEMMA HeaderValueLwsInv ==
  ASSUME NEW s, NEW ch, Counted(s, "s_header_value_lws")
  PROVE  ParserInv(s_header_value_lws(s, ch))
<1>0. Parser(s) /\ s.marked = {} /\ s.stopped = FALSE
  BY DEF Counted, MarksOf
<1>1. CASE ch = " "
  <2>1. PICK u : u = Goto(s, "s_header_value_start")
    OBVIOUS
  <2>2. Parser(u) /\ u.marked = {} /\ u.stopped = FALSE
    BY <1>0, <2>1 DEF Parser, Fields, Goto
  <2>3. PICK t : t = COUNT_HEADER_SIZE(u, 1)
    OBVIOUS
  <2>4. Parser(t) /\ t.marked = {} /\ t.stopped = FALSE
    BY <2>2, <2>3, CountHeaderSize
  <2>5. s_header_value_lws(s, ch) = Again(t, s_header_value_start(t, ch))
    BY <1>1, <2>1, <2>3 DEF s_header_value_lws
  <2> QED BY <2>4, <2>5, AgainInv, HeaderValueStartInv, PlainInv
<1>2. CASE ch # " "
  <2>1. PICK u : u = [Goto(s, "s_header_field_start") EXCEPT !.flags = @ \cup Flags(s)]
    OBVIOUS
  <2>2. Parser(u) /\ u.marked = {} /\ u.stopped = FALSE
    BY <1>0, <2>1 DEF Parser, Fields, Goto
  <2>3. PICK t : t = COUNT_HEADER_SIZE(u, 1)
    OBVIOUS
  <2>4. Parser(t) /\ t.marked = {} /\ t.stopped = FALSE
    BY <2>2, <2>3, CountHeaderSize
  <2>5. s_header_value_lws(s, ch) = Again(t, s_header_field_start(t, ch))
    BY <1>2, <2>1, <2>3 DEF s_header_value_lws
  <2> QED BY <2>4, <2>5, AgainInv, HeaderFieldStartInv
<1> QED BY <1>1, <1>2

LEMMA HeaderValueDiscardLwsInv ==
  ASSUME NEW s, NEW ch, Counted(s, "s_header_value_discard_lws")
  PROVE  ParserInv(s_header_value_discard_lws(s, ch))
<1>0. Parser(s) /\ s.marked = {} /\ s.stopped = FALSE
  BY DEF Counted, MarksOf
<1>1. CASE ch = " "
  <2>1. Plain(Goto(s, "s_header_value_discard_ws"))
    BY <1>0 DEF Plain, Parser, Fields, Goto, HeadStates, States, ChunkStates
  <2> QED BY <1>1, <2>1, PlainInv DEF s_header_value_discard_lws
<1>2. CASE ch # " "
  <2>1. PICK u : u = MARK([Goto(s, "s_header_field_start") EXCEPT
                             !.flags = @ \cup Flags(s)], "header_value")
    OBVIOUS
  <2>2. Parser(u) /\ u.marked = {"header_value"} /\ u.stopped = FALSE
    BY <1>0, <2>1 DEF Parser, Fields, Goto, MARK, Marks
  <2>3. PICK v : v = CALLBACK_DATA(u, "header_value")
    OBVIOUS
  <2>4. Parser(v) /\ v.marked = {} /\ v.stopped = FALSE
    BY <2>2, <2>3, CallbackData DEF Marks
  <2>5. PICK t : t = COUNT_HEADER_SIZE(v, 1)
    OBVIOUS
  <2>6. Parser(t) /\ t.marked = {} /\ t.stopped = FALSE
    BY <2>4, <2>5, CountHeaderSize
  <2>7. s_header_value_discard_lws(s, ch) = Again(t, s_header_field_start(t, ch))
    BY <1>2, <2>1, <2>3, <2>5 DEF s_header_value_discard_lws
  <2> QED BY <2>6, <2>7, AgainInv, HeaderFieldStartInv
<1> QED BY <1>1, <1>2

-----------------------------------------------------------------------------
(* The body.                                                                   *)

\* One byte less to come.
LEMMA BodyByte ==
  ASSUME NEW s, Parser(s), s.stopped = FALSE,
         s.content_length \notin {0, ULLONG_MAX}, NEW holds, holds
  PROVE  LET t == Assert_([MARK(s, "body") EXCEPT !.content_length = @ - 1], holds) IN
         /\ Parser(t) /\ t.state = s.state /\ t.flags = s.flags
         /\ t.content_length # ULLONG_MAX
         /\ t.marked = s.marked \cup {"body"} /\ t.http_errno = s.http_errno
<1>1. PICK u : u = [MARK(s, "body") EXCEPT !.content_length = @ - 1]
  OBVIOUS
<1>2. /\ Parser(u) /\ u.state = s.state /\ u.flags = s.flags
      /\ u.content_length # ULLONG_MAX
      /\ u.marked = s.marked \cup {"body"} /\ u.http_errno = s.http_errno
  <2>1. s.content_length - 1 \in 0 .. ULLONG_MAX /\ s.content_length - 1 # ULLONG_MAX
    BY ParserAssumption DEF Parser
  <2> QED BY <1>1, <2>1 DEF Parser, Fields, MARK, Marks
<1>3. PICK t : t = Assert_(u, holds)
  OBVIOUS
<1>4. DOMAIN u = Fields /\ u.failed = FALSE
  BY <1>2 DEF Parser
<1>5. t.failed = FALSE
  BY <1>3, <1>4 DEF Assert_, Fields
<1>6. /\ Parser(t) /\ t.state = u.state /\ t.flags = u.flags
      /\ t.content_length = u.content_length
      /\ t.marked = u.marked /\ t.http_errno = u.http_errno
  BY <1>2, <1>3, <1>5 DEF Assert_, Parser, Fields
<1> QED BY <1>1, <1>2, <1>3, <1>6

LEMMA AssertHolds ==
  ASSUME NEW s, Parser(s), NEW holds, holds
  PROVE  LET t == Assert_(s, holds) IN
         /\ Parser(t) /\ t.state = s.state /\ t.flags = s.flags
         /\ t.content_length = s.content_length
         /\ t.marked = s.marked /\ t.http_errno = s.http_errno
<1>1. PICK t : t = Assert_(s, holds)
  OBVIOUS
<1>2. DOMAIN s = Fields /\ s.failed = FALSE
  BY DEF Parser
<1>3. t.failed = FALSE
  BY <1>1, <1>2 DEF Assert_, Fields
<1>4. /\ Parser(t) /\ t.state = s.state /\ t.flags = s.flags
      /\ t.content_length = s.content_length
      /\ t.marked = s.marked /\ t.http_errno = s.http_errno
  BY <1>1, <1>3 DEF Assert_, Parser, Fields
<1> QED BY <1>1, <1>4

LEMMA BodyIdentityInv ==
  ASSUME NEW s, NEW ch \in Char, Counted(s, "s_body_identity")
  PROVE  ParserInv(s_body_identity(s, ch))
<1>0. /\ Parser(s) /\ s.state = "s_body_identity" /\ s.marked \subseteq {"body"}
      /\ s.stopped = FALSE /\ s.content_length \notin {0, ULLONG_MAX}
  BY DEF Counted, MarksOf, Length_
<1>1. PICK t : t = Assert_([MARK(s, "body") EXCEPT !.content_length = @ - 1],
                           s.content_length \notin {0, ULLONG_MAX})
  OBVIOUS
<1>2. /\ Parser(t) /\ t.state = "s_body_identity" /\ t.marked = {"body"}
      /\ t.content_length # ULLONG_MAX
  <2> DEFINE holds == s.content_length \notin {0, ULLONG_MAX}
  <2>1. holds /\ t = Assert_([MARK(s, "body") EXCEPT !.content_length = @ - 1], holds)
    BY <1>0, <1>1
  <2> HIDE DEF holds
  <2>2. /\ Parser(t) /\ t.state = s.state
        /\ t.content_length # ULLONG_MAX /\ t.marked = s.marked \cup {"body"}
    BY <1>0, <2>1, BodyByte
  <2> QED BY <1>0, <2>2
<1>3. CASE t.content_length = 0
  <2>1. PICK u : u = [t EXCEPT !.text["body"] = Append(@, ch)]
    OBVIOUS
  <2>2. Parser(u) /\ u.marked = {"body"}
    <3>1. t.text["body"] \in Seq(Char)
      BY <1>2 DEF Parser, Marks
    <3>2. Append(t.text["body"], ch) \in Seq(Char)
      BY <3>1
    <3>3. u = [t EXCEPT !.text = [t.text EXCEPT !["body"] = Append(t.text["body"], ch)]]
      BY <1>2, <2>1 DEF Parser, Marks, Fields
    <3>4. PICK x : x = [t.text EXCEPT !["body"] = Append(t.text["body"], ch)]
      OBVIOUS
    <3>5. x \in [Marks -> Seq(Char)]
      BY <1>2, <3>2, <3>4 DEF Parser, Marks
    <3> QED BY <1>2, <3>3, <3>4, <3>5 DEF Parser, Fields
  <2>3. PICK v : v = CALLBACK_DATA(u, "body")
    OBVIOUS
  <2>4. Parser(v) /\ v.marked = {}
    BY <2>2, <2>3, CallbackData DEF Marks
  <2>5. s_body_identity(s, ch) = EndMessage(v)
    BY <1>1, <1>3, <2>1, <2>3 DEF s_body_identity, CALLBACK_BODY
  <2> QED BY <2>4, <2>5, EndMessageInv, PlainInv
<1>4. CASE t.content_length # 0
  <2>1. s_body_identity(s, ch) = t
    BY <1>1, <1>4 DEF s_body_identity
  <2>2. ParserInv(t)
    BY <1>2, <1>4 DEF ParserInv, Length_, MarksOf, States, ChunkStates
  <2> QED BY <2>1, <2>2
<1> QED BY <1>3, <1>4

LEMMA BodyIdentityEofInv ==
  ASSUME NEW s, Counted(s, "s_body_identity_eof")
  PROVE  Plain(MARK(s, "body"))
BY DEF Counted, Plain, Parser, Fields, MARK, Marks, MarksOf, HeadStates, States,
       ChunkStates

LEMMA ChunkSizeStartInv ==
  ASSUME NEW s, NEW ch, Counted(s, "s_chunk_size_start"), s.nread = 1
  PROVE  ParserInv(s_chunk_size_start(s, ch))
<1>0. /\ Parser(s) /\ s.state = "s_chunk_size_start" /\ s.marked = {}
      /\ "F_CHUNKED" \in s.flags
  BY DEF Counted, MarksOf, Length_, ChunkStates
<1>1. PICK t : t = Assert_(s, s.nread = 1 /\ "F_CHUNKED" \in s.flags)
  OBVIOUS
<1>2. /\ Parser(t) /\ t.state = "s_chunk_size_start" /\ t.marked = {}
      /\ "F_CHUNKED" \in t.flags
  BY <1>0, <1>1, AssertHolds
<1>3. CASE ch \in DOMAIN unhex
  <2>1. PICK n : n = unhex[ch]
    OBVIOUS
  <2>2. n \in 0 .. ULLONG_MAX /\ n # ULLONG_MAX
    BY <1>3, <2>1, UnhexRange, ParserAssumption
  <2>3. s_chunk_size_start(s, ch) = Goto([t EXCEPT !.content_length = n], "s_chunk_size")
    BY <1>1, <1>3, <2>1 DEF s_chunk_size_start
  <2>4. ParserInv(Goto([t EXCEPT !.content_length = n], "s_chunk_size"))
    BY <1>2, <2>2 DEF ParserInv, Parser, Fields, Goto, Length_, States, ChunkStates
  <2> QED BY <2>3, <2>4
<1>4. CASE ch \notin DOMAIN unhex
  <2>1. Plain(Error(t, "HPE_INVALID_CHUNK_SIZE"))
    BY <1>2, ErrorPlain
  <2> QED BY <1>1, <1>4, <2>1, PlainInv DEF s_chunk_size_start
<1> QED BY <1>3, <1>4

LEMMA ChunkSizeInv ==
  ASSUME NEW s, NEW ch, Counted(s, "s_chunk_size")
  PROVE  ParserInv(s_chunk_size(s, ch))
<1>0. /\ Parser(s) /\ s.state = "s_chunk_size" /\ s.marked = {}
      /\ "F_CHUNKED" \in s.flags /\ s.content_length # ULLONG_MAX
  BY DEF Counted, MarksOf, Length_, ChunkStates
<1>1. ASSUME NEW st \in {"s_chunk_size_almost_done", "s_chunk_parameters"}
      PROVE  ParserInv(Goto(s, st))
  BY <1>0 DEF ParserInv, Parser, Fields, Goto, Length_, States, ChunkStates
<1>2. Plain(Error(s, "HPE_INVALID_CHUNK_SIZE"))
  BY <1>0, ErrorPlain
<1>3. CASE ch \in DOMAIN unhex
  <2>1. ch # "CR" /\ ch \notin {";", " "}
    BY <1>3, UnhexDomain
  <2>2. s_chunk_size(s, ch) = Lengthen(s, ch, 16, s.header_state)
    BY <1>3, <2>1 DEF s_chunk_size
  <2>3. unhex[ch] \in 0 .. 16 - 1
    BY <1>3, UnhexRange
  <2>4. Plain(Error(s, "HPE_INVALID_CONTENT_LENGTH"))
    BY <1>0, ErrorPlain
  <2>5. CASE Lengthen(s, ch, 16, s.header_state) = Error(s, "HPE_INVALID_CONTENT_LENGTH")
    BY <2>2, <2>4, <2>5, PlainInv
  <2>6. CASE Lengthen(s, ch, 16, s.header_state) # Error(s, "HPE_INVALID_CONTENT_LENGTH")
    <3>1. PICK t : t = Lengthen(s, ch, 16, s.header_state)
      OBVIOUS
    <3>2. /\ Parser(t) /\ t.content_length # ULLONG_MAX /\ t.state = "s_chunk_size"
          /\ t.marked = {} /\ "F_CHUNKED" \in t.flags
      BY <1>0, <2>3, <2>6, <3>1, LengthenInv
    <3> QED BY <2>2, <3>1, <3>2 DEF ParserInv, Length_, States, ChunkStates
  <2> QED BY <2>5, <2>6
<1>4. CASE ch \notin DOMAIN unhex
  <2>1. \/ \E st \in {"s_chunk_size_almost_done", "s_chunk_parameters"} :
             s_chunk_size(s, ch) = Goto(s, st)
        \/ s_chunk_size(s, ch) = Error(s, "HPE_INVALID_CHUNK_SIZE")
    BY <1>4 DEF s_chunk_size
  <2> QED BY <1>1, <1>2, <2>1, PlainInv
<1> QED BY <1>3, <1>4

LEMMA ChunkParametersInv ==
  ASSUME NEW s, NEW ch, Counted(s, "s_chunk_parameters")
  PROVE  ParserInv(s_chunk_parameters(s, ch))
BY DEF Counted, ParserInv, Parser, Fields, s_chunk_parameters, Goto, Length_, MarksOf,
       States, ChunkStates

LEMMA ChunkSizeAlmostDoneInv ==
  ASSUME NEW s, NEW ch, Counted(s, "s_chunk_size_almost_done")
  PROVE  ParserInv(s_chunk_size_almost_done(s, ch))
<1>0. /\ Parser(s) /\ s.state = "s_chunk_size_almost_done" /\ s.marked = {}
      /\ "F_CHUNKED" \in s.flags /\ s.content_length # ULLONG_MAX
  BY DEF Counted, MarksOf, Length_, ChunkStates
<1>1. PICK t : t = [s EXCEPT !.nread = 0]
  OBVIOUS
<1>2. /\ Parser(t) /\ t.marked = {} /\ t.content_length = s.content_length
      /\ "F_CHUNKED" \in t.flags
  BY <1>0, <1>1 DEF Parser, Fields
<1>3. CASE ch # "LF"
  <2>1. s_chunk_size_almost_done(s, ch) = Error(s, "HPE_STRICT")
    BY <1>3 DEF s_chunk_size_almost_done, STRICT_CHECK
  <2> QED BY <1>0, <2>1, ErrorPlain, PlainInv
<1>4. CASE ch = "LF" /\ s.content_length = 0
  <2>1. s_chunk_size_almost_done(s, ch) =
          Goto([t EXCEPT !.flags = @ \cup {"F_TRAILING"}], "s_header_field_start")
    BY <1>1, <1>4 DEF s_chunk_size_almost_done, STRICT_CHECK
  <2>2. Plain(Goto([t EXCEPT !.flags = @ \cup {"F_TRAILING"}], "s_header_field_start"))
    BY <1>2 DEF Plain, Parser, Fields, Goto, HeadStates, States, ChunkStates
  <2> QED BY <2>1, <2>2, PlainInv
<1>5. CASE ch = "LF" /\ s.content_length # 0
  <2>1. s_chunk_size_almost_done(s, ch) = Goto(t, "s_chunk_data")
    BY <1>1, <1>5 DEF s_chunk_size_almost_done, STRICT_CHECK
  <2>2. ParserInv(Goto(t, "s_chunk_data"))
    BY <1>0, <1>2, <1>5
       DEF ParserInv, Parser, Fields, Goto, Length_, States, ChunkStates
  <2> QED BY <2>1, <2>2
<1> QED BY <1>3, <1>4, <1>5

LEMMA ChunkDataInv ==
  ASSUME NEW s, NEW ch, Counted(s, "s_chunk_data")
  PROVE  ParserInv(s_chunk_data(s, ch))
<1>0. /\ Parser(s) /\ s.state = "s_chunk_data" /\ s.marked \subseteq {"body"}
      /\ s.stopped = FALSE /\ "F_CHUNKED" \in s.flags /\ s.content_length \notin {0, ULLONG_MAX}
  BY DEF Counted, MarksOf, Length_, ChunkStates
<1>1. PICK t : t = Assert_([MARK(s, "body") EXCEPT !.content_length = @ - 1],
                           "F_CHUNKED" \in s.flags /\ s.content_length \notin {0, ULLONG_MAX})
  OBVIOUS
<1>2. /\ Parser(t) /\ t.state = "s_chunk_data" /\ t.marked = {"body"}
      /\ "F_CHUNKED" \in t.flags /\ t.content_length # ULLONG_MAX
  <2> DEFINE holds == "F_CHUNKED" \in s.flags /\ s.content_length \notin {0, ULLONG_MAX}
  <2>1. holds /\ t = Assert_([MARK(s, "body") EXCEPT !.content_length = @ - 1], holds)
    BY <1>0, <1>1
  <2> HIDE DEF holds
  <2>2. /\ Parser(t) /\ t.state = s.state /\ t.flags = s.flags
        /\ t.content_length # ULLONG_MAX /\ t.marked = s.marked \cup {"body"}
    BY <1>0, <2>1, BodyByte
  <2> QED BY <1>0, <2>2
<1>3. ASSUME t.content_length = 0 PROVE ParserInv(Goto(t, "s_chunk_data_almost_done"))
  BY <1>2, <1>3 DEF ParserInv, Parser, Fields, Goto, Length_, MarksOf, States, ChunkStates
<1>4. ASSUME t.content_length # 0 PROVE ParserInv(t)
  BY <1>2, <1>4 DEF ParserInv, Length_, MarksOf, States, ChunkStates
<1> QED BY <1>1, <1>3, <1>4 DEF s_chunk_data

LEMMA ChunkDataAlmostDoneInv ==
  ASSUME NEW s, NEW ch, Counted(s, "s_chunk_data_almost_done")
  PROVE  ParserInv(s_chunk_data_almost_done(s, ch))
<1>0. /\ Parser(s) /\ s.state = "s_chunk_data_almost_done" /\ s.marked \subseteq {"body"}
      /\ "F_CHUNKED" \in s.flags /\ s.content_length = 0
  BY DEF Counted, MarksOf, Length_, ChunkStates
<1>1. PICK t : t = Assert_(s, s.content_length = 0)
  OBVIOUS
<1>2. Parser(t) /\ t.marked \subseteq {"body"} /\ "F_CHUNKED" \in t.flags
  BY <1>0, <1>1, AssertHolds
<1>3. PICK u : u = Goto(t, "s_chunk_data_done")
  OBVIOUS
<1>4. /\ Parser(u) /\ u.state = "s_chunk_data_done" /\ u.marked \subseteq {"body"}
      /\ "F_CHUNKED" \in u.flags
  BY <1>2, <1>3 DEF Parser, Fields, Goto
<1>5. PICK v : v = CALLBACK_DATA(u, "body")
  OBVIOUS
<1>6. /\ Parser(v) /\ v.state = "s_chunk_data_done" /\ v.marked = {}
      /\ "F_CHUNKED" \in v.flags
  BY <1>4, <1>5, CallbackData DEF Marks
<1>7. ParserInv(v)
  BY <1>6 DEF ParserInv, Length_, States, ChunkStates
<1>8. ParserInv(Error(s, "HPE_STRICT"))
  BY <1>0, ErrorPlain, PlainInv DEF MarksOf
<1> QED BY <1>1, <1>3, <1>5, <1>7, <1>8 DEF s_chunk_data_almost_done, STRICT_CHECK

LEMMA ChunkDataDoneInv ==
  ASSUME NEW s, NEW ch, Counted(s, "s_chunk_data_done")
  PROVE  ParserInv(s_chunk_data_done(s, ch))
<1>0. Parser(s) /\ s.marked = {} /\ "F_CHUNKED" \in s.flags
  BY DEF Counted, MarksOf, Length_, ChunkStates
<1>1. ParserInv(Goto([s EXCEPT !.nread = 0], "s_chunk_size_start"))
  BY <1>0 DEF ParserInv, Parser, Fields, Goto, Length_, States, ChunkStates
<1>2. ParserInv(Error(s, "HPE_STRICT"))
  BY <1>0, ErrorPlain, PlainInv
<1> QED BY <1>1, <1>2 DEF s_chunk_data_done, STRICT_CHECK

-----------------------------------------------------------------------------
(* A byte.                                                                     *)

LEMMA HandleInv ==
  ASSUME NEW s, NEW ch \in Char, Counted(s, s.state),
         s.state = "s_chunk_size_start" => s.nread = 1
  PROVE  ParserInv(Handle(s, ch))
<1>0. s.state \in States
  BY DEF Counted, Length_
<1>1. CASE s.state \in ChunkStates
  BY <1>1, ChunkSizeStartInv, ChunkSizeInv, ChunkParametersInv, ChunkSizeAlmostDoneInv,
     ChunkDataInv, ChunkDataAlmostDoneInv, ChunkDataDoneInv
     DEF ChunkStates, Handle
<1>2. CASE s.state \in {"s_dead", "s_start_res", "s_res_H"}
  BY <1>2, DeadInv, StartResInv, ResHInv, PlainInv DEF Handle
<1>3. CASE s.state \in VersionStates
  BY <1>3, VersionInv, PlainInv DEF Handle, VersionStates
<1>4. CASE s.state \in {"s_res_first_status_code", "s_res_status_code"}
  BY <1>4, StatusCodeInv, PlainInv DEF Handle
<1>5. CASE s.state \in {"s_res_status_start", "s_res_status", "s_res_line_almost_done"}
  BY <1>5, ResStatusStartInv, ResStatusInv, ResLineAlmostDoneInv, PlainInv DEF Handle
<1>6. CASE s.state = "s_header_field_start"
  BY <1>6, HeaderFieldStartInv DEF Handle, Counted, MarksOf
<1>7. CASE s.state \in {"s_header_field", "s_header_value_discard_ws"}
  BY <1>7, HeaderFieldInv, HeaderValueDiscardWsInv, PlainInv DEF Handle
<1>8. CASE s.state = "s_header_value_discard_ws_almost_done"
  BY <1>8, DiscardWsAlmostDoneInv, PlainInv DEF Handle
<1>9. CASE s.state \in {"s_header_value_discard_lws", "s_header_value",
                        "s_header_almost_done", "s_header_value_lws"}
  BY <1>9, HeaderValueDiscardLwsInv, HeaderValueInv, HeaderAlmostDoneInv,
     HeaderValueLwsInv, PlainInv DEF Handle
<1>10. CASE s.state = "s_headers_almost_done"
  BY <1>10, HeadersAlmostDoneInv DEF Handle, Counted, MarksOf
<1>11. CASE s.state \in {"s_body_identity", "s_body_identity_eof"}
  BY <1>11, BodyIdentityInv, BodyIdentityEofInv, PlainInv DEF Handle
<1> QED BY <1>0, <1>1, <1>2, <1>3, <1>4, <1>5, <1>6, <1>7, <1>8, <1>9, <1>10, <1>11
        DEF States, VersionStates

LEMMA ConsumeInv ==
  ASSUME NEW s, ParserInv(s), s.http_errno = "HPE_OK", s.stopped = FALSE,
         NEW ch \in Char
  PROVE  ParserInv(Consume(s, ch))
<1>0. Parser(s) /\ Length_(s) /\ s.marked \subseteq MarksOf(s.state)
      /\ (s.state = "s_chunk_size_start" => s.nread = 0)
  BY DEF ParserInv
<1>1. PICK counted : counted =
        IF \/ s.state \in BodyStates
           \/ s.state \in {"s_header_field", "s_header_value"} /\ s.run > 0
          THEN s ELSE COUNT_HEADER_SIZE(s, 1)
  OBVIOUS
<1>2. PICK t : t = Again(counted, Handle(counted, ch))
  OBVIOUS
<1>3. ParserInv(t)
  <2>1. CASE counted = s /\ s.state # "s_chunk_size_start"
    <3>1. Counted(s, s.state)
      BY <1>0 DEF Counted
    <3> QED BY <1>2, <2>1, <3>1, HandleInv DEF Again
  <2>2. CASE counted = COUNT_HEADER_SIZE(s, 1)
    <3>1. /\ Parser(counted) /\ counted.state = s.state /\ counted.flags = s.flags
          /\ counted.nread = s.nread + 1 /\ counted.content_length = s.content_length
          /\ counted.marked = s.marked /\ counted.stopped = FALSE
      BY <1>0, <2>2, CountHeaderSize
    <3>2. CASE counted.http_errno = "HPE_OK"
      <4>1. Counted(counted, counted.state)
        BY <1>0, <3>1, <3>2 DEF Counted, Length_
      <4>2. counted.state = "s_chunk_size_start" => counted.nread = 1
        BY <1>0, <3>1
      <4> QED BY <1>2, <3>2, <4>1, <4>2, HandleInv DEF Again
    <3>3. CASE counted.http_errno # "HPE_OK"
      BY <1>0, <1>2, <3>1, <3>3 DEF Again, ParserInv
    <3> QED BY <3>2, <3>3
  <2> QED BY <1>1, <2>1, <2>2 DEF BodyStates
<1>4. CASE t.http_errno # "HPE_OK"
  <2>1. Consume(s, ch) = t
    BY <1>1, <1>2, <1>4 DEF Consume
  <2> QED BY <1>3, <2>1
<1>5. CASE t.http_errno = "HPE_OK"
  <2>1. PICK x : x = [m \in Marks |-> IF m \in t.marked THEN Append(t.text[m], ch)
                                                        ELSE <<>>]
    OBVIOUS
  <2>2. x \in [Marks -> Seq(Char)]
    <3>1. ASSUME NEW m \in Marks PROVE x[m] \in Seq(Char)
      <4>1. t.text[m] \in Seq(Char)
        BY <1>3 DEF ParserInv, Parser
      <4>2. Append(t.text[m], ch) \in Seq(Char)
        BY <4>1
      <4>3. x[m] = Append(t.text[m], ch) \/ x[m] = <<>>
        BY <2>1
      <4>4. << >> \in Seq(Char)
        OBVIOUS
      <4> QED BY <4>2, <4>3, <4>4
    <3> QED BY <2>1, <3>1
  <2>3. Consume(s, ch) = [t EXCEPT !.taken = @ + 1, !.text = x]
    BY <1>1, <1>2, <1>5, <2>1 DEF Consume
  <2>4. PICK u : u = [t EXCEPT !.taken = @ + 1, !.text = x]
    OBVIOUS
  <2>5. /\ DOMAIN u = Fields /\ u.taken = t.taken + 1 /\ u.text = x
        /\ \A g \in Fields \ {"taken", "text"} : u[g] = t[g]
    BY <1>3, <2>4 DEF ParserInv, Parser, Fields
  <2>6. /\ u.state = t.state /\ u.flags = t.flags /\ u.nread = t.nread
        /\ u.content_length = t.content_length /\ u.http_errno = t.http_errno
        /\ u.marked = t.marked /\ u.run = t.run /\ u.stopped = t.stopped
        /\ u.calls = t.calls /\ u.failed = t.failed
        /\ u.http_major = t.http_major /\ u.http_minor = t.http_minor
        /\ u.status_code = t.status_code
    BY <2>5 DEF Fields
  <2>7. Parser(u)
    <3>1. Parser(t)
      BY <1>3 DEF ParserInv
    <3>2. u.taken \in Nat
      BY <2>5, <3>1 DEF Parser
    <3>3. DOMAIN u = Fields /\ u.text \in [Marks -> Seq(Char)]
      BY <2>2, <2>5
    <3> QED BY <2>6, <3>1, <3>2, <3>3 DEF Parser
  <2>8. ParserInv(u)
    <3>1. t.http_errno = "HPE_OK" => Length_(u)
      BY <1>3, <2>6 DEF ParserInv, Length_
    <3> QED BY <1>3, <2>6, <2>7, <3>1 DEF ParserInv
  <2> QED BY <2>3, <2>4, <2>8
<1> QED BY <1>4, <1>5

-----------------------------------------------------------------------------
(* A read. turn is a recursive function: that it exists, and that all it       *)
(* passes through is as the invariant says, are inductions, carried by the     *)
(* least number for which the claim fails.                                     *)

LEMMA Least ==
  ASSUME NEW T \in SUBSET Nat, T # {}
  PROVE  \E n \in T : \A m \in T : n <= m
<1>1. PICK rel : rel = OpToRel(<, Nat) /\ IsWellFoundedOn(rel, Nat)
  BY NatLessThanWellFounded
<1>2. PICK x \in T : \A y \in T : ~(<<y, x>> \in rel)
  BY <1>1, WFMin
<1>3. ASSUME NEW m \in T PROVE x <= m
  <2>1. <<m, x>> \notin OpToRel(<, Nat)
    BY <1>1, <1>2
  <2>2. ~(m < x)
    BY <2>1 DEF OpToRel
  <2> QED BY <2>2
<1> QED BY <1>3

\* One turn of the loop over the bytes.
Turn1(s, ch) == IF s.http_errno # "HPE_OK" \/ s.stopped THEN s ELSE Consume(s, ch)

\* g is the loop over the first n bytes.
IsLoop(g, n, p, data) ==
  g = [i \in 0 .. n |-> IF i = 0 THEN p ELSE Turn1(g[i - 1], data[i])]

LEMMA LoopExists ==
  ASSUME NEW p, NEW data
  PROVE  \A k \in Nat : \E g : IsLoop(g, k, p, data)
<1> DEFINE Exists(n) == \E g : IsLoop(g, n, p, data)
           T == {n \in Nat : ~Exists(n)}
<1> HIDE DEF Exists
<1>1. SUFFICES T = {}
  BY DEF Exists
<1>2. SUFFICES ASSUME T # {} PROVE FALSE
  OBVIOUS
<1>3. PICK n \in T : \A m \in T : n <= m
  BY <1>2, Least
<1>4. n # 0
  <2>1. IsLoop([i \in 0 .. 0 |-> p], 0, p, data)
    BY DEF IsLoop
  <2>2. Exists(0)
    BY <2>1 DEF Exists
  <2> QED BY <2>2
<1>5. PICK g : IsLoop(g, n - 1, p, data)
  <2>1. Exists(n - 1)
    BY <1>3, <1>4
  <2> QED BY <2>1 DEF Exists
<1>6. PICK h : h = [i \in 0 .. n |-> IF i = n THEN Turn1(g[n - 1], data[n]) ELSE g[i]]
  OBVIOUS
<1>7. ASSUME NEW i \in 0 .. n
      PROVE  h[i] = IF i = 0 THEN p ELSE Turn1(h[i - 1], data[i])
  <2>1. CASE i = n
    BY <1>4, <1>6, <2>1
  <2>2. CASE i # n
    <3>1. i \in 0 .. (n - 1)
      BY <2>2
    <3>2. g[i] = IF i = 0 THEN p ELSE Turn1(g[i - 1], data[i])
      BY <1>5, <3>1 DEF IsLoop
    <3> QED BY <1>6, <2>2, <3>1, <3>2
  <2> QED BY <2>1, <2>2
<1>8. IsLoop(h, n, p, data)
  <2>1. h = [i \in 0 .. n |-> h[i]]
    BY <1>6
  <2> QED BY <1>7, <2>1 DEF IsLoop
<1>9. Exists(n)
  BY <1>8 DEF Exists
<1> QED BY <1>3, <1>9

LEMMA TurnsIsLoop ==
  ASSUME NEW p, NEW data, Len(data) \in Nat
  PROVE  IsLoop(Turns(p, data), Len(data), Enter(p), data)
<1>1. \E g : IsLoop(g, Len(data), Enter(p), data)
  BY LoopExists
<1>2. \E g : g = [i \in 0 .. Len(data) |->
                    IF i = 0 THEN Enter(p)
                    ELSE LET s == g[i - 1] IN
                         IF s.http_errno # "HPE_OK" \/ s.stopped THEN s
                                                                ELSE Consume(s, data[i])]
  BY <1>1 DEF IsLoop, Turn1
<1>3. Turns(p, data) = [i \in 0 .. Len(data) |->
                    IF i = 0 THEN Enter(p)
                    ELSE LET s == Turns(p, data)[i - 1] IN
                         IF s.http_errno # "HPE_OK" \/ s.stopped THEN s
                                                                ELSE Consume(s, data[i])]
  BY <1>2 DEF Turns
<1> QED BY <1>3 DEF IsLoop, Turn1

LEMMA TurnsInv ==
  ASSUME NEW p, NEW data \in Seq(Char), ParserInv(Enter(p))
  PROVE  \A k \in 0 .. Len(data) : ParserInv(Turns(p, data)[k])
<1> DEFINE T == {n \in 0 .. Len(data) : ~ParserInv(Turns(p, data)[n])}
<1>1. SUFFICES ASSUME T # {} PROVE FALSE
  OBVIOUS
<1>2. PICK n \in T : \A m \in T : n <= m
  <2>1. T \in SUBSET Nat
    OBVIOUS
  <2> HIDE DEF T
  <2> QED BY <1>1, <2>1, Least
<1>3. PICK g : g = Turns(p, data)
  OBVIOUS
<1>4. IsLoop(g, Len(data), Enter(p), data)
  BY <1>3, TurnsIsLoop
<1>5. g[0] = Enter(p)
  BY <1>4 DEF IsLoop
<1>6. n # 0 /\ n \in 0 .. Len(data) /\ ~ParserInv(g[n])
  BY <1>3, <1>5
<1>7. ParserInv(g[n - 1])
  <2>1. n - 1 \in 0 .. Len(data) /\ n - 1 \notin T
    BY <1>2, <1>6
  <2> QED BY <1>3, <2>1
<1>8. g[n] = Turn1(g[n - 1], data[n])
  BY <1>4, <1>6 DEF IsLoop
<1>9. data[n] \in Char
  BY <1>6
<1>10. g[n - 1].stopped \in BOOLEAN
  BY <1>7 DEF ParserInv, Parser
<1>11. ParserInv(g[n])
  BY <1>7, <1>8, <1>9, <1>10, ConsumeInv DEF Turn1
<1> QED BY <1>6, <1>11

\* Between reads no mark is set, unless the parser has given up.
Resting(p) ==
  /\ ParserInv(p)
  /\ p.http_errno = "HPE_OK" => p.marked = {}

LEMMA EnterInv ==
  ASSUME NEW p, ParserInv(p)
  PROVE  ParserInv(Enter(p)) /\ ParserInv([Enter(p) EXCEPT !.marked = {}])
<1>1. PICK m : m = CASE p.state = "s_header_field" -> {"header_field"}
                     [] p.state = "s_header_value" -> {"header_value"}
                     [] p.state = "s_res_status" -> {"status"}
                     [] OTHER -> {}
  OBVIOUS
<1>2. m \subseteq MarksOf(p.state) /\ m \subseteq Marks
  BY <1>1 DEF MarksOf, Marks
<1>3. PICK t : t = [p EXCEPT !.run = 0, !.taken = 0, !.stopped = FALSE, !.calls = <<>>,
                             !.marked = m]
  OBVIOUS
<1>4. Enter(p) = t
  BY <1>1, <1>3 DEF Enter
<1>5. DOMAIN p = Fields
  BY DEF ParserInv, Parser
<1>6. /\ DOMAIN t = Fields /\ t.run = 0 /\ t.taken = 0 /\ t.stopped = FALSE
      /\ t.calls = <<>> /\ t.marked = m
  BY <1>3, <1>5 DEF Fields
<1>7. /\ t.state = p.state /\ t.flags = p.flags /\ t.nread = p.nread
      /\ t.content_length = p.content_length /\ t.http_errno = p.http_errno
  BY <1>3, <1>5 DEF Fields
<1>8. /\ t.http_major = p.http_major /\ t.http_minor = p.http_minor
      /\ t.status_code = p.status_code /\ t.text = p.text /\ t.failed = p.failed
  BY <1>3, <1>5 DEF Fields
<1>9. Parser(t)
  <2>1. << >> \in Seq(Call)
    OBVIOUS
  <2>2. Parser(p)
    BY DEF ParserInv
  <2>3. /\ t.content_length \in 0 .. ULLONG_MAX /\ t.nread \in Nat
        /\ t.http_major \in Nat /\ t.http_minor \in Nat /\ t.status_code \in Nat
        /\ t.text \in [Marks -> Seq(Char)] /\ t.failed = FALSE
    BY <1>7, <1>8, <2>2 DEF Parser
  <2>4. t.run \in Nat /\ t.taken \in Nat /\ t.calls \in Seq(Call)
    BY <1>6, <2>1
  <2>5. t.stopped \in BOOLEAN /\ ~t.stopped
    BY <1>6
  <2> QED BY <1>2, <1>6, <2>3, <2>4, <2>5 DEF Parser
<1>10. ParserInv(t)
  BY <1>2, <1>6, <1>7, <1>9 DEF ParserInv, Length_
<1>11. ParserInv([t EXCEPT !.marked = {}])
  BY <1>10 DEF ParserInv, Parser, Fields, Length_
<1> QED BY <1>4, <1>10, <1>11

LEMMA LeaveInv ==
  ASSUME NEW s, ParserInv(s)
  PROVE  Resting(Leave(s))
<1>1. CASE s.http_errno # "HPE_OK" \/ s.stopped
  BY <1>1 DEF Leave, Resting, ParserInv, Parser
<1>2. CASE ~(s.http_errno # "HPE_OK" \/ s.stopped)
  <2>1. PICK t : t = IF s.state \in {"s_header_field", "s_header_value"}
                       THEN COUNT_HEADER_SIZE(s, s.run) ELSE s
    OBVIOUS
  <2>2. /\ Parser(t) /\ t.state = s.state /\ t.flags = s.flags
        /\ t.content_length = s.content_length /\ t.marked = s.marked
        /\ (s.state = "s_chunk_size_start" => t.nread = s.nread)
    <3>1. Parser(s) /\ s.run \in Nat
      BY DEF ParserInv, Parser
    <3> QED BY <2>1, <3>1, CountHeaderSize
  <2>3. ParserInv(t)
    BY <1>2, <2>2 DEF ParserInv, Length_
  <2>4. Cardinality(t.marked) <= 1
    <3>1. t.marked = {} \/ \E m : t.marked = {m}
      BY <2>3 DEF ParserInv, MarksOf
    <3>2. CASE t.marked = {}
      <4>1. Cardinality({}) = 0
        BY FS_EmptySet
      <4> QED BY <3>2, <4>1
    <3>3. ASSUME NEW m, t.marked = {m} PROVE Cardinality(t.marked) <= 1
      <4>1. Cardinality({m}) = 1
        BY FS_Singleton
      <4> QED BY <3>3, <4>1
    <3> QED BY <3>1, <3>2, <3>3
  <2>6. PICK u : u = Assert_(t, Cardinality(t.marked) <= 1)
    OBVIOUS
  <2>7. /\ Parser(u) /\ u.state = t.state /\ u.flags = t.flags
        /\ u.content_length = t.content_length /\ u.marked = t.marked
        /\ u.http_errno = t.http_errno /\ u.nread = t.nread
    <3>1. Parser(t)
      BY <2>2
    <3>2. u.nread = t.nread
      BY <2>6, <3>1 DEF Assert_, Parser, Fields
    <3> QED BY <2>4, <2>6, <3>1, <3>2, AssertHolds
  <2>8. PICK a : a = CALLBACK_DATA(u, "header_field")
    OBVIOUS
  <2>9. PICK b : b = CALLBACK_DATA(a, "header_value")
    OBVIOUS
  <2>10. PICK c : c = CALLBACK_DATA(b, "body")
    OBVIOUS
  <2>11. PICK d : d = CALLBACK_DATA(c, "status")
    OBVIOUS
  <2>12. Leave(s) = Again(t, d)
    BY <1>2, <2>1, <2>6, <2>8, <2>9, <2>10, <2>11 DEF Leave
  <2>13. /\ Parser(a) /\ a.state = t.state /\ a.flags = t.flags /\ a.nread = t.nread
         /\ a.content_length = t.content_length /\ a.http_errno = t.http_errno
         /\ a.marked = u.marked \ {"header_field"}
    BY <2>7, <2>8, CallbackData DEF Marks
  <2>14. /\ Parser(b) /\ b.state = t.state /\ b.flags = t.flags /\ b.nread = t.nread
         /\ b.content_length = t.content_length /\ b.http_errno = t.http_errno
         /\ b.marked = a.marked \ {"header_value"}
    BY <2>9, <2>13, CallbackData DEF Marks
  <2>15. /\ Parser(c) /\ c.state = t.state /\ c.flags = t.flags /\ c.nread = t.nread
         /\ c.content_length = t.content_length /\ c.http_errno = t.http_errno
         /\ c.marked = b.marked \ {"body"}
    BY <2>10, <2>14, CallbackData DEF Marks
  <2>16. /\ Parser(d) /\ d.state = t.state /\ d.flags = t.flags /\ d.nread = t.nread
         /\ d.content_length = t.content_length /\ d.http_errno = t.http_errno
         /\ d.marked = c.marked \ {"status"}
    BY <2>11, <2>15, CallbackData DEF Marks
  <2>17. d.marked = {}
    BY <2>7, <2>13, <2>14, <2>15, <2>16 DEF Parser, Marks
  <2>18. Resting(d)
    BY <2>3, <2>16, <2>17 DEF Resting, ParserInv, Length_
  <2> QED BY <2>3, <2>12, <2>18 DEF Again, Resting
<1> QED BY <1>1, <1>2

LEMMA AtEndInv ==
  ASSUME NEW s, ParserInv(s), s.marked = {}
  PROVE  Resting(AtEnd(s))
<1>0. Parser(s)
  BY DEF ParserInv
<1>1. CASE s.state = "s_body_identity_eof"
  <2>1. Plain(MessageComplete(s)) /\ MessageComplete(s).marked = {}
    BY <1>0, <1>1, MessageCompleteInv DEF HeadStates, States, ChunkStates
  <2> QED BY <1>1, <2>1, PlainInv DEF AtEnd, Resting
<1>2. CASE s.state \in {"s_dead", "s_start_res"}
  BY <1>2 DEF AtEnd, Resting
<1>3. CASE s.state \notin {"s_body_identity_eof", "s_dead", "s_start_res"}
  <2>1. AtEnd(s) = [Error(s, "HPE_INVALID_EOF_STATE") EXCEPT !.taken = 1]
    BY <1>3 DEF AtEnd
  <2>2. Resting([Error(s, "HPE_INVALID_EOF_STATE") EXCEPT !.taken = 1])
    BY <1>0 DEF Resting, ParserInv, Parser, Fields, Error
  <2> QED BY <2>1, <2>2
<1> QED BY <1>1, <1>2, <1>3

LEMMA ExecuteInv ==
  ASSUME NEW p, ParserInv(p), NEW data \in Seq(Char)
  PROVE  Resting(http_parser_execute(p, data))
<1>1. CASE p.http_errno # "HPE_OK"
  <2>1. ParserInv([Enter(p) EXCEPT !.marked = {}])
    BY EnterInv
  <2>2. [Enter(p) EXCEPT !.marked = {}].marked = {}
    BY EnterInv DEF ParserInv, Parser, Fields
  <2> QED BY <1>1, <2>1, <2>2 DEF http_parser_execute, Resting
<1>2. CASE p.http_errno = "HPE_OK" /\ data = <<>>
  <2>1. ParserInv([Enter(p) EXCEPT !.marked = {}])
    BY EnterInv
  <2>2. [Enter(p) EXCEPT !.marked = {}].marked = {}
    BY EnterInv DEF ParserInv, Parser, Fields
  <2> QED BY <1>2, <2>1, <2>2, AtEndInv DEF http_parser_execute
<1>3. CASE p.http_errno = "HPE_OK" /\ data # <<>>
  <2>1. Len(data) \in 0 .. Len(data)
    OBVIOUS
  <2>2. ParserInv(Turns(p, data)[Len(data)])
    BY <2>1, EnterInv, TurnsInv
  <2> QED BY <1>3, <2>2, LeaveInv DEF http_parser_execute
<1> QED BY <1>1, <1>2, <1>3

-----------------------------------------------------------------------------
(* The callbacks.                                                              *)

IsBuffer(b) ==
  /\ DOMAIN b = {"allocated", "mem", "cursor"}
  /\ b.mem \in Seq(Char)
  /\ b.cursor \in 0 .. Len(b.mem)

IsConn(c) ==
  /\ DOMAIN c = {"state", "headers", "body"}
  /\ c.state \in {"FIELD", "VALUE"}
  /\ IsBuffer(c.headers) /\ IsBuffer(c.body)

Collected(cc) == DOMAIN cc = {"conn", "seen"} /\ IsConn(cc.conn)

LEMMA Single == ASSUME NEW S, NEW x \in S PROVE <<x>> \in Seq(S)
OBVIOUS

LEMMA NulText == <<"NUL">> \in Seq(Char)
<1>1. "NUL" \in Char
  BY DEF Char
<1> QED BY <1>1, Single

LEMMA WriteType ==
  ASSUME NEW b, IsBuffer(b), NEW text \in Seq(Char)
  PROVE  IsBuffer(Write(b, text))
<1>1. PICK mem : mem = b.mem
  OBVIOUS
<1>2. PICK n : n = b.cursor
  OBVIOUS
<1>3. mem \in Seq(Char) /\ n \in 0 .. Len(mem)
  BY <1>1, <1>2 DEF IsBuffer
<1>4. PICK pre : pre = SubSeq(mem, 1, n)
  OBVIOUS
<1>5. PICK post : post = SubSeq(mem, n + Len(text) + 1, Len(mem))
  OBVIOUS
<1>6. pre \in Seq(Char)
  BY <1>3, <1>4
<1>7. post \in Seq(Char)
  BY <1>3, <1>5
<1>8. Len(pre) = n
  BY <1>3, <1>4
<1>9. PICK all : all = pre \o text \o post
  OBVIOUS
<1>10. all \in Seq(Char)
  BY <1>6, <1>7, <1>9
<1>11. Len(all) = Len(pre) + Len(text) + Len(post)
  BY <1>6, <1>7, <1>9
<1>12. PICK w : w = Write(b, text)
  OBVIOUS
<1>13. w = [b EXCEPT !.mem = all, !.cursor = n + Len(text)]
  BY <1>1, <1>2, <1>4, <1>5, <1>9, <1>12 DEF Write
<1>14. n + Len(text) \in 0 .. Len(all)
  BY <1>3, <1>7, <1>8, <1>11
<1>15. IsBuffer(w)
  BY <1>10, <1>13, <1>14 DEF IsBuffer
<1> QED BY <1>12, <1>15

LEMMA AppendType ==
  ASSUME NEW b, IsBuffer(b), NEW text \in Seq(Char)
  PROVE  IsBuffer(buffer_append(b, text))
<1>1. IsBuffer(Write(b, text))
  BY WriteType
<1> QED BY <1>1 DEF buffer_append, IsBuffer

LEMMA TurnType ==
  ASSUME NEW c, IsConn(c), NEW state \in {"FIELD", "VALUE"}
  PROVE  IsConn(Turn(c, state))
<1>1. IsBuffer(Write(c.headers, <<"NUL">>))
  BY NulText, WriteType DEF IsConn
<1> QED BY <1>1 DEF Turn, IsConn

LEMMA CallbackType ==
  ASSUME NEW cc, Collected(cc), NEW call \in Call
  PROVE  Collected(Callback(cc, call))
<1>0. IsConn(cc.conn) /\ call.text \in Seq(Char)
  BY DEF Collected, Call
<1>1. ASSUME NEW state \in {"FIELD", "VALUE"}, NEW t, t = Turn(cc.conn, state)
      PROVE  IsConn([t EXCEPT !.headers = buffer_append(@, call.text)])
  <2>1. IsConn(t)
    BY <1>0, <1>1, TurnType
  <2>2. IsBuffer(buffer_append(t.headers, call.text))
    BY <1>0, <2>1, AppendType DEF IsConn
  <2> QED BY <2>1, <2>2 DEF IsConn
<1>2. CASE call.to = "header_field"
  <2>1. IsConn(header_field(cc.conn, call.text))
    BY <1>1 DEF header_field
  <2>2. Callback(cc, call) = [cc EXCEPT !.conn = header_field(@, call.text)]
    BY <1>2 DEF Callback
  <2> QED BY <2>1, <2>2 DEF Collected
<1>3. CASE call.to = "header_value"
  <2>1. IsConn(header_value(cc.conn, call.text))
    BY <1>1 DEF header_value
  <2>2. Callback(cc, call) = [cc EXCEPT !.conn = header_value(@, call.text)]
    BY <1>3 DEF Callback
  <2> QED BY <2>1, <2>2 DEF Collected
<1>4. CASE call.to = "body"
  <2>1. IsBuffer(buffer_append(cc.conn.body, call.text))
    BY <1>0, AppendType DEF IsConn
  <2>2. IsConn(response_body(cc.conn, call.text))
    BY <1>0, <2>1 DEF response_body, IsConn
  <2>3. Callback(cc, call) = [cc EXCEPT !.conn = response_body(@, call.text)]
    BY <1>4 DEF Callback
  <2> QED BY <2>2, <2>3 DEF Collected
<1>5. CASE call.to = "message_complete"
  <2>1. Callback(cc, call) = response_complete(cc, call.status)
    BY <1>5 DEF Callback
  <2>2. PICK h : h = Write(cc.conn.headers, <<"NUL">>)
    OBVIOUS
  <2>3. IsBuffer(h)
    BY <1>0, <2>2, NulText, WriteType DEF IsConn
  <2>4. ASSUME NEW b, IsBuffer(b) PROVE IsBuffer(buffer_reset(b))
    <3>1. 0 \in 0 .. Len(b.mem)
      BY <2>4 DEF IsBuffer
    <3> QED BY <2>4, <3>1 DEF buffer_reset, IsBuffer
  <2>5. PICK c : c = [state |-> "FIELD", headers |-> buffer_reset(h),
                      body |-> buffer_reset(cc.conn.body)]
    OBVIOUS
  <2>6. IsConn(c)
    <3>1. IsBuffer(buffer_reset(h)) /\ IsBuffer(buffer_reset(cc.conn.body))
      BY <1>0, <2>3, <2>4 DEF IsConn
    <3> QED BY <2>5, <3>1 DEF IsConn
  <2>7. \/ Callback(cc, call) = cc
        \/ \E x : Callback(cc, call) = [conn |-> c, seen |-> x]
    BY <2>1, <2>2, <2>5 DEF response_complete
  <2>8. ASSUME NEW x PROVE Collected([conn |-> c, seen |-> x])
    BY <2>6 DEF Collected
  <2> QED BY <2>7, <2>8
<1> QED BY <1>2, <1>3, <1>4, <1>5 DEF Call

\* g is the loop over the first n calls; it exists and keeps the types, by the
\* same inductions.
IsDelivery(g, n, cc, calls) ==
  g = [i \in 0 .. n |-> IF i = 0 THEN cc ELSE Callback(g[i - 1], calls[i])]

LEMMA DeliveryExists ==
  ASSUME NEW cc, NEW calls
  PROVE  \A k \in Nat : \E g : IsDelivery(g, k, cc, calls)
<1> DEFINE Exists(n) == \E g : IsDelivery(g, n, cc, calls)
           T == {n \in Nat : ~Exists(n)}
<1> HIDE DEF Exists
<1>1. SUFFICES T = {}
  BY DEF Exists
<1>2. SUFFICES ASSUME T # {} PROVE FALSE
  OBVIOUS
<1>3. PICK n \in T : \A m \in T : n <= m
  BY <1>2, Least
<1>4. n # 0
  <2>1. IsDelivery([i \in 0 .. 0 |-> cc], 0, cc, calls)
    BY DEF IsDelivery
  <2>2. Exists(0)
    BY <2>1 DEF Exists
  <2> QED BY <2>2
<1>5. PICK g : IsDelivery(g, n - 1, cc, calls)
  <2>1. Exists(n - 1)
    BY <1>3, <1>4
  <2> QED BY <2>1 DEF Exists
<1>6. PICK h : h = [i \in 0 .. n |-> IF i = n THEN Callback(g[n - 1], calls[n]) ELSE g[i]]
  OBVIOUS
<1>7. ASSUME NEW i \in 0 .. n
      PROVE  h[i] = IF i = 0 THEN cc ELSE Callback(h[i - 1], calls[i])
  <2>1. CASE i = n
    BY <1>4, <1>6, <2>1
  <2>2. CASE i # n
    <3>1. i \in 0 .. (n - 1)
      BY <2>2
    <3>2. g[i] = IF i = 0 THEN cc ELSE Callback(g[i - 1], calls[i])
      BY <1>5, <3>1 DEF IsDelivery
    <3> QED BY <1>6, <2>2, <3>1, <3>2
  <2> QED BY <2>1, <2>2
<1>8. IsDelivery(h, n, cc, calls)
  <2>1. h = [i \in 0 .. n |-> h[i]]
    BY <1>6
  <2> QED BY <1>7, <2>1 DEF IsDelivery
<1>9. Exists(n)
  BY <1>8 DEF Exists
<1> QED BY <1>3, <1>9

LEMMA CallbacksType ==
  ASSUME IsConn(conn), NEW calls \in Seq(Call)
  PROVE  Collected(Callbacks(calls))
<1>1. PICK cc : cc = [conn |-> conn, seen |-> seen]
  OBVIOUS
<1>2. Collected(cc)
  BY <1>1 DEF Collected
<1>3. PICK g : g = After(calls)
  OBVIOUS
<1>4. IsDelivery(g, Len(calls), cc, calls)
  <2>1. Len(calls) \in Nat
    OBVIOUS
  <2>2. \E x : IsDelivery(x, Len(calls), cc, calls)
    BY <2>1, DeliveryExists
  <2>3. \E x : x = [i \in 0 .. Len(calls) |->
                      IF i = 0 THEN [conn |-> conn, seen |-> seen]
                      ELSE Callback(x[i - 1], calls[i])]
    BY <1>1, <2>2 DEF IsDelivery
  <2>4. After(calls) = [i \in 0 .. Len(calls) |->
                          IF i = 0 THEN [conn |-> conn, seen |-> seen]
                          ELSE Callback(After(calls)[i - 1], calls[i])]
    BY <2>3 DEF After
  <2> QED BY <1>1, <1>3, <2>4 DEF IsDelivery
<1> DEFINE T == {n \in 0 .. Len(calls) : ~Collected(g[n])}
<1>5. ASSUME T # {} PROVE FALSE
  <2>1. PICK n \in T : \A m \in T : n <= m
    <3>1. T \in SUBSET Nat
      OBVIOUS
    <3> HIDE DEF T
    <3> QED BY <1>5, <3>1, Least
  <2>2. n # 0
    BY <1>2, <1>4 DEF IsDelivery
  <2>3. Collected(g[n - 1])
    <3>1. n - 1 \in 0 .. Len(calls) /\ n - 1 \notin T
      BY <2>1, <2>2
    <3> QED BY <3>1
  <2>4. g[n] = Callback(g[n - 1], calls[n]) /\ calls[n] \in Call
    BY <1>4, <2>2 DEF IsDelivery
  <2> QED BY <2>3, <2>4, CallbackType
<1>6. Len(calls) \in 0 .. Len(calls)
  OBVIOUS
<1> QED BY <1>3, <1>5, <1>6 DEF Callbacks

-----------------------------------------------------------------------------
(* The connection.                                                             *)

IInv ==
  /\ stream \in Streams
  /\ got \in 0 .. Len(stream.bytes) + 1
  /\ Resting(parser)
  /\ IsConn(conn)
  /\ open \in BOOLEAN /\ cut \in BOOLEAN
  /\ connections \in 1 .. Connections

LEMMA NewParserInv == Resting(NewParser)
<1>1. PICK s : s =
        [state |-> "s_dead", header_state |-> "h_general", flags |-> {},
         content_length |-> 0, nread |-> 0, http_major |-> 0, http_minor |-> 0,
         status_code |-> 0, upgrade |-> FALSE, http_errno |-> "HPE_OK",
         marked |-> {}, text |-> [m \in Marks |-> <<>>], run |-> 0, calls |-> <<>>,
         failed |-> FALSE, stopped |-> FALSE, taken |-> 0]
  OBVIOUS
<1>2. DOMAIN s = Fields
  BY <1>1 DEF Fields
<1>3. s.text \in [Marks -> Seq(Char)]
  <2>1. << >> \in Seq(Char)
    OBVIOUS
  <2>2. s.text = [m \in Marks |-> <<>>]
    BY <1>1
  <2> QED BY <2>1, <2>2
<1>4. s.calls \in Seq(Call)
  <2>1. << >> \in Seq(Call)
    OBVIOUS
  <2> QED BY <1>1, <2>1
<1>5. s.run = 0 /\ s.taken = 0 /\ s.marked = {} /\ s.failed = FALSE /\ s.stopped = FALSE
  BY <1>1
<1>6. PICK t : t = NewParser
  OBVIOUS
<1>7. t = http_parser_init(s)
  BY <1>1, <1>6 DEF NewParser
<1>8. DOMAIN t = Fields /\ t.state = "s_start_res" /\ t.content_length = 0 /\ t.nread = 0
  BY <1>2, <1>7 DEF http_parser_init, Fields
<1>9. t.http_major = 0 /\ t.http_minor = 0 /\ t.status_code = 0
  BY <1>2, <1>7 DEF http_parser_init, Fields
<1>10. /\ t.text = s.text /\ t.calls = s.calls /\ t.run = s.run /\ t.taken = s.taken
       /\ t.marked = s.marked /\ t.failed = s.failed /\ t.stopped = s.stopped
  BY <1>2, <1>7 DEF http_parser_init, Fields
<1>11. Plain(t)
  <2>1. /\ t.content_length \in 0 .. ULLONG_MAX /\ t.nread \in Nat
        /\ t.http_major \in Nat /\ t.http_minor \in Nat /\ t.status_code \in Nat
    BY <1>8, <1>9, ParserAssumption
  <2>2. /\ t.run \in Nat /\ t.taken \in Nat /\ t.calls \in Seq(Call)
        /\ t.text \in [Marks -> Seq(Char)]
    BY <1>3, <1>4, <1>5, <1>10
  <2>3. t.stopped \in BOOLEAN /\ ~t.stopped /\ t.failed = FALSE /\ t.marked = {}
    BY <1>5, <1>10
  <2>4. Parser(t)
    BY <1>8, <2>1, <2>2, <2>3 DEF Parser
  <2> QED BY <1>8, <2>3, <2>4 DEF Plain, HeadStates, States, ChunkStates
<1> QED BY <1>5, <1>6, <1>10, <1>11, PlainInv DEF Resting

LEMMA AtRestInv ==
  ASSUME NEW p, Resting(p)
  PROVE  Resting(AtRest(p))
<1>1. PICK t : t = AtRest(p)
  OBVIOUS
<1>2. DOMAIN p = Fields
  BY DEF Resting, ParserInv, Parser
<1>3. /\ DOMAIN t = Fields /\ t.calls = <<>> /\ t.run = 0 /\ t.taken = 0
      /\ t.stopped = FALSE
  BY <1>1, <1>2 DEF AtRest, Fields
<1>4. /\ t.state = p.state /\ t.flags = p.flags /\ t.nread = p.nread
      /\ t.content_length = p.content_length /\ t.http_errno = p.http_errno
      /\ t.marked = p.marked
  BY <1>1, <1>2 DEF AtRest, Fields
<1>5. /\ t.http_major = p.http_major /\ t.http_minor = p.http_minor
      /\ t.status_code = p.status_code /\ t.text = p.text /\ t.failed = p.failed
  BY <1>1, <1>2 DEF AtRest, Fields
<1>6. << >> \in Seq(Call)
  OBVIOUS
<1>7. Parser(p)
  BY DEF Resting, ParserInv
<1>8. Parser(t)
  <2>1. /\ t.content_length \in 0 .. ULLONG_MAX /\ t.nread \in Nat
        /\ t.http_major \in Nat /\ t.http_minor \in Nat /\ t.status_code \in Nat
        /\ t.text \in [Marks -> Seq(Char)] /\ t.failed = FALSE
        /\ t.marked \subseteq Marks
    BY <1>4, <1>5, <1>7 DEF Parser
  <2>2. t.run \in Nat /\ t.taken \in Nat /\ t.calls \in Seq(Call)
    BY <1>3, <1>6
  <2>3. t.stopped \in BOOLEAN /\ ~t.stopped
    BY <1>3
  <2> QED BY <1>3, <2>1, <2>2, <2>3 DEF Parser
<1> QED BY <1>1, <1>3, <1>4, <1>8 DEF Resting, ParserInv, Length_

LEMMA ReadableInv ==
  ASSUME IInv, NEW data \in Seq(Char), socket_readable(data),
         got' \in 0 .. Len(stream.bytes) + 1
  PROVE  IInv'
<1>1. PICK p : p = http_parser_execute(parser, data)
  OBVIOUS
<1>2. Resting(p)
  BY <1>1, ExecuteInv DEF IInv, Resting
<1>3. p.calls \in Seq(Call)
  BY <1>2 DEF Resting, ParserInv, Parser
<1>4. Collected(Callbacks(p.calls))
  BY <1>3, CallbacksType DEF IInv
<1>5. conn' = Callbacks(p.calls).conn /\ parser' = AtRest(p)
  BY <1>1 DEF socket_readable
<1>6. Resting(parser') /\ IsConn(conn')
  BY <1>2, <1>4, <1>5, AtRestInv DEF Collected
<1>7. open' = ~Closes(p, Len(data)) /\ UNCHANGED <<stream, connections, cut>>
  BY <1>1 DEF socket_readable
<1> QED BY <1>6, <1>7 DEF IInv, Resting, ParserInv, Parser, IsConn, IsBuffer, Length_

LEMMA BytesType ==
  ASSUME NEW s \in Streams
  PROVE  s.bytes \in Seq(Char) /\ Len(s.bytes) \in Nat
<1>1. s.bytes \in Seq(STRING)
  <2>1. s \in Stream
    BY ResponseAssumption
  <2> QED BY <2>1 DEF Stream
<1>2. ASSUME NEW i \in 1 .. Len(s.bytes) PROVE s.bytes[i] \in Char
  <2>1. s.bytes[i] \in STRING
    BY <1>1
  <2> QED BY <2>1 DEF Char
<1> QED BY <1>1, <1>2

LEMMA InitInv == Init => IInv
<1> SUFFICES ASSUME Init PROVE IInv
  OBVIOUS
<1>1. stream \in Streams /\ got = 0 /\ parser = NewParser /\ open = TRUE
  BY DEF Init
<1>2. connections = 1 /\ cut = FALSE
  BY DEF Init
<1>3. conn = [state |-> "FIELD", headers |-> Buffer, body |-> Buffer]
  BY DEF Init
<1>4. IsBuffer(Buffer)
  <2>1. << >> \in Seq(Char) /\ Len(<< >>) = 0
    OBVIOUS
  <2> QED BY <2>1 DEF Buffer, IsBuffer
<1>5. IsConn(conn)
  BY <1>3, <1>4 DEF IsConn
<1>6. got \in 0 .. Len(stream.bytes) + 1
  BY <1>1, BytesType
<1>7. connections \in 1 .. Connections
  BY <1>2, ResponseAssumption
<1> QED BY <1>1, <1>2, <1>5, <1>6, <1>7, NewParserInv DEF IInv

LEMMA StepInv == IInv /\ [Next]_vars => IInv'
<1> SUFFICES ASSUME IInv, [Next]_vars PROVE IInv'
  OBVIOUS
<1>1. stream.bytes \in Seq(Char) /\ Len(stream.bytes) \in Nat
  BY BytesType DEF IInv
<1>2. ASSUME NEW n \in 1 .. Len(stream.bytes), Read(n) PROVE IInv'
  <2>1. PICK data : data = SubSeq(stream.bytes, got + 1, got + n)
    OBVIOUS
  <2>2. got \in Nat /\ got + n <= Len(stream.bytes) /\ got' = got + n
    BY <1>1, <1>2 DEF Read, IInv
  <2>3. data \in Seq(Char)
    BY <1>1, <2>1, <2>2
  <2>4. got' \in 0 .. Len(stream.bytes) + 1
    BY <1>1, <2>2
  <2>5. socket_readable(data)
    BY <1>2, <2>1 DEF Read
  <2> QED BY <2>3, <2>4, <2>5, ReadableInv
<1>3. CASE EndOfFile
  <2>1. << >> \in Seq(Char)
    OBVIOUS
  <2>2. got' \in 0 .. Len(stream.bytes) + 1
    BY <1>1, <1>3 DEF EndOfFile
  <2> QED BY <1>3, <2>1, <2>2, ReadableInv DEF EndOfFile
<1>4. CASE Lose
  BY <1>4 DEF Lose, IInv, Resting, ParserInv, Parser, IsConn, IsBuffer, Length_
<1>5. CASE socket_connected
  <2>1. stream' \in Streams /\ got' = 0 /\ parser' = NewParser /\ conn' = conn
    BY <1>5, ResponseAssumption DEF socket_connected
  <2>2. open' \in BOOLEAN /\ cut' \in BOOLEAN
    <3>1. InReply \in BOOLEAN
      BY DEF InReply
    <3> QED BY <1>5, <3>1 DEF socket_connected, IInv
  <2>3. connections' \in 1 .. Connections
    BY <1>5, ResponseAssumption DEF socket_connected, IInv
  <2>4. got' \in 0 .. Len(stream'.bytes) + 1
    <3>1. PICK s : s = stream'
      OBVIOUS
    <3>2. s \in Streams
      BY <2>1, <3>1
    <3>3. Len(s.bytes) \in Nat
      BY <3>2, BytesType
    <3> QED BY <2>1, <3>1, <3>3
  <2>5. PICK p : p = NewParser
    OBVIOUS
  <2>6. Resting(p) /\ parser' = p
    BY <2>1, <2>5, NewParserInv
  <2>7. Resting(parser') /\ IsConn(conn')
    BY <2>1, <2>6 DEF IInv
  <2> QED BY <2>1, <2>2, <2>3, <2>4, <2>7
          DEF IInv, Resting, ParserInv, Parser, IsConn, IsBuffer, Length_
<1>6. CASE UNCHANGED vars
  BY <1>6 DEF vars, IInv
<1> QED BY <1>2, <1>3, <1>4, <1>5, <1>6 DEF Next

LEMMA Invariance == Spec => []IInv
BY InitInv, StepInv, PTL DEF Spec

\* Whatever the server sends and wherever the reads end, the cursors of the
\* buffers stay in them, the length the parser counts down stays one of 64 bits,
\* and no mark of a parser that goes on points into a read that has ended
\* (http_parser.c:2055-2072, wrk.c:464-516).
THEOREM ResponseTypeCorrect == Spec => []TypeOK
<1>1. IInv => TypeOK
  BY DEF IInv, TypeOK, Resting, ParserInv, Parser, IsConn, IsBuffer
<1> QED BY <1>1, Invariance, PTL

\* For every stream of bytes, cut into reads in every way, and behind every
\* earlier connection, the asserts of http_parser.c hold (1877, 1922, 2005,
\* 2025, 2055).
THEOREM AssertsHold == Spec => []NoAssertFails
<1>1. IInv => NoAssertFails
  BY DEF IInv, NoAssertFails, Resting, ParserInv, Parser
<1> QED BY <1>1, Invariance, PTL
=============================================================================
