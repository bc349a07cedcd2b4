------------------------------- MODULE Llhttp -------------------------------
(***************************************************************************)
(* The HTTP parser of corelib/llhttp, in the loose mode the build selects   *)
(* and for the only type the program asks for, HTTP_REQUEST.                *)
(*                                                                         *)
(* A parser is a record: the state to resume in (cur), the word being       *)
(* matched and how much of it (word, idx: llparse's _index), the flags, the  *)
(* kind of header (hs), content_length (len), the open span (cb, text), the   *)
(* lasting error, and the user data (d) its callbacks change.               *)
(*                                                                         *)
(* The input is a sequence of bytes by class.  A byte that decides           *)
(* something alone is <<c, 0>>; a digit is <<"digit", n>>; a word that the    *)
(* code compares with a table (a method, a header's name, a coding) arrives  *)
(* as <<w, 1>>, <<w, 2>>, <<w, 3>>, so that a read can end inside it.         *)
(* The callbacks are the settings the user gives, as constant operators.     *)
(* The span callbacks of this program always return 0, and nobody sets the   *)
(* lenient flags: neither error path is here.                               *)
(***************************************************************************)
EXTENDS Naturals, Sequences, SequencesExt

CONSTANTS MaxU64,
          OnUrl(_, _), OnHeaderField(_, _), OnHeaderValue(_, _), OnBody(_, _),
          OnHeadersComplete(_, _), OnMessageComplete(_), OnChunkHeader(_), OnChunkComplete(_)

CR    == <<"CR", 0>>
LF    == <<"LF", 0>>
SP    == <<" ", 0>>
TAB   == <<"TAB", 0>>
COLON == <<":", 0>>
COMMA == <<",", 0>>
SEMI  == <<";", 0>>
SLASH == <<"/", 0>>
QUERY == <<"?", 0>>
HASH  == <<"#", 0>>
AT    == <<"@", 0>>
DOT   == <<".", 0>>
STAR  == <<"*", 0>>
CTL   == <<"CTL", 0>>
Ends  == {CR, LF}
Blank == {SP, TAB}
IsDigit(c) == c[1] = "digit" /\ c[2] < 10
IsHex(c)   == c[1] = "digit" /\ c[2] < 16

\* Header names, ignoring case, are compared in lower case.
Lower(w) == CASE w = "Upgrade" -> "upgrade" [] w = "Connection" -> "connection" [] OTHER -> w
-----------------------------------------------------------------------------
llhttp_init(d) ==
    [cur |-> "start", word |-> "", idx |-> 0, error |-> "OK", flags |-> {}, hs |-> 0, len |-> 0,
     method |-> "", major |-> 0, minor |-> 0, upgrade |-> FALSE, cb |-> "none", text |-> <<>>,
     eat |-> FALSE, d |-> d]

To(s, n)     == [s EXCEPT !.cur = n]
Eat(s, c, n) == [s EXCEPT !.cur = n, !.eat = TRUE, !.text = IF s.cb = "none" THEN @ ELSE Append(@, c)]
Fail(s, e)   == [s EXCEPT !.cur = "error", !.error = e]

SpanStart(s, cb, n) == [s EXCEPT !.cb = cb, !.text = <<>>, !.cur = n]

\* What the callback of the open span makes of the bytes collected.
SpanCallback(s) ==
    CASE s.cb = "url"   -> OnUrl(s.d, s.text)
      [] s.cb = "field" -> OnHeaderField(s.d, s.text)
      [] s.cb = "value" -> OnHeaderValue(s.d, s.text)
      [] s.cb = "body"  -> OnBody(s.d, s.text)

SpanEnd(s, n) == [s EXCEPT !.d = SpanCallback(s), !.cb = "none", !.text = <<>>, !.cur = n]

\* A word, part by part: done when its last part came, elsewhere when a byte differs.
llparse__match_sequence(s, c, done, miss) ==
    IF <<Lower(c[1]), c[2]>> # <<s.word, s.idx + 1>> THEN [miss EXCEPT !.idx = 0]
    ELSE IF c[2] < 3 THEN [Eat(s, c, s.cur) EXCEPT !.idx = c[2]]
    ELSE [Eat(done, c, done.cur) EXCEPT !.idx = 0]

\* content_length * base + digit, and whether that fits an unsigned of 64 bits.
MulAddOverflows(n, base, digit) == n > MaxU64 \div base \/ n * base > MaxU64 - digit
-----------------------------------------------------------------------------
(***************************************************************************)
(* The request line.                                                        *)
(***************************************************************************)
MethodsAB == {"ACL", "ANNOUNCE", "BIND"}
MethodsC  == {"CHECKOUT", "CONNECT", "COPY"}
MethodsDF == {"DELETE", "DESCRIBE", "FLUSH"}
MethodsGH == {"GET", "GET_PARAMETER", "HEAD"}
MethodsL  == {"LINK", "LOCK"}
MethodsMK == {"MKACTIVITY", "MKCALENDAR", "MKCOL"}
MethodsM  == {"M-SEARCH", "MERGE", "MOVE"}
MethodsNO == {"NOTIFY", "OPTIONS"}
MethodsPA == {"PATCH", "PAUSE", "PLAY"}
MethodsPO == {"POST", "PRI", "PROPFIND", "PROPPATCH"}
MethodsPU == {"PURGE", "PUT"}
MethodsR  == {"REBIND", "RECORD", "REDIRECT", "REPORT"}
MethodsSE == {"SEARCH", "SETUP", "SET_PARAMETER"}
MethodsSO == {"SOURCE", "SUBSCRIBE"}
MethodsT  == {"TEARDOWN", "TRACE"}
MethodsU  == {"UNBIND", "UNLINK", "UNLOCK", "UNSUBSCRIBE"}
Methods   == UNION {MethodsAB, MethodsC, MethodsDF, MethodsGH, MethodsL, MethodsMK, MethodsM,
                    MethodsNO, MethodsPA, MethodsPO, MethodsPU, MethodsR, MethodsSE, MethodsSO, MethodsT, MethodsU}

\* The methods that RTSP knows; those only RTSP knows are refused with HTTP.
RtspMethods == {"DESCRIBE", "ANNOUNCE", "SETUP", "PLAY", "PAUSE", "TEARDOWN", "GET_PARAMETER",
                "SET_PARAMETER", "REDIRECT", "RECORD", "FLUSH", "GET", "POST", "OPTIONS"}
HttpMethods == Methods \ (RtspMethods \ {"GET", "POST", "OPTIONS"})

Start(s, c) == IF c \in Ends THEN Eat(s, c, "start") ELSE To(s, "start_req")

StartReq(s, c) ==
    IF c[2] = 1 /\ c[1] \in Methods
    THEN [Eat(s, c, "start_req_word") EXCEPT !.word = c[1], !.idx = 1]
    ELSE Fail(s, "INVALID_METHOD")

StartReqWord(s, c) ==
    llparse__match_sequence(s, c, [s EXCEPT !.method = s.word, !.cur = "req_first_space_before_url"],
                            Fail(s, "INVALID_METHOD"))

\* At least one blank, then any number; CONNECT names a server and not a resource.
ReqSpacesBeforeUrl(s, c) ==
    IF c = SP THEN Eat(s, c, "req_spaces_before_url")
    ELSE IF s.cur = "req_first_space_before_url" THEN Fail(s, "INVALID_METHOD")
    ELSE SpanStart(s, "url", IF s.method = "CONNECT" THEN "url_server" ELSE "url_start")

\* A line without a version is one of HTTP/0.9.
Http09(s) == [s EXCEPT !.major = 0, !.minor = 9, !.idx = 0, !.cur = "header_field_start"]

\* The end of the URL: a version follows, or the end of the line.
UrlEnd(s, c) ==
    CASE c = SP -> Eat(SpanEnd(s, s.cur), c, "req_http_start")
      [] c = CR -> SpanEnd(s, "url_skip_lf_to_http09")
      [] c = LF -> Http09(Eat(SpanEnd(s, s.cur), c, s.cur))

UrlSkipLf(s, c) ==
    CASE c = CR /\ s.idx = 0 -> [Eat(s, c, s.cur) EXCEPT !.idx = 1]
      [] c = LF /\ s.idx = 1 -> Http09(Eat(s, c, s.cur))
      [] OTHER               -> Fail(s, "INVALID_URL")

UrlStart(s, c) ==
    CASE c \in {SLASH, STAR} -> Eat(s, c, "url_path")
      [] c = <<"a", 0>>      -> To(s, "url_schema")
      [] OTHER               -> Fail(s, "INVALID_URL")

\* schema ':' '/' '/' server
UrlSchema(s, c) ==
    CASE s.cur = "url_schema" /\ c = <<"a", 0>>       -> Eat(s, c, "url_schema")
      [] s.cur = "url_schema" /\ c = COLON            -> Eat(s, c, "url_schema_delim")
      [] s.cur = "url_schema_delim" /\ c = SLASH      -> Eat(s, c, "url_schema_delim_1")
      [] s.cur = "url_schema_delim_1" /\ c = SLASH    -> Eat(s, c, "url_server")
      [] OTHER                                       -> Fail(s, "INVALID_URL")

\* The ends of a server's name, with or without a user before it.
ServerEnd(s, c) == UrlEnd(s, c)

UrlServer(s, c) ==
    CASE c \in Ends \cup {SP}                        -> ServerEnd(s, c)
      [] c = SLASH                                   -> Eat(s, c, "url_path")
      [] c = QUERY                                   -> Eat(s, c, "url_query")
      [] c = AT /\ s.cur = "url_server"              -> Eat(s, c, "url_server_with_at")
      [] c \in {AT, HASH, TAB, CTL}                   -> Fail(s, "INVALID_URL")
      [] OTHER                                       -> Eat(s, c, "url_server")

UrlPath(s, c) ==
    CASE c \in Ends \cup {SP} -> UrlEnd(s, c)
      [] c = QUERY            -> Eat(s, c, "url_query")
      [] c = HASH             -> Eat(s, c, "url_fragment")
      [] c = CTL              -> Fail(s, "INVALID_URL")
      [] OTHER                -> Eat(s, c, "url_path")

UrlQuery(s, c) ==
    CASE c \in Ends \cup {SP} -> UrlEnd(s, c)
      [] c = HASH             -> Eat(s, c, "url_fragment")
      [] c = CTL              -> Fail(s, "INVALID_URL")
      [] OTHER                -> Eat(s, c, "url_query")

UrlFragment(s, c) ==
    CASE c \in Ends \cup {SP} -> UrlEnd(s, c)
      [] c = CTL              -> Fail(s, "INVALID_URL")
      [] OTHER                -> Eat(s, c, "url_fragment")

\* The protocol's name decides which methods go with it.
ReqHttpStart(s, c) ==
    CASE c = SP -> Eat(s, c, "req_http_start")
      [] c[2] = 1 /\ c[1] \in {"HTTP/", "ICE/", "RTSP/"}
            -> [Eat(s, c, "req_http_word") EXCEPT !.word = c[1], !.idx = 1]
      [] OTHER -> Fail(s, "INVALID_CONSTANT")

SourceMethods == {"SOURCE"}

ReqHttpWord(s, c) ==
    LET allowed == CASE s.word = "HTTP/" -> HttpMethods
                     [] s.word = "ICE/"  -> SourceMethods
                     [] s.word = "RTSP/" -> RtspMethods
        known   == To(s, "req_http_major")
    IN  llparse__match_sequence(s, c, IF s.method \in allowed THEN known ELSE Fail(s, "INVALID_CONSTANT"),
                                Fail(s, "INVALID_CONSTANT"))

\* The preface of HTTP/2 goes with PRI, the end of the line with the other methods.
MinorStored(s, n) ==
    [s EXCEPT !.minor = n, !.word = "preface",
              !.cur = IF s.method = "PRI" THEN "req_pri_upgrade" ELSE "req_http_complete"]

\* major '.' minor
ReqHttpVersion(s, c) ==
    CASE s.cur = "req_http_major" /\ IsDigit(c) -> [Eat(s, c, "req_http_dot") EXCEPT !.major = c[2]]
      [] s.cur = "req_http_dot" /\ c = DOT      -> Eat(s, c, "req_http_minor")
      [] s.cur = "req_http_minor" /\ IsDigit(c) -> MinorStored(Eat(s, c, s.cur), c[2])
      [] OTHER                                  -> Fail(s, "INVALID_VERSION")

ReqHttpComplete(s, c) ==
    CASE s.cur = "req_http_complete" /\ c = CR -> Eat(s, c, "req_http_complete_1")
      [] c = LF                                -> Eat(s, c, "header_field_start")
      [] OTHER                                 -> Fail(s, "INVALID_VERSION")

ReqPriUpgrade(s, c) ==
    llparse__match_sequence(s, c, Fail(s, "PAUSED_H2_UPGRADE"), Fail(s, "INVALID_VERSION"))
-----------------------------------------------------------------------------
(***************************************************************************)
(* The headers.  hs says what the header's name made of it: 1 connection,    *)
(* 2 content-length, 3 transfer-encoding, 4 upgrade; and, after its value,    *)
(* 5 keep-alive, 6 close, 7 upgrade among connection's tokens, 8 chunked.     *)
(***************************************************************************)
HeaderState == ("connection" :> 1) @@ ("proxy-connection" :> 1) @@ ("content-length" :> 2)
               @@ ("transfer-encoding" :> 3) @@ ("upgrade" :> 4)
ConnectionState == ("keep-alive" :> 5) @@ ("close" :> 6) @@ ("upgrade" :> 7)

HeaderFieldStart(s, c) ==
    CASE c = LF -> To(s, "headers_almost_done")
      [] c = CR -> Eat(s, c, "headers_almost_done")
      [] OTHER  -> SpanStart(s, "field", "header_field")

HeaderField(s, c) ==
    IF c[2] = 1 /\ Lower(c[1]) \in DOMAIN HeaderState
    THEN [Eat(s, c, "header_field_word") EXCEPT !.word = Lower(c[1]), !.idx = 1]
    ELSE [s EXCEPT !.hs = 0, !.cur = "header_field_general"]

HeaderFieldWord(s, c) ==
    llparse__match_sequence(s, c, [s EXCEPT !.hs = HeaderState[s.word], !.cur = "header_field_colon"],
                            [s EXCEPT !.hs = 0, !.cur = "header_field_general"])

FieldEnd(s, c) == Eat(SpanEnd(s, s.cur), c, "header_value_discard_ws")

\* A blank before the colon is refused, once the callback has had the name.
FieldBlank(s) == Fail(SpanEnd(s, s.cur), "INVALID_HEADER_TOKEN")

HeaderFieldColon(s, c) ==
    CASE c = SP    -> FieldBlank(s)
      [] c = COLON -> FieldEnd(s, c)
      [] OTHER     -> [s EXCEPT !.hs = 0, !.cur = "header_field_general"]

HeaderFieldGeneral(s, c) ==
    CASE c = COLON -> FieldEnd(s, c)
      [] c \in Ends \cup {TAB, CTL, COMMA, SEMI, SLASH, QUERY, AT} -> Fail(s, "INVALID_HEADER_TOKEN")
      [] OTHER     -> Eat(s, c, "header_field_general")

\* The flag that a value's last token stands for.
FlagOfState(s) ==
    CASE s.hs = 5 -> [s EXCEPT !.flags = @ \cup {"CONNECTION_KEEP_ALIVE"}, !.hs = 1]
      [] s.hs = 6 -> [s EXCEPT !.flags = @ \cup {"CONNECTION_CLOSE"}, !.hs = 1]
      [] s.hs = 7 -> [s EXCEPT !.flags = @ \cup {"CONNECTION_UPGRADE"}, !.hs = 1]
      [] s.hs = 8 -> [s EXCEPT !.flags = @ \cup {"CHUNKED"}]
      [] OTHER    -> s

\* How the value is read follows from the name.
ValueStart(s) ==
    LET v == SpanStart(s, "value", s.cur)
    IN  CASE s.hs = 1 -> To(v, "header_value_connection")
          [] s.hs = 2 /\ "CONTENT_LENGTH" \notin s.flags -> To(v, "header_value_content_length")
          [] s.hs = 2 -> Fail(v, "UNEXPECTED_CONTENT_LENGTH")
          [] s.hs = 3 -> [v EXCEPT !.flags = (@ \cup {"TRANSFER_ENCODING"}) \ {"CHUNKED"},
                                   !.word = "chunked", !.cur = "header_value_te_chunked"]
          [] s.hs = 4 -> [v EXCEPT !.flags = @ \cup {"UPGRADE"}, !.hs = 0, !.cur = "header_value"]
          [] OTHER    -> To(v, "header_value")

HeaderValueDiscardWs(s, c) ==
    CASE c \in Blank -> Eat(s, c, "header_value_discard_ws")
      [] c = LF      -> Eat(s, c, "header_value_discard_lws")
      [] c = CR      -> Eat(s, c, "header_value_discard_ws_almost_done")
      [] OTHER       -> ValueStart(s)

\* A line ended before the value began: it goes on, or the value is empty.
HeaderValueDiscardLws(s, c) ==
    CASE s.cur = "header_value_discard_ws_almost_done" -> Eat(s, c, "header_value_discard_lws")
      [] s.cur # "header_value_discard_ws_almost_done" /\ c \in Blank
                -> Eat(s, c, "header_value_discard_ws")
      [] OTHER  -> IF s.hs = 2 THEN Fail(s, "INVALID_CONTENT_LENGTH")
                   ELSE SpanEnd(SpanStart(FlagOfState(s), "value", s.cur), "header_field_start")

\* A line ended after the value: it goes on, or the next header starts.
HeaderValueLws(s, c) ==
    CASE s.cur = "header_value_almost_done" ->
            IF c = LF THEN Eat(s, c, "header_value_lws") ELSE Fail(s, "LF_EXPECTED")
      [] s.cur = "header_value_lws" ->
            IF c \in Blank THEN ValueStart(s) ELSE To(FlagOfState(s), "header_field_start")

ValueEnd(s, c) ==
    IF c = LF THEN SpanEnd(s, "header_value_almost_done")
    ELSE Eat(SpanEnd(s, s.cur), c, "header_value_almost_done")

HeaderValueOtherwise(s, c) ==
    IF c \in Ends THEN ValueEnd(s, c) ELSE Fail(s, "INVALID_HEADER_TOKEN")

HeaderValue(s, c) ==
    IF c \in Ends \cup {CTL} THEN HeaderValueOtherwise(s, c) ELSE Eat(s, c, "header_value")

HeaderValueConnection(s, c) ==
    CASE c \in Blank -> Eat(s, c, "header_value_connection")
      [] c[2] = 1 /\ Lower(c[1]) \in DOMAIN ConnectionState ->
            [Eat(s, c, "header_value_connection_word") EXCEPT !.word = Lower(c[1]), !.idx = 1]
      [] OTHER       -> To(s, "header_value_connection_token")

HeaderValueConnectionWord(s, c) ==
    llparse__match_sequence(s, c,
        [s EXCEPT !.hs = ConnectionState[s.word], !.cur = "header_value_connection_ws"],
        To(s, "header_value_connection_token"))

\* Another token follows: the one before has its flag.
NextConnection(s, c) == Eat(FlagOfState(s), c, "header_value_connection")

HeaderValueConnectionWs(s, c) ==
    CASE c \in Ends -> HeaderValueOtherwise(s, c)
      [] c = SP     -> Eat(s, c, s.cur)
      [] c = COMMA  -> NextConnection(s, c)
      [] OTHER      -> [s EXCEPT !.hs = 0, !.cur = "header_value_connection_token"]

HeaderValueConnectionToken(s, c) ==
    CASE c = COMMA             -> Eat(s, c, "header_value_connection")
      [] c \in Ends \cup {CTL} -> HeaderValueOtherwise(s, c)
      [] OTHER                 -> Eat(s, c, s.cur)

LengthDigit(s, c) ==
    IF MulAddOverflows(s.len, 10, c[2]) THEN Fail(SpanEnd(s, s.cur), "INVALID_CONTENT_LENGTH")
    ELSE [Eat(s, c, s.cur) EXCEPT !.len = @ * 10 + c[2]]

HeaderValueContentLength(s, c) ==
    CASE IsDigit(c) /\ s.cur = "header_value_content_length" -> LengthDigit(s, c)
      [] c \in Ends -> HeaderValueOtherwise([s EXCEPT !.flags = @ \cup {"CONTENT_LENGTH"}], c)
      [] c = SP     -> Eat(s, c, "header_value_content_length_ws")
      [] OTHER      -> Fail(SpanEnd(s, s.cur), "INVALID_CONTENT_LENGTH")

\* chunked counts when it is the last coding.
HeaderValueTeChunked(s, c) ==
    llparse__match_sequence(s, c, To(s, "header_value_te_chunked_last"), To(s, "header_value_te_token"))

HeaderValueTeChunkedLast(s, c) ==
    CASE c \in Ends -> HeaderValueOtherwise([s EXCEPT !.hs = 8], c)
      [] c = SP     -> Eat(s, c, s.cur)
      [] OTHER      -> To(s, "header_value_te_chunked")

HeaderValueTeToken(s, c) ==
    CASE s.cur = "header_value_te_token_ows" ->
            IF c \in Blank THEN Eat(s, c, s.cur) ELSE To(s, "header_value_te_chunked")
      [] c = COMMA             -> Eat(s, c, "header_value_te_token_ows")
      [] c \in Ends \cup {CTL} -> [s EXCEPT !.hs = 0, !.cur = "header_value"]
      [] OTHER                 -> Eat(s, c, s.cur)
-----------------------------------------------------------------------------
(***************************************************************************)
(* What follows the headers: how the message is delimited, the body, the     *)
(* chunks, the end of the message.                                          *)
(***************************************************************************)
BeforeHeadersComplete(s) ==
    [s EXCEPT !.upgrade = IF {"UPGRADE", "CONNECTION_UPGRADE"} \subseteq s.flags THEN TRUE
                          ELSE s.method = "CONNECT"]

\* A request never ends with the connection: llhttp_message_needs_eof is false for it.
ShouldKeepAlive(s) ==
    IF s.major > 0 /\ s.minor > 0 THEN "CONNECTION_CLOSE" \notin s.flags
    ELSE "CONNECTION_KEEP_ALIVE" \in s.flags

AfterMessageComplete(s) ==
    [s EXCEPT !.cur = IF ShouldKeepAlive(s) THEN "start" ELSE "closed", !.flags = {}]

MessageComplete(s) == [s EXCEPT !.d = OnMessageComplete(s)]
PauseUpgrade(s)    == [s EXCEPT !.error = "PAUSED_UPGRADE", !.cur = "invoke_after_message_complete"]

\* After a body: the message is over, and an upgrade may follow it.
BodyComplete(s) ==
    LET m == MessageComplete(s)
    IN  IF m.upgrade THEN PauseUpgrade(m) ELSE AfterMessageComplete(m)

AfterHeadersComplete(s) ==
    LET hasBody == "CHUNKED" \in s.flags \/ s.len > 0
    IN  CASE s.upgrade /\ (s.method = "CONNECT" \/ "SKIPBODY" \in s.flags \/ ~hasBody)
                -> PauseUpgrade(MessageComplete(s))
          [] OTHER ->
             CASE "SKIPBODY" \in s.flags          -> AfterMessageComplete(MessageComplete(s))
               [] "SKIPBODY" \notin s.flags /\ "CHUNKED" \in s.flags
                                                  -> [s EXCEPT !.len = 0, !.cur = "chunk_size_digit"]
               [] OTHER ->
                  IF "TRANSFER_ENCODING" \in s.flags THEN Fail(s, "INVALID_TRANSFER_ENCODING")
                  ELSE IF "CONTENT_LENGTH" \in s.flags /\ s.len > 0 THEN To(s, "span_start_on_body_1")
                  ELSE AfterMessageComplete(MessageComplete(s))

HeadersAlmostDone(s, c) ==
    LET t == Eat(s, c, s.cur)
        b == BeforeHeadersComplete(t)
        h == OnHeadersComplete(b, ShouldKeepAlive(b))
        r == [b EXCEPT !.d = h.d, !.flags = IF h.ret = 1 THEN @ \cup {"SKIPBODY"} ELSE @]
    IN  CASE "TRAILING" \in t.flags -> BodyComplete([t EXCEPT !.d = OnChunkComplete(t)])
          [] "TRAILING" \notin t.flags /\ {"TRANSFER_ENCODING", "CONTENT_LENGTH"} \subseteq t.flags
                -> Fail(t, "UNEXPECTED_CONTENT_LENGTH")
          [] OTHER -> AfterHeadersComplete(r)

\* The body of content_length bytes; the span opens at its first byte and ends with its last.
Consume(s, c, done(_)) ==
    LET o == IF s.cb = "none" THEN SpanStart(s, "body", s.cur) ELSE s
        t == [Eat(o, c, s.cur) EXCEPT !.len = @ - 1]
    IN  IF t.len > 0 THEN t ELSE done(SpanEnd(t, s.cur))

BodyIdentity(s, c) == Consume(s, c, BodyComplete)

ChunkDataAlmostDone(s) == To(s, "chunk_data_almost_done")
ChunkBody(s, c) == Consume(s, c, ChunkDataAlmostDone)

ChunkComplete(s) == [s EXCEPT !.d = OnChunkComplete(s), !.len = 0, !.cur = "chunk_size_digit"]

\* The two bytes after a chunk are skipped, whatever they are.
ChunkDataEnd(s, c) ==
    IF s.cur = "chunk_data_almost_done" THEN Eat(s, c, "chunk_data_almost_done_skip")
    ELSE ChunkComplete(Eat(s, c, s.cur))

SizeDigit(s, c) ==
    IF MulAddOverflows(s.len, 16, c[2]) THEN Fail(s, "INVALID_CHUNK_SIZE")
    ELSE [Eat(s, c, "chunk_size") EXCEPT !.len = @ * 16 + c[2]]

ChunkSizeDigit(s, c) == IF IsHex(c) THEN SizeDigit(s, c) ELSE Fail(s, "INVALID_CHUNK_SIZE")

ChunkSize(s, c) ==
    CASE IsHex(c)       -> SizeDigit(s, c)
      [] c = CR         -> Eat(s, c, "chunk_size_almost_done")
      [] c \in {SP, SEMI} -> Eat(s, c, "chunk_parameters")
      [] OTHER          -> Fail(s, "INVALID_CHUNK_SIZE")

ChunkParameters(s, c) ==
    CASE c = CR          -> Eat(s, c, "chunk_size_almost_done")
      [] c \in {LF, CTL} -> Fail(s, "STRICT")
      [] OTHER           -> Eat(s, c, s.cur)

ChunkHeader(s) == [s EXCEPT !.d = OnChunkHeader(s)]

\* The last chunk is empty, and trailing headers follow it.
ChunkSizeAlmostDone(s, c) ==
    LET h == ChunkHeader(Eat(s, c, "span_start_on_body"))
    IN  IF h.len > 0 THEN h
        ELSE [h EXCEPT !.flags = @ \cup {"TRAILING"}, !.cur = "header_field_start"]
-----------------------------------------------------------------------------
\* One jump of llhttp__internal__run: the state the parser resumes in decides.
RunRequestLine(s, c) ==
    CASE s.cur = "start"                                 -> Start(s, c)
      [] s.cur = "start_req"                             -> StartReq(s, c)
      [] s.cur = "start_req_word"                        -> StartReqWord(s, c)
      [] s.cur \in {"req_first_space_before_url", "req_spaces_before_url"} -> ReqSpacesBeforeUrl(s, c)
      [] s.cur = "url_start"                             -> UrlStart(s, c)
      [] s.cur \in {"url_schema", "url_schema_delim", "url_schema_delim_1"} -> UrlSchema(s, c)
      [] s.cur \in {"url_server", "url_server_with_at"}  -> UrlServer(s, c)
      [] s.cur = "url_path"                              -> UrlPath(s, c)
      [] s.cur = "url_query"                             -> UrlQuery(s, c)
      [] s.cur = "url_fragment"                          -> UrlFragment(s, c)
      [] s.cur = "url_skip_lf_to_http09"                 -> UrlSkipLf(s, c)
      [] s.cur = "req_http_start"                        -> ReqHttpStart(s, c)
      [] s.cur = "req_http_word"                         -> ReqHttpWord(s, c)
      [] s.cur = "req_pri_upgrade"                       -> ReqPriUpgrade(s, c)
      [] s.cur \in {"req_http_major", "req_http_dot", "req_http_minor"} -> ReqHttpVersion(s, c)
      [] s.cur \in {"req_http_complete", "req_http_complete_1"} -> ReqHttpComplete(s, c)

RunHeader(s, c) ==
    CASE s.cur = "header_field_start"             -> HeaderFieldStart(s, c)
      [] s.cur = "header_field"                   -> HeaderField(s, c)
      [] s.cur = "header_field_word"              -> HeaderFieldWord(s, c)
      [] s.cur = "header_field_colon"             -> HeaderFieldColon(s, c)
      [] s.cur = "header_field_general"           -> HeaderFieldGeneral(s, c)
      [] s.cur = "header_value_discard_ws"        -> HeaderValueDiscardWs(s, c)
      [] s.cur \in {"header_value_discard_ws_almost_done", "header_value_discard_lws"}
                                                  -> HeaderValueDiscardLws(s, c)
      [] s.cur \in {"header_value_almost_done", "header_value_lws"} -> HeaderValueLws(s, c)
      [] s.cur = "header_value"                   -> HeaderValue(s, c)
      [] s.cur = "header_value_connection"        -> HeaderValueConnection(s, c)
      [] s.cur = "header_value_connection_word"   -> HeaderValueConnectionWord(s, c)
      [] s.cur = "header_value_connection_ws"     -> HeaderValueConnectionWs(s, c)
      [] s.cur = "header_value_connection_token"  -> HeaderValueConnectionToken(s, c)
      [] s.cur \in {"header_value_content_length", "header_value_content_length_ws"}
                                                  -> HeaderValueContentLength(s, c)
      [] s.cur = "header_value_te_chunked"        -> HeaderValueTeChunked(s, c)
      [] s.cur = "header_value_te_chunked_last"   -> HeaderValueTeChunkedLast(s, c)
      [] s.cur \in {"header_value_te_token", "header_value_te_token_ows"} -> HeaderValueTeToken(s, c)

HeaderStates == {"header_field_start", "header_field", "header_field_word", "header_field_colon",
    "header_field_general", "header_value_discard_ws", "header_value_discard_ws_almost_done",
    "header_value_discard_lws", "header_value_almost_done", "header_value_lws", "header_value",
    "header_value_connection", "header_value_connection_word", "header_value_connection_ws",
    "header_value_connection_token", "header_value_content_length", "header_value_content_length_ws",
    "header_value_te_chunked", "header_value_te_chunked_last", "header_value_te_token",
    "header_value_te_token_ows"}

Run(s, c) ==
    CASE s.cur \in HeaderStates            -> RunHeader(s, c)
      [] s.cur = "headers_almost_done"     -> HeadersAlmostDone(s, c)
      [] s.cur = "span_start_on_body_1"    -> BodyIdentity(s, c)
      [] s.cur = "span_start_on_body"      -> ChunkBody(s, c)
      [] s.cur \in {"chunk_data_almost_done", "chunk_data_almost_done_skip"} -> ChunkDataEnd(s, c)
      [] s.cur = "chunk_size_digit"        -> ChunkSizeDigit(s, c)
      [] s.cur = "chunk_size"              -> ChunkSize(s, c)
      [] s.cur = "chunk_parameters"        -> ChunkParameters(s, c)
      [] s.cur = "chunk_size_almost_done"  -> ChunkSizeAlmostDone(s, c)
      [] s.cur = "closed"                  -> Eat(s, c, "closed")
      [] OTHER                             -> RunRequestLine(s, c)

RECURSIVE Feed(_, _)
Feed(s, c) == IF s.eat \/ s.error # "OK" THEN s ELSE Feed(Run(s, c), c)

RECURSIVE FeedAll(_, _, _)
FeedAll(s, data, i) ==
    IF s.error # "OK" \/ i > Len(data) THEN s
    ELSE FeedAll(Feed([s EXCEPT !.eat = FALSE], data[i]), data, i + 1)

\* An error lasts; at the end of the data the open span is given what it has so far.
llhttp_execute(s, data) ==
    LET r == FeedAll(s, data, 1)
    IN  IF s.error # "OK" THEN s
        ELSE IF r.error = "OK" /\ r.cb # "none" THEN [r EXCEPT !.d = SpanCallback(r), !.text = <<>>]
        ELSE r
=============================================================================
