----------------------- MODULE MC_ResponsePipeline -----------------------
(***************************************************************************)
(* Instantiation of ResponsePipeline for TLC.  The literals the parser    *)
(* matches are abstracted to short words over the same alphabet: what     *)
(* try_match does with a full, a partial and a failed match is kept, the  *)
(* length of the word is not.  "HTTP/1." is H, "Content-Length:" is C:,   *)
(* "Transfer-Encoding:" is T:, "chunked" is k.                             *)
(***************************************************************************)
EXTENDS ResponsePipeline

MCStatusPrefix == <<"H">>
MCCLName == <<"C", ":">>
MCTEName == <<"T", ":">>
MCChunkedName == <<"k">>

MCChars == {"H", "0", "1", "2", "4", " ", "C", ":", "T", "k", "z", "x", CR, LF}

\* The status line "HTTP/1.1 200 \r\n" and "HTTP/1.1 204 \r\n".
Status200 == <<"H", "1", " ", "2", "0", "0", " ", CR, LF>>
Status204 == <<"H", "1", " ", "2", "0", "4", " ", CR, LF>>

\* Content-Length: 4, after a header that partially matches it.  The body
\* is longer than a window, so advance always crosses a refill.
RespLength == Status200 \o <<"C", "x", CR, LF, "C", ":", "4", CR, LF, CR, LF, "z", "z", "z", "z">>
\* 204 with no body.
RespNoBody == Status204 \o <<CR, LF>>
\* Chunked: one 1-byte chunk, then the zero chunk and the empty line.
RespChunked == Status200 \o <<"T", ":", "k", CR, LF, CR, LF,
                              "1", CR, LF, "z", CR, LF, "0", CR, LF, CR, LF>>
\* No framing header: the body runs to the close.
RespUnframed == Status200 \o <<CR, LF, "z">>
\* Not an HTTP status line.
RespBadStatus == <<"x", CR, LF>>

\* Responses whose framing the code handles: Content-Length and no body.
MCFramedResponses == {RespLength, RespNoBody}
MCAllResponses == {RespLength, RespNoBody, RespChunked, RespUnframed, RespBadStatus}
MCChunkedResponses == {RespChunked}
MCUnframedResponses == {RespUnframed}
=============================================================================
