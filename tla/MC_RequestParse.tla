-------------------------- MODULE MC_RequestParse --------------------------
EXTENDS RequestParse

\* Longer than REQUEST_LENGTH (17 here); its Host line starts at cell 13,
\* past the end of ReqNoHost.
ReqLong == <<GET, "/", SP, "V", CR, LF, "X", "X", "X", "X", CR, LF,
             HOSTW, SP, "h", CR, LF, CR, LF>>
ReqHost == <<GET, "/", "a", SP, "V", CR, LF, HOSTW, SP, "k", CR, LF, CR, LF>>
\* GET without Host, CRLF and bare-LF line ends.
ReqNoHost == <<GET, "/", SP, "V", CR, LF, CR, LF>>
ReqNoHostLF == <<GET, "/", SP, "V", LF, LF>>
\* Not a GET.
ReqPost == <<"POST ", "/", SP, "V", CR, LF, CR, LF>>

MCRequests == {ReqLong, ReqHost, ReqNoHost, ReqNoHostLF, ReqPost}
=============================================================================
