------------------------------ MODULE MC_Proxy ------------------------------
EXTENDS Proxy

CONSTANTS t1, t2, c1, c2, c3

MCThreads == {t1, t2}
MCClients == {c1, c2, c3}

\* Hosts: one a filter file bans, one with an explicit port, one plain.
HostBanned == <<"a", "B", "x">>
HostPort   == <<"x", ":", "8">>
HostPlain  == <<"a">>

MCRequests ==
    {[kind |-> "NO_HOST", host |-> << >>, res |-> "r1"],
     [kind |-> "IS_NOT_GET", host |-> << >>, res |-> "r1"]}
    \cup [kind : {"ok"}, host : {HostBanned, HostPlain}, res : {"r1"}]
    \cup [kind : {"ok"}, host : {HostPort}, res : {"r1", "r2"}]

\* "Bx" with CRLF; "xa" and an unterminated "a"; "aBx" with CRLF, which
\* fgets reads as "aBx<CR>" and "<LF>".
MCFilterFiles ==
    { <<"B", "x", "CR", "LF">>,
      <<"x", "a", "LF", "a">>,
      <<"a", "B", "x", "CR", "LF">> }

MCToLower == [c \in {"a", "B", "b", "x", ":", "8", "CR", "LF"} |->
                IF c = "B" THEN "b" ELSE c]

\* r1 and r2 have the same fingerprint.
MCKey(r) == "k"

MCSymmetry == Permutations(MCThreads)
=============================================================================
