---------------------------- MODULE HostFilter ----------------------------
(***************************************************************************)
(* filter.c: the ban list read_filter_list builds from the filter file at *)
(* startup, and filter_host, the check process_request makes on the Host  *)
(* value.  A character is a one-character string; CR and LF are the       *)
(* strings "CR" and "LF".  ToLower is tolower() on the characters used,   *)
(* and FgetsCap the 102 characters fgets(tempstore, 103, file) reads.     *)
(***************************************************************************)
EXTENDS Naturals, Sequences, SequencesExt

CONSTANTS ToLower, FgetsCap

CR == "CR"
LF == "LF"

\* to_lower_str, and the loop of filter_host that fills lower[].
to_lower_str(s) == [i \in DOMAIN s |-> ToLower[s[i]]]

\* The characters one fgets call takes: through the first LF, at most
\* FgetsCap of them.
FgetsLen(f) ==
    LET i == SelectInSeq(f, LAMBDA c : c = LF)
    IN  IF i = 0 \/ i > FgetsCap THEN Min({Len(f), FgetsCap}) ELSE i

\* Mutant: the entry is stored without to_lower_str.
EntryKeepsCase(p) ==
    LET n   == Len(p)
        cut == IF n >= 2 /\ p[n - 1] = CR THEN n - 2
               ELSE IF p[n] = LF THEN n - 1 ELSE n
    IN  SubSeq(p, 1, cut)

\* One ban word: a 0 over a final LF, then a 0 over the character before
\* the last one read if it is CR, and to_lower_str.  The string ends at the
\* first 0.  For a one-character read the CR test reads tempstore[-1]; a
\* write there does not change the string.
Entry(p) ==
    LET n   == Len(p)
        cut == IF n >= 2 /\ p[n - 1] = CR THEN n - 2
               ELSE IF p[n] = LF THEN n - 1 ELSE n
    IN  to_lower_str(SubSeq(p, 1, cut))

\* read_filter_list: one entry per fgets call until end of file.
RECURSIVE read_filter_list(_)
read_filter_list(f) ==
    IF f = << >> THEN << >>
    ELSE << Entry(SubSeq(f, 1, FgetsLen(f))) >>
         \o read_filter_list(SubSeq(f, FgetsLen(f) + 1, Len(f)))

\* filter_host: -1 if some entry occurs in the lowered host (strstr).
filter_host(banlist, host) ==
    IF \E z \in 1..Len(banlist) : banlist[z] \in SubSeqs(to_lower_str(host))
    THEN -1 ELSE 0

-----------------------------------------------------------------------------
(* The file as spec 6 and 4.4 read it: one banned substring per line,     *)
(* lines ended by LF or CRLF, matched case-insensitively.                 *)

RECURSIVE FileLines(_)
FileLines(f) ==
    IF f = << >> THEN {}
    ELSE LET i    == SelectInSeq(f, LAMBDA c : c = LF)
             line == IF i = 0 THEN f
                     ELSE IF i > 1 /\ f[i - 1] = CR THEN SubSeq(f, 1, i - 2)
                     ELSE SubSeq(f, 1, i - 1)
             rest == IF i = 0 THEN << >> ELSE SubSeq(f, i + 1, Len(f))
         IN  {line} \cup FileLines(rest)

Banned(f, host) ==
    \E l \in FileLines(f) : to_lower_str(l) \in SubSeqs(to_lower_str(host))

=============================================================================
