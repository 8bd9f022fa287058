--------------------------- MODULE MC_CacheStore ---------------------------
(***************************************************************************)
(* Two resources whose fingerprints collide ("/xyzb" and "0xyzC": the     *)
(* first words differ by one and the tails by 31), two hosts that answer  *)
(* each with a different response.                                        *)
(***************************************************************************)
EXTENDS CacheStore

CONSTANTS t1, t2, h1, h2

MCThreads == {t1, t2}
MCHosts == {h1, h2}

R1 == <<"/", "x", "y", "z", "b">>
R2 == <<"0", "x", "y", "z", "C">>
MCResources == {R1, R2}

MCAscii == ("/" :> 47) @@ ("0" :> 48) @@ ("x" :> 120) @@ ("y" :> 121)
           @@ ("z" :> 122) @@ ("b" :> 98) @@ ("C" :> 67)

\* The queued buffers of each origin's 200 response.
MCChunks(h, r) ==
    IF r = R1 THEN IF h = h1 THEN << <<"a1", "a2">> >> ELSE << <<"b1", "b2">> >>
              ELSE IF h = h1 THEN << <<"c1">>, <<"c2">> >> ELSE << <<"d1", "d2">> >>

ASSUME Fp(R1) = Fp(R2)

MCSymmetry == Permutations(MCThreads)
=============================================================================
