------------------------------- MODULE Loops -------------------------------
(***************************************************************************)
(* The loop that collects, as the program writes it in several places.     *)
(***************************************************************************)
EXTENDS Integers, Sequences, SequencesExt, FiniteSetsExt

\* The elements of s that are in T, in order: out = append(out, m) under an if.
Filter(s, T) ==
    LET out[k \in 0 .. Len(s)] ==
            IF k = 0 THEN << >>
            ELSE IF s[k] \in T THEN Append(out[k - 1], s[k]) ELSE out[k - 1]
    IN  out[Len(s)]
=============================================================================
