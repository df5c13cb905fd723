---------------------------- MODULE MCUtf8Reader ----------------------------
(* Texts of up to three characters of every width, read byte by byte too.  *)
EXTENDS Utf8Reader, SequencesExt
ValidTexts == {FlattenSeq([i \in DOMAIN t |-> BytesOfRune(t[i])]) :
               t \in UNION {[1 .. n -> 1 .. UTFMax] : n \in 1 .. 3}}
===============================================================================
