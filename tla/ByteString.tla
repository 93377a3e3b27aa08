----------------------------- MODULE ByteString -----------------------------
(***************************************************************************)
(* What mybuf.h promises: a string of bytes that operations append to,     *)
(* empty or replace, by a part of itself too.                              *)
(***************************************************************************)
EXTENDS Naturals, Sequences

CONSTANT Strings   \* what callers append

VARIABLE str

StrInit == str = <<>>

StrAppend == \E s \in Strings : str' = str \o s

StrClear == str' = <<>>

StrReplace ==
  \/ str' \in Strings
  \/ \E i, j \in 0 .. Len(str) : str' = SubSeq(str, i + 1, j)

StrNext == StrAppend \/ StrClear \/ StrReplace

Spec == StrInit /\ [][StrNext]_str

=============================================================================
