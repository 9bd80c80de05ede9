----------------------------- MODULE MCImagePaste -----------------------------
(***************************************************************************)
(* ImagePaste for TLC: two pastes, one of more images than one upload      *)
(* takes and one by key, into panes that can show two tabs.                *)
(***************************************************************************)
EXTENDS ImagePaste

CONSTANTS p1, p2, n1, n2, s1, s2

TwoPastes   == {p1, p2}
SecondPaste == {p2}
TwoPanes    == {n1, n2}
TwoSessions == {s1, s2}
ImagesOf    == [p \in Paste |-> IF p = p1 THEN 3 ELSE 1]
=============================================================================
