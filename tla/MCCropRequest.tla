---------------------------- MODULE MCCropRequest ---------------------------
(***************************************************************************)
(* An instance of the requests to remote storages for TLC.                 *)
(***************************************************************************)
EXTENDS CropRequest, TLC

P(n, v) == [form |-> "pair", name |-> n, value |-> v]
Broken(f) == [form |-> f, name |-> "none", value |-> NoText]

\* Sizes that crop a picture either way, a face, an exposure, a parameter
\* nobody knows, and the three malformed parts.
Parts == {P("w", 2), P("w", 3), P("h", 2), P("crop", Faces), P("exp", -1), P("other", NoText)}
           \cup {Broken(f) : f \in {"bare", "nameless", "empty"}}

\* Two ways to spell the key; a path without key, and one that is too long.
Spellings == [k |-> "k", kk |-> "k"]
Keys == {<<"k">>}
Paths == {<<"b">>, <<"b", "kk">>, <<"b", "k", "k", "k">>}

\* Two uploads; the longer one does not fit the buffer.
Lengths == [u1 |-> 1, u2 |-> 2]
Uploads == DOMAIN Lengths
Files == [k \in Keys |-> {<<"u1", 1>>}]

\* One face anywhere, and a smaller one found before it.
Small == [x |-> 0, y |-> 0, w |-> 1, h |-> 1]
FacesIn(W, H) ==
  LET found == {r \in [x : 0 .. W - 1, y : 0 .. H - 1, w : 1 .. W, h : 1 .. H] : Inside(r, W, H)}
  IN {<<r>> : r \in found} \cup {<<Small, r>> : r \in found}
=============================================================================
