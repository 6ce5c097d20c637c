------------------------------ MODULE CropQuery -----------------------------
(***************************************************************************)
(* What CropServiceS3 (and, in the same words, CropServiceV2) makes of the *)
(* path and the query of a request: webservice/src/commonService.cpp and   *)
(* cropServiceWithS3.cpp.  A path is the sequence of its segments and a    *)
(* query the sequence of its parts; strtok_r passes over empty ones.       *)
(***************************************************************************)
EXTENDS Integers, Sequences

CONSTANTS
  Part,      \* the parts that queries are made of
  MaxParse,  \* maxParseTime: the parts that are looked at
  Decoded,   \* url_decode on the segments of paths
  Faces,     \* the text "faces"
  NoText     \* the empty text

\* The parameters, and what each is unless the query says otherwise.
Numeric == {"w", "h", "hs", "extra_info", "q", "hue", "sat", "bri", "exp", "blur", "rbh"}
Textual == {"fm", "crop", "clips"}
Name == Numeric \cup Textual

Default(n) ==
  CASE n \in {"hs", "extra_info"} -> 0
    [] n = "exp" -> -101
    [] n \in Numeric \ {"hs", "extra_info", "exp"} -> -1
    [] n \in Textual -> NoText

\* A part is a pair, or else it has no "=" ("bare"), nothing before it
\* ("nameless") or nothing after it ("empty").  Names may be unknown.
Pair(p) == p.form = "pair"

ASSUME QueryAssumption ==
  /\ MaxParse \in Nat \ {0}
  /\ \A p \in Part :
       /\ p.form \in {"pair", "bare", "nameless", "empty"}
       /\ Pair(p) /\ p.name \in Numeric => p.value \in Int

VARIABLES
  query,     \* what strtok_r has still to cut
  again,     \* buf, if a part is to be cut once more
  left,      \* maxParseTime
  params,    \* the result
  asked      \* history: the whole query

queryVars == <<query, again, left, params, asked>>

Bare == [form |-> "bare"]
NoPart == [form |-> "none"]

QueryInit ==
  /\ query = <<>> /\ asked = <<>>
  /\ again = NoPart
  /\ left = 0
  /\ params = [n \in Name |-> Default(n)]

QueryTypeOK ==
  /\ left \in 0 .. MaxParse
  /\ again.form \in {"none", "bare", "ended"}
  /\ \A n \in Numeric : params[n] \in Int
  /\ query \in Seq(Part) /\ asked \in Seq(Part)

\* parseResource: the first segment is the bucket, the others, joined, are
\* the key, and a path of MaxParse segments or more is refused.
PathRefused(path) == Len(path) >= MaxParse
KeyOf(path) == [i \in 1 .. Len(path) - 1 |-> Decoded[path[i + 1]]]

-----------------------------------------------------------------------------
(* parseQueryString.                                                       *)

ParseStart(q) ==
  /\ query' = q /\ asked' = q
  /\ again' = NoPart
  /\ left' = MaxParse
  /\ params' = [n \in Name |-> Default(n)]

FirstPairWins(p) ==  \* (mistake: a name that was set is not set again)
  [n \in Name |-> IF p.name = n /\ params[n] = Default(n) THEN p.value ELSE params[n]]
WithPair(p) == [n \in Name |-> IF p.name = n THEN p.value ELSE params[n]]

\* A pair sets its parameter, and buf becomes NULL.
ParsePair ==
  /\ left > 0 /\ again = NoPart
  /\ query # <<>> /\ Pair(Head(query))
  /\ params' = WithPair(Head(query))
  /\ query' = Tail(query)
  /\ left' = left - 1
  /\ UNCHANGED <<again, asked>>

\* What is left of a part in buf once its "=" was overwritten: an empty string
\* if it has no name, and otherwise a part without "=".
Remains(p) == IF p.form = "nameless" THEN [form |-> "ended"] ELSE Bare

\* Any other part is skipped, but buf is not NULL then: strtok_r begins again
\* at this part, and has forgotten the ones behind it.
ParseMalformed ==
  /\ left > 0
  /\ \/ again = NoPart /\ query # <<>> /\ ~ Pair(Head(query)) /\ again' = Remains(Head(query))
     \/ again = Bare /\ again' = Bare
  /\ query' = <<>>
  /\ left' = left - 1
  /\ UNCHANGED <<params, asked>>

\* strtok_r finds nothing more, or there were too many parts.
ParseEnded ==
  \/ left = 0
  \/ again = NoPart /\ query = <<>>
  \/ again.form = "ended"

\* The buffer of the query is not needed any more, and of the parameters only
\* the size and what to crop for (the others are the operators' matter).
ForgetQuery ==
  /\ query' = <<>> /\ asked' = <<>>
  /\ again' = NoPart
  /\ left' = 0
  /\ params' = [n \in Name |-> IF n \in {"w", "h", "crop"} THEN params[n] ELSE Default(n)]

\* shouldOriginalImage: nothing was asked for.  (The exposure is compared with
\* -1, which is not its default.)
ShouldOriginalImage ==
  /\ \A n \in {"w", "h", "q", "sat", "hue", "bri", "exp", "blur"} : params[n] = -1
  /\ params["fm"] = NoText /\ params["crop"] = NoText

-----------------------------------------------------------------------------
(* What the parameters should be, seen from the whole query.               *)

\* The parts before the first one that is not a pair, and not too many.
Understood ==
  {i \in DOMAIN asked : i <= MaxParse /\ \A j \in 1 .. i : Pair(asked[j])}

\* What the last of the given parts says of the name.
LastSaid(n, parts) ==
  LET given == {i \in parts : asked[i].name = n}
  IN IF given = {} THEN Default(n)
     ELSE asked[CHOOSE i \in given : \A j \in given : j <= i].value

Meant(n) == LastSaid(n, Understood)
=============================================================================
