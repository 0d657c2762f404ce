------------------------------ MODULE Channels ------------------------------
(***************************************************************************)
(* Channel.IsValid and Channel.Match (v2/channel.go): the validity of a    *)
(* channel and whether a channel, perhaps with a wildcard at its end,      *)
(* matches another.  A string is a sequence of characters.  The pattern    *)
(* and the other channel grow by one character at a time, so that every    *)
(* pair up to a length is met; the reference is a definition by segments.  *)
(***************************************************************************)
EXTENDS Integers, Sequences, FiniteSets, SequencesExt

CONSTANTS
  Letter,    \* the characters that have no meaning of their own
  MaxLength  \* bound: characters of a channel

ASSUME ChannelsAssumption ==
  /\ MaxLength \in Nat
  /\ "/" \notin Letter /\ "*" \notin Letter

Character == Letter \cup {"/", "*"}

VARIABLES
  pattern,  \* the channel that Match is called on
  other     \* its argument

vars == <<pattern, other>>

HasWildcard(s) == s # <<>> /\ Last(s) = "*"
IsValid(s)     == s # <<>> /\ s[1] = "/" /\ (Contains(s, "*") => HasWildcard(s))

\* Faulty variant: the first slash.
FirstSlash(s) == CHOOSE i \in DOMAIN s : s[i] = "/" /\ \A j \in 1 .. i - 1 : s[j] # "/"

LastSlash(s) == CHOOSE i \in DOMAIN s : s[i] = "/" /\ \A j \in i + 1 .. Len(s) : s[j] # "/"

\* Faulty variant: one character more has to be there.
CutsOneMore(s, n) == Len(s) > n + 1

\* other[n+1:], what is after a prefix of n characters and the one that should
\* be a slash; it panics when nothing is after the prefix.
Cuts(s, n) == Len(s) > n
Cut(s, n)  == SubSeq(s, n + 2, Len(s))

MatchAgainstWildcards(s, t) ==
  LET n         == LastSlash(s) - 1
      wildcards == SubSeq(s, n + 2, Len(s)) IN
  IF ~ Contains(s, "/") \/ ~ IsPrefix(SubSeq(s, 1, n), t) THEN "no"
  ELSE IF ~ Cuts(t, n) THEN "panic"
  ELSE IF \/ wildcards = <<"*">> /\ ~ Contains(Cut(t, n), "/")
          \/ wildcards = <<"*", "*">>
  THEN "yes" ELSE "no"

Match(s, t) ==
  IF HasWildcard(s) THEN MatchAgainstWildcards(s, t)
  ELSE IF s = t THEN "yes" ELSE "no"

-----------------------------------------------------------------------------
Init == pattern = <<>> /\ other = <<>>

GrowPattern(x) ==
  Len(pattern) < MaxLength /\ pattern' = Append(pattern, x) /\ UNCHANGED other

GrowOther(x) ==
  Len(other) < MaxLength /\ other' = Append(other, x) /\ UNCHANGED pattern

Next == \E x \in Character : GrowPattern(x) \/ GrowOther(x)

Spec == Init /\ [][Next]_vars

-----------------------------------------------------------------------------
\* How many slashes there are among the first i characters, and where the k-th
\* is; the start of the string counts as the one before the first.
Slashes(s, i) == Cardinality({j \in 1 .. i : s[j] = "/"})
Place(s, k)   == CHOOSE i \in 0 .. Len(s) : Slashes(s, i) = k /\ (i = 0 \/ s[i] = "/")

\* The segments of a channel: what is before, between and after its slashes.
Segment(s, k) == SubSeq(s, Place(s, k - 1) + 1, Place(s, k) - 1)
Segments(s) ==
  LET ended == Append(s, "/") IN
  [k \in 1 .. Slashes(ended, Len(ended)) |-> Segment(ended, k)]

\* The wildcard * stands for one last segment, ** for one or more.
Matches(s, t) ==
  LET p == Segments(s)
      q == Segments(t)
      below == /\ Len(p) <= Len(q)
               /\ \A i \in 1 .. Len(p) - 1 : p[i] = q[i] IN
  CASE Last(p) = <<"*">>      -> below /\ Len(p) = Len(q)
    [] Last(p) = <<"*", "*">> -> below
    [] OTHER                  -> ~ HasWildcard(s) /\ p = q

\* The channel a pattern with a wildcard is under.
Parent(s) == SubSeq(s, 1, LastSlash(s) - 1)

\* Other is the parent with something else than a slash after it.
Beside(s, t) ==
  HasWildcard(s) /\ IsStrictPrefix(Parent(s), t) /\ t[LastSlash(s)] # "/"

\* Match finds the channels of the wildcard's level, or of all levels below,
\* and no others, for every argument that is neither the pattern's parent nor
\* only has the parent's characters in front (channel.go:98-138).
MatchBySegments ==
  IsValid(pattern) /\ ~ Beside(pattern, other) /\ Match(pattern, other) # "panic" =>
    (Match(pattern, other) = "yes" <=> Matches(pattern, other))

\* The only argument that Match does not survive is the pattern's parent, in
\* particular for a wildcard at the root the empty string (channel.go:125).
PanicsAtParent ==
  IsValid(pattern) =>
    (Match(pattern, other) = "panic" <=>
       HasWildcard(pattern) /\ other = Parent(pattern))
=============================================================================
