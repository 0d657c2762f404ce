---------------------------- MODULE ChannelProofs ----------------------------
(***************************************************************************)
(* Theorems about Channel.Match, for every alphabet and every length of    *)
(* its strings: which argument it panics at, and that it accepts what the  *)
(* wildcard stands for, by the segments of pattern and argument.           *)
(***************************************************************************)
EXTENDS Channels, SequenceTheorems, FiniteSetTheorems, WellFoundedInduction, TLAPS

-----------------------------------------------------------------------------
\* The two strings are sequences of characters.
Strings == pattern \in Seq(Character) /\ other \in Seq(Character)

LEMMA StringsType == Spec => []Strings
<1>1. Init => Strings BY DEF Init, Strings
<1>2. Strings /\ [Next]_vars => Strings'
  <2> SUFFICES ASSUME Strings, [Next]_vars PROVE Strings' OBVIOUS
  <2>1. ASSUME NEW x \in Character, GrowPattern(x) PROVE Strings'
    BY <2>1 DEF Strings, GrowPattern
  <2>2. ASSUME NEW x \in Character, GrowOther(x) PROVE Strings'
    BY <2>2 DEF Strings, GrowOther
  <2>3. CASE UNCHANGED vars BY <2>3 DEF Strings, vars
  <2>4. QED BY <2>1, <2>2, <2>3 DEF Next
<1>3. QED BY <1>1, <1>2, PTL DEF Spec

-----------------------------------------------------------------------------
\* A nonempty set of numbers up to a bound has a greatest one: its distance
\* to the bound is the least.
LEMMA Greatest ==
  ASSUME NEW n \in Nat, NEW T, T \subseteq 0 .. n, T # {}
  PROVE  \E x \in T : \A y \in T : y <= x
<1> DEFINE R == {p \in Nat \X Nat : p[1] < p[2]}
           D == {d \in Nat : \E x \in T : d = n - x}
<1>1. IsWellFoundedOn(R, Nat) BY NatLessThanWellFounded DEF OpToRel
<1>2. D \subseteq Nat /\ D # {}
  <2>1. PICK x \in T : TRUE OBVIOUS
  <2>2. n - x \in D BY <2>1
  <2>3. QED BY <2>2
<1>3. PICK d \in D : \A e \in D : <<e, d>> \notin R
  <2> HIDE DEF R, D
  <2>1. QED BY <1>1, <1>2, WFMin
<1>4. PICK x \in T : d = n - x OBVIOUS
<1>5. ASSUME NEW y \in T PROVE y <= x
  <2>1. n - y \in D /\ x \in 0 .. n /\ y \in 0 .. n OBVIOUS
  <2>2. ~ (n - y < d) BY <1>3, <1>4, <2>1
  <2>3. QED BY <1>4, <2>1, <2>2
<1>6. QED BY <1>5

\* strings.LastIndex finds a slash where there is one.
LEMMA LastSlashThere ==
  ASSUME NEW s \in Seq(Character), Contains(s, "/")
  PROVE  /\ LastSlash(s) \in 1 .. Len(s) /\ s[LastSlash(s)] = "/"
         /\ \A j \in LastSlash(s) + 1 .. Len(s) : s[j] # "/"
<1> DEFINE T == {i \in 1 .. Len(s) : s[i] = "/"}
<1>1. T \subseteq 0 .. Len(s) /\ T # {} /\ Len(s) \in Nat BY DEF Contains
<1>2. PICK x \in T : \A y \in T : y <= x
  <2> HIDE DEF T
  <2>1. QED BY <1>1, Greatest
<1>3. \A j \in x + 1 .. Len(s) : s[j] # "/" BY <1>1, <1>2
<1>4. \E i \in DOMAIN s : s[i] = "/" /\ \A j \in i + 1 .. Len(s) : s[j] # "/"
  BY <1>2, <1>3
<1>5. /\ LastSlash(s) \in DOMAIN s /\ s[LastSlash(s)] = "/"
      /\ \A j \in LastSlash(s) + 1 .. Len(s) : s[j] # "/"
  BY <1>4, Zenon DEF LastSlash
<1>6. QED BY <1>5

\* A string that has a prefix, and nothing after it, is that prefix.
LEMMA NothingAfter ==
  ASSUME NEW p \in Seq(Character), NEW t \in Seq(Character)
  PROVE  IsPrefix(p, t) /\ Len(t) <= Len(p) <=> t = p
<1>1. ASSUME IsPrefix(p, t), Len(t) <= Len(p) PROVE t = p
  <2>1. Len(t) = Len(p) /\ Len(p) \in Nat BY <1>1 DEF IsPrefix
  <2>2. SubSeq(t, 1, Len(t)) = t /\ SubSeq(p, 1, Len(p)) = p OBVIOUS
  <2>3. QED BY <1>1, <2>1, <2>2 DEF IsPrefix
<1>2. ASSUME t = p PROVE IsPrefix(p, t) /\ Len(t) <= Len(p)
  BY <1>2 DEF IsPrefix
<1>3. QED BY <1>1, <1>2

\* A pattern with a wildcard panics at its parent and nowhere else.
LEMMA WildcardPanics ==
  ASSUME NEW s \in Seq(Character), NEW t \in Seq(Character), Contains(s, "/")
  PROVE  MatchAgainstWildcards(s, t) = "panic" <=> t = Parent(s)
<1> DEFINE n == LastSlash(s) - 1
<1>1. n \in 0 .. Len(s) /\ Len(s) \in Nat BY LastSlashThere
<1>2. Parent(s) \in Seq(Character) /\ Len(Parent(s)) = n BY <1>1 DEF Parent
<1>3. MatchAgainstWildcards(s, t) = "panic"
        <=> IsPrefix(Parent(s), t) /\ ~ Cuts(t, n)
  BY DEF MatchAgainstWildcards, Parent
<1>4. ~ Cuts(t, n) <=> Len(t) <= Len(Parent(s)) BY <1>1, <1>2 DEF Cuts
<1>5. QED BY <1>2, <1>3, <1>4, NothingAfter

-----------------------------------------------------------------------------
\* The only argument that Match does not survive is the pattern's parent,
\* however long the two are (channel.go:114-138).
THEOREM ChannelPanicsAtParent == Spec => []PanicsAtParent
<1>1. Strings => PanicsAtParent
  <2> SUFFICES ASSUME Strings, IsValid(pattern)
               PROVE  Match(pattern, other) = "panic" <=>
                        HasWildcard(pattern) /\ other = Parent(pattern)
    BY DEF PanicsAtParent
  <2>1. CASE HasWildcard(pattern)
    <3>1. Contains(pattern, "/") BY DEF Strings, IsValid, Contains
    <3>2. MatchAgainstWildcards(pattern, other) = "panic"
            <=> other = Parent(pattern)
      BY <3>1, WildcardPanics DEF Strings
    <3>3. QED BY <2>1, <3>2 DEF Match
  <2>2. CASE ~ HasWildcard(pattern) BY <2>2 DEF Match
  <2>3. QED BY <2>1, <2>2
<1>2. QED BY <1>1, StringsType, PTL

-----------------------------------------------------------------------------
\* What precedes the last segment of a string, its slash included, and the last
\* segment.
Directory(s)   == SubSeq(s, 1, LastSlash(s))
LastSegment(s) == SubSeq(s, LastSlash(s) + 1, Len(s))

\* Other is the directory of the pattern, and then something the wildcard
\* stands for: one segment, or any number of them.
Split(s, t) ==
  \E rest \in Seq(Character) :
    /\ t = Directory(s) \o rest
    /\ \/ LastSegment(s) = <<"*">> /\ ~ Contains(rest, "/")
       \/ LastSegment(s) = <<"*", "*">>

\* A string that has the parent's characters in front, a slash after them, is
\* the directory and what Match cuts off.
LEMMA CutIsRest ==
  ASSUME NEW s \in Seq(Character), NEW t \in Seq(Character), Contains(s, "/"),
         IsPrefix(Parent(s), t), Cuts(t, LastSlash(s) - 1), t[LastSlash(s)] = "/"
  PROVE  /\ Cut(t, LastSlash(s) - 1) \in Seq(Character)
         /\ t = Directory(s) \o Cut(t, LastSlash(s) - 1)
<1> DEFINE k == LastSlash(s)
           c == Cut(t, k - 1)
<1>1. k \in 1 .. Len(s) /\ s[k] = "/" /\ Len(s) \in Nat BY LastSlashThere
<1>2. k <= Len(t) /\ Len(t) \in Nat BY <1>1 DEF Cuts
<1>3. c = SubSeq(t, k + 1, Len(t))
  <2>1. k - 1 + 2 = k + 1 BY <1>1
  <2>2. QED BY <2>1 DEF Cut
<1>4. Parent(s) = SubSeq(t, 1, k - 1)
  <2>1. Parent(s) \in Seq(Character) /\ Len(Parent(s)) = k - 1 BY <1>1 DEF Parent
  <2>2. SubSeq(Parent(s), 1, Len(Parent(s))) = Parent(s) BY <2>1
  <2>3. QED BY <2>1, <2>2 DEF IsPrefix
<1>5. \A i \in 1 .. k : s[i] = t[i]
  <2>1. \A i \in 1 .. k - 1 : Parent(s)[i] = s[i] BY <1>1 DEF Parent
  <2>2. \A i \in 1 .. k - 1 : Parent(s)[i] = t[i]
    <3> HIDE DEF c
    <3>1. QED BY <1>1, <1>2, <1>4
  <2>3. QED BY <1>1, <2>1, <2>2
<1>6. Directory(s) = SubSeq(t, 1, k)
  BY <1>1, <1>2, <1>5 DEF Directory
<1>7. t = SubSeq(t, 1, k) \o SubSeq(t, k + 1, Len(t)) 
  <2>1. /\ 1 \in 1 .. Len(t) + 1 /\ k \in 1 - 1 .. Len(t)
        /\ Len(t) \in k .. Len(t)
    BY <1>1, <1>2
  <2>2. SubSeq(t, 1, Len(t)) = t BY SubSeqFull
  <2>3. QED BY <2>1, <2>2, ConcatAdjacentSubSeq
<1>8. SubSeq(t, k + 1, Len(t)) \in Seq(Character) BY <1>1, <1>2
<1>9. QED BY <1>3, <1>6, <1>7, <1>8

\* A string that starts with the directory has the parent's characters in
\* front, a slash after them, and Match cuts off the rest.
LEMMA RestIsCut ==
  ASSUME NEW s \in Seq(Character), NEW r \in Seq(Character), Contains(s, "/"),
         NEW t, t = Directory(s) \o r
  PROVE  /\ IsPrefix(Parent(s), t)
         /\ Cut(t, LastSlash(s) - 1) = r
         /\ Cuts(t, LastSlash(s) - 1)
<1> DEFINE k == LastSlash(s)
<1>1. k \in 1 .. Len(s) /\ s[k] = "/" /\ Len(s) \in Nat BY LastSlashThere
<1>2. Directory(s) \in Seq(Character) /\ Len(Directory(s)) = k BY <1>1 DEF Directory
<1>3. t \in Seq(Character) /\ Len(t) = k + Len(r) /\ Len(r) \in Nat BY <1>1, <1>2
<1>4. \A i \in 1 .. k : t[i] = s[i]
  <2>1. \A i \in 1 .. k : Directory(s)[i] = s[i] BY <1>1 DEF Directory
  <2>2. \A i \in 1 .. k : t[i] = Directory(s)[i] BY <1>1, <1>2
  <2>3. QED BY <2>1, <2>2
<1>5. IsPrefix(Parent(s), t)
  <2>1. Parent(s) \in Seq(Character) /\ Len(Parent(s)) = k - 1 BY <1>1 DEF Parent
  <2>2. \A i \in 1 .. k - 1 : Parent(s)[i] = s[i] BY <1>1 DEF Parent
  <2>3. k - 1 \in 0 .. Len(t) BY <1>1, <1>3
  <2>4. Parent(s) = SubSeq(t, 1, k - 1)
    <3>1. SubSeq(t, 1, k - 1) \in Seq(Character) /\ Len(SubSeq(t, 1, k - 1)) = k - 1
      BY <1>3, <2>3
    <3>2. \A i \in 1 .. k - 1 : SubSeq(t, 1, k - 1)[i] = Parent(s)[i]
      BY <1>1, <1>3, <1>4, <2>2, <2>3
    <3>3. QED BY <2>1, <3>1, <3>2, SeqEqual
  <2>5. SubSeq(Parent(s), 1, Len(Parent(s))) = Parent(s) BY <2>1
  <2>6. QED BY <1>1, <1>3, <2>1, <2>3, <2>4, <2>5 DEF IsPrefix
<1>6. Cut(t, k - 1) = r
  <2>1. Cut(t, k - 1) = SubSeq(t, k + 1, Len(t))
    <3>1. k - 1 + 2 = k + 1 BY <1>1
    <3>2. QED BY <3>1 DEF Cut
  <2>2. SubSeq(t, k + 1, Len(t)) = r BY <1>1, <1>2, <1>3
  <2>3. QED BY <2>1, <2>2
<1>7. QED BY <1>1, <1>3, <1>4, <1>5, <1>6 DEF Cuts

\* With a wildcard, Match accepts the splits of its argument.
LEMMA MatchIsSplit ==
  ASSUME NEW s \in Seq(Character), NEW t \in Seq(Character), IsValid(s),
         HasWildcard(s), ~ Beside(s, t)
  PROVE  Match(s, t) = "yes" <=> Split(s, t)
<1> DEFINE k == LastSlash(s)
           means(r) == \/ LastSegment(s) = <<"*">> /\ ~ Contains(r, "/")
                       \/ LastSegment(s) = <<"*", "*">>
<1>1. Contains(s, "/") BY DEF IsValid, Contains
<1>2. k \in 1 .. Len(s) /\ k - 1 + 2 = k + 1 BY <1>1, LastSlashThere
<1>3. Match(s, t) = "yes" <=>
        IsPrefix(Parent(s), t) /\ Cuts(t, k - 1) /\ means(Cut(t, k - 1))
  BY <1>1, <1>2 DEF Match, MatchAgainstWildcards, Parent, LastSegment
<1>4. ASSUME Match(s, t) = "yes" PROVE Split(s, t)
  <2>1. t # Parent(s)
    BY <1>1, <1>4, WildcardPanics DEF Match
  <2>2. t[k] = "/" BY <1>3, <1>4, <2>1 DEF Beside, IsStrictPrefix
  <2>3. Cut(t, k - 1) \in Seq(Character) /\ t = Directory(s) \o Cut(t, k - 1)
    BY <1>1, <1>3, <1>4, <2>2, CutIsRest
  <2>4. QED BY <1>3, <1>4, <2>3 DEF Split
<1>5. ASSUME NEW r \in Seq(Character), t = Directory(s) \o r, means(r)
      PROVE  Match(s, t) = "yes"
  <2>1. IsPrefix(Parent(s), t) /\ Cut(t, k - 1) = r /\ Cuts(t, k - 1)
    BY <1>1, <1>5, RestIsCut
  <2>2. QED BY <1>3, <1>5, <2>1
<1>6. QED BY <1>4, <1>5 DEF Split

\* Match accepts what its wildcard stands for and nothing else, in every
\* directory and below it: whatever the argument, unless it only has the parent's
\* characters in front (channel.go:98-138).
THEOREM ChannelMatchesBySplit ==
  Spec => [](IsValid(pattern) /\ HasWildcard(pattern) /\ ~ Beside(pattern, other)
               => (Match(pattern, other) = "yes" <=> Split(pattern, other)))
<1>1. Strings => (IsValid(pattern) /\ HasWildcard(pattern) /\ ~ Beside(pattern, other)
                    => (Match(pattern, other) = "yes" <=> Split(pattern, other)))
  BY MatchIsSplit DEF Strings
<1>2. QED BY <1>1, StringsType, PTL

-----------------------------------------------------------------------------
\* Slashes and their places.

\* No character is before the first, and each of the others counts if it is a
\* slash.
LEMMA SlashesZero == ASSUME NEW s PROVE Slashes(s, 0) = 0
<1>1. {j \in 1 .. 0 : s[j] = "/"} = {} OBVIOUS
<1>2. QED BY <1>1, FS_EmptySet DEF Slashes

LEMMA SlashesStep ==
  ASSUME NEW s, NEW i \in Nat
  PROVE  /\ Slashes(s, i) \in Nat
         /\ s[i + 1] = "/" => Slashes(s, i + 1) = Slashes(s, i) + 1
         /\ s[i + 1] # "/" => Slashes(s, i + 1) = Slashes(s, i)
<1> DEFINE T(m) == {j \in 1 .. m : s[j] = "/"}
<1>1. IsFiniteSet(T(i))
  <2>1. IsFiniteSet(1 .. i) BY FS_Interval
  <2>2. T(i) \in SUBSET (1 .. i) OBVIOUS
  <2> HIDE DEF T
  <2>3. QED BY <2>1, <2>2, FS_Subset
<1>2. ASSUME s[i + 1] = "/" PROVE Slashes(s, i + 1) = Slashes(s, i) + 1
  <2>1. T(i + 1) = T(i) \cup {i + 1} /\ i + 1 \notin T(i) BY <1>2
  <2>2. Cardinality(T(i + 1)) = Cardinality(T(i)) + 1
    <3> HIDE DEF T
    <3>1. QED BY <1>1, <2>1, FS_AddElement
  <2>3. QED BY <2>2 DEF Slashes
<1>3. ASSUME s[i + 1] # "/" PROVE Slashes(s, i + 1) = Slashes(s, i)
  <2>1. T(i + 1) = T(i) BY <1>3
  <2>2. QED BY <2>1 DEF Slashes
<1>4. Slashes(s, i) \in Nat
  <2>1. Cardinality(T(i)) \in Nat
    <3> HIDE DEF T
    <3>1. QED BY <1>1, FS_CardinalityType
  <2>2. QED BY <2>1 DEF Slashes
<1>5. QED BY <1>2, <1>3, <1>4

\* It grows, and up to a slash strictly.
LEMMA SlashesGrow ==
  ASSUME NEW s, NEW j \in Nat, NEW i \in 0 .. j
  PROVE  /\ Slashes(s, i) \in Nat /\ Slashes(s, j) \in Nat
         /\ Slashes(s, i) <= Slashes(s, j)
         /\ i < j /\ s[j] = "/" => Slashes(s, i) < Slashes(s, j)
<1>1. ASSUME NEW m \in Nat, NEW n \in 0 .. m PROVE Slashes(s, n) <= Slashes(s, m)
  <2> DEFINE U == {x \in 1 .. m : s[x] = "/"}
             V == {x \in 1 .. n : s[x] = "/"}
  <2>1. IsFiniteSet(1 .. m) /\ U \in SUBSET (1 .. m) BY FS_Interval
  <2>2. V \in SUBSET U OBVIOUS
  <2>3. Cardinality(V) <= Cardinality(U)
    <3> HIDE DEF U, V
    <3>1. IsFiniteSet(U) BY <2>1, FS_Subset
    <3>2. QED BY <2>2, <3>1, FS_Subset
  <2>4. QED BY <2>3 DEF Slashes
<1>2. Slashes(s, i) \in Nat /\ Slashes(s, j) \in Nat
  <2>1. i \in Nat OBVIOUS
  <2>2. QED BY <2>1, SlashesStep
<1>3. ASSUME i < j, s[j] = "/" PROVE Slashes(s, i) < Slashes(s, j)
  <2>1. j - 1 \in Nat /\ i \in 0 .. j - 1 /\ (j - 1) + 1 = j BY <1>3
  <2>2. Slashes(s, j) = Slashes(s, j - 1) + 1 /\ Slashes(s, j - 1) \in Nat
    BY <1>3, <2>1, SlashesStep
  <2>3. Slashes(s, i) <= Slashes(s, j - 1) BY <1>1, <2>1
  <2>4. QED BY <1>2, <2>2, <2>3
<1>4. QED BY <1>1, <1>2, <1>3

\* The k-th slash is where it is said to be.
LEMMA PlaceThere ==
  ASSUME NEW s \in Seq(Character), NEW k \in 0 .. Slashes(s, Len(s))
  PROVE  /\ Place(s, k) \in 0 .. Len(s)
         /\ Slashes(s, Place(s, k)) = k
         /\ k = 0 => Place(s, k) = 0
         /\ k # 0 => Place(s, k) # 0 /\ s[Place(s, k)] = "/"
<1> DEFINE IsPlace(i) == Slashes(s, i) = k /\ (i = 0 \/ s[i] = "/")
<1>1. Len(s) \in Nat /\ Slashes(s, Len(s)) \in Nat BY SlashesStep
<1>2. \E i \in 0 .. Len(s) : IsPlace(i)
  <2>1. CASE k = 0 BY <1>1, <2>1, SlashesZero
  <2>2. CASE k # 0
    <3> DEFINE T == {i \in 0 .. Len(s) : Slashes(s, i) < k}
    <3>1. T \subseteq 0 .. Len(s) /\ 0 \in T BY <1>1, <2>2, SlashesZero
    <3>2. PICK x \in T : \A y \in T : y <= x
      <4> HIDE DEF T
      <4>1. QED BY <1>1, <3>1, Greatest
    <3>3. x \in Nat /\ x < Len(s) /\ x + 1 \in 0 .. Len(s) BY <1>1, <3>2
    <3>4. Slashes(s, x) < k /\ ~ (Slashes(s, x + 1) < k) BY <3>2, <3>3
    <3>5. /\ Slashes(s, x) \in Nat
          /\ s[x + 1] = "/" => Slashes(s, x + 1) = Slashes(s, x) + 1
          /\ s[x + 1] # "/" => Slashes(s, x + 1) = Slashes(s, x)
      BY <3>3, SlashesStep
    <3>6. s[x + 1] = "/" /\ Slashes(s, x + 1) = k BY <1>1, <3>4, <3>5
    <3>7. QED BY <3>3, <3>6
  <2>3. QED BY <2>1, <2>2
<1>3. Place(s, k) \in 0 .. Len(s) /\ IsPlace(Place(s, k))
  <2>1. Place(s, k) = CHOOSE i \in 0 .. Len(s) : IsPlace(i) BY DEF Place
  <2> HIDE DEF IsPlace
  <2>2. QED BY <1>2, <2>1, Zenon
<1>4. ASSUME k = 0 PROVE Place(s, k) = 0
  <2>1. SUFFICES ASSUME Place(s, k) # 0 PROVE FALSE OBVIOUS
  <2>2. 0 \in 0 .. Place(s, k) /\ Place(s, k) \in Nat /\ 0 < Place(s, k)
    BY <1>3, <2>1
  <2>3. Slashes(s, 0) < Slashes(s, Place(s, k)) BY <1>3, <2>1, <2>2, SlashesGrow
  <2>4. QED BY <1>3, <1>4, <2>3, SlashesZero
<1>5. ASSUME k # 0 PROVE Place(s, k) # 0 BY <1>3, <1>5, SlashesZero
<1>6. QED BY <1>3, <1>4, <1>5

\* It is the only one.
LEMMA PlaceOnly ==
  ASSUME NEW s \in Seq(Character), NEW i \in 1 .. Len(s), s[i] = "/"
  PROVE  /\ Slashes(s, i) \in 1 .. Slashes(s, Len(s))
         /\ Place(s, Slashes(s, i)) = i
<1> DEFINE k == Slashes(s, i)
<1>1. Len(s) \in Nat /\ i \in Nat /\ i \in 0 .. Len(s) /\ 0 \in 0 .. i OBVIOUS
<1>2. k \in Nat /\ k <= Slashes(s, Len(s)) /\ Slashes(s, Len(s)) \in Nat
  BY <1>1, SlashesGrow
<1>3. Slashes(s, 0) = 0 /\ Slashes(s, 0) < k BY <1>1, SlashesGrow, SlashesZero
<1>4. k \in 1 .. Slashes(s, Len(s)) BY <1>2, <1>3
<1>5. /\ Place(s, k) \in 0 .. Len(s) /\ Slashes(s, Place(s, k)) = k
      /\ s[Place(s, k)] = "/"
  <2>1. k \in 0 .. Slashes(s, Len(s)) /\ k # 0 BY <1>4
  <2> HIDE DEF k
  <2>2. QED BY <2>1, PlaceThere
<1>6. CASE Place(s, k) < i
  <2>1. Place(s, k) \in 0 .. i BY <1>1, <1>5, <1>6
  <2>2. Slashes(s, Place(s, k)) < Slashes(s, i) BY <1>1, <1>6, <2>1, SlashesGrow
  <2>3. QED BY <1>2, <1>5, <2>2
<1>7. CASE i < Place(s, k)
  <2>1. i \in 0 .. Place(s, k) /\ Place(s, k) \in Nat BY <1>1, <1>5, <1>7
  <2>2. Slashes(s, i) < Slashes(s, Place(s, k)) BY <1>5, <1>7, <2>1, SlashesGrow
  <2>3. QED BY <1>2, <1>5, <2>2
<1>8. CASE Place(s, k) = i BY <1>4, <1>8
<1>9. QED BY <1>1, <1>5, <1>6, <1>7, <1>8

\* Later slashes are later in the string.
LEMMA PlacesGrow ==
  ASSUME NEW s \in Seq(Character), NEW n \in 1 .. Slashes(s, Len(s))
  PROVE  /\ Place(s, n - 1) \in 0 .. Len(s) /\ Place(s, n) \in 1 .. Len(s)
         /\ Place(s, n - 1) < Place(s, n)
<1>1. Len(s) \in Nat /\ Slashes(s, Len(s)) \in Nat BY SlashesGrow
<1>2. n - 1 \in 0 .. Slashes(s, Len(s)) /\ n \in 0 .. Slashes(s, Len(s)) /\ n # 0
  BY <1>1
<1>3. Place(s, n - 1) \in 0 .. Len(s) /\ Slashes(s, Place(s, n - 1)) = n - 1
  BY <1>2, PlaceThere
<1>4. Place(s, n) \in 1 .. Len(s) /\ Slashes(s, Place(s, n)) = n
  BY <1>1, <1>2, PlaceThere
<1>5. CASE Place(s, n) <= Place(s, n - 1)
  <2>1. Place(s, n) \in 0 .. Place(s, n - 1) /\ Place(s, n - 1) \in Nat
    BY <1>1, <1>3, <1>4, <1>5
  <2>2. Slashes(s, Place(s, n)) <= Slashes(s, Place(s, n - 1)) BY <2>1, SlashesGrow
  <2>3. QED BY <1>1, <1>3, <1>4, <2>2
<1>6. QED BY <1>1, <1>3, <1>4, <1>5

\* A character up to the n-th slash is one of the slashes or in a segment, and
\* the characters of a segment are no slashes.
LEMMA Located ==
  ASSUME NEW s \in Seq(Character), NEW n \in 1 .. Slashes(s, Len(s)),
         NEW i \in 1 .. Place(s, n)
  PROVE  \/ s[i] = "/" /\ \E k \in 1 .. n : i = Place(s, k)
         \/ s[i] # "/" /\ \E k \in 1 .. n : Place(s, k - 1) < i /\ i < Place(s, k)
<1> DEFINE c == Slashes(s, i)
<1>1. Len(s) \in Nat /\ Slashes(s, Len(s)) \in Nat /\ n \in Nat BY SlashesGrow
<1>2. /\ Place(s, n) \in 1 .. Len(s) /\ Slashes(s, Place(s, n)) = n
      /\ s[Place(s, n)] = "/"
  BY <1>1, PlaceThere, PlacesGrow
<1>3. i \in Nat /\ i \in 0 .. Place(s, n) /\ Place(s, n) \in Nat BY <1>1, <1>2
<1>4. c \in Nat /\ c <= n /\ (i < Place(s, n) => c < n)
  BY <1>2, <1>3, SlashesGrow
<1>5. CASE s[i] = "/"
  <2>1. i \in 1 .. Len(s) BY <1>1, <1>2, <1>3
  <2>2. c \in 1 .. Slashes(s, Len(s)) /\ Place(s, c) = i BY <1>5, <2>1, PlaceOnly
  <2>3. c \in 1 .. n BY <1>1, <1>4, <2>2
  <2>4. QED BY <1>5, <2>2, <2>3
<1>6. CASE s[i] # "/"
  <2>1. i < Place(s, n) /\ c < n BY <1>2, <1>3, <1>4, <1>6
  <2>2. /\ c + 1 \in 1 .. n /\ (c + 1) - 1 = c /\ c \in 0 .. Slashes(s, Len(s))
        /\ c + 1 \in 0 .. Slashes(s, Len(s)) /\ c + 1 # 0
    BY <1>1, <1>4, <2>1
  <2>3. /\ Place(s, c) \in 0 .. Len(s) /\ Slashes(s, Place(s, c)) = c
        /\ Place(s, c) # 0 => s[Place(s, c)] = "/"
    BY <2>2, PlaceThere
  <2>4. /\ Place(s, c + 1) \in 0 .. Len(s) /\ Slashes(s, Place(s, c + 1)) = c + 1
        /\ s[Place(s, c + 1)] = "/"
    <3> HIDE DEF c
    <3>1. QED BY <2>2, PlaceThere
  <2>5. Place(s, c) < i
    <3>1. CASE i < Place(s, c)
      <4>1. i \in 0 .. Place(s, c) /\ Place(s, c) \in Nat BY <1>1, <1>3, <2>3, <3>1
      <4>2. Slashes(s, i) < Slashes(s, Place(s, c))
        BY <1>3, <2>3, <3>1, <4>1, SlashesGrow
      <4>3. QED BY <1>4, <2>3, <4>2
    <3>2. i # Place(s, c) BY <1>6, <2>3
    <3>3. QED BY <1>1, <1>3, <2>3, <3>1, <3>2
  <2>6. i < Place(s, c + 1)
    <3>1. CASE Place(s, c + 1) <= i
      <4>1. Place(s, c + 1) \in 0 .. i BY <1>1, <1>3, <2>4, <3>1
      <4>2. Slashes(s, Place(s, c + 1)) <= Slashes(s, i) BY <1>3, <4>1, SlashesGrow
      <4>3. QED BY <1>4, <2>4, <4>2
    <3>2. QED BY <1>1, <1>3, <2>4, <3>1
  <2>7. QED BY <1>6, <2>2, <2>5, <2>6
<1>7. QED BY <1>5, <1>6

\* The characters of a segment.
LEMMA SegmentIs ==
  ASSUME NEW s \in Seq(Character), NEW k \in 1 .. Slashes(s, Len(s))
  PROVE  /\ Segment(s, k) \in Seq(Character)
         /\ Len(Segment(s, k)) = Place(s, k) - 1 - Place(s, k - 1)
         /\ \A i \in 1 .. Place(s, k) - 1 - Place(s, k - 1) :
              Segment(s, k)[i] = s[Place(s, k - 1) + i]
<1> DEFINE a == Place(s, k - 1)
           b == Place(s, k)
<1>1. a \in 0 .. Len(s) /\ b \in 1 .. Len(s) /\ a < b /\ Len(s) \in Nat BY PlacesGrow
<1> HIDE DEF a, b
<1>2. /\ SubSeq(s, a + 1, b - 1) \in Seq(Character)
      /\ Len(SubSeq(s, a + 1, b - 1)) = b - 1 - a
      /\ \A i \in 1 .. b - 1 - a : SubSeq(s, a + 1, b - 1)[i] = s[a + i]
  <2>1. a + 1 \in Int /\ b - 1 \in Int /\ (b - 1) - (a + 1) + 1 = b - 1 - a BY <1>1
  <2>2. \A i \in a + 1 .. b - 1 : s[i] \in Character BY <1>1
  <2>3. /\ SubSeq(s, a + 1, b - 1) \in Seq(Character)
        /\ Len(SubSeq(s, a + 1, b - 1)) =
             IF a + 1 <= b - 1 THEN (b - 1) - (a + 1) + 1 ELSE 0
        /\ \A i \in 1 .. (b - 1) - (a + 1) + 1 :
             SubSeq(s, a + 1, b - 1)[i] = s[(a + 1) + i - 1]
    BY <2>1, <2>2, SubSeqProperties
  <2>4. QED BY <1>1, <2>1, <2>3
<1>3. QED BY <1>2 DEF Segment, a, b

-----------------------------------------------------------------------------
\* Two strings that agree up to a slash have the same segments before it, and
\* two strings that have the same segments agree up to the slash after them.
Agree(s, t, k) == k <= Len(t) /\ \A i \in 1 .. k : s[i] = t[i]

LEMMA SamePlaces ==
  ASSUME NEW s \in Seq(Character), NEW t \in Seq(Character),
         NEW n \in 0 .. Slashes(s, Len(s)), Agree(s, t, Place(s, n))
  PROVE  /\ n \in 0 .. Slashes(t, Len(t))
         /\ \A k \in 0 .. n : Place(t, k) = Place(s, k)
<1> DEFINE p == Place(s, n)
<1>1. /\ Len(s) \in Nat /\ Len(t) \in Nat
      /\ Slashes(s, Len(s)) \in Nat /\ Slashes(t, Len(t)) \in Nat
  BY SlashesGrow
<1>2. p \in 0 .. Len(s) /\ p \in 0 .. Len(t) /\ Slashes(s, p) = n
  <2>1. p \in 0 .. Len(s) /\ Slashes(s, p) = n BY PlaceThere
  <2>2. QED BY <1>1, <2>1 DEF Agree
<1>3. ASSUME NEW i \in 0 .. p PROVE Slashes(t, i) = Slashes(s, i)
  <2>1. {j \in 1 .. i : t[j] = "/"} = {j \in 1 .. i : s[j] = "/"}
    BY <1>1, <1>2 DEF Agree
  <2>2. QED BY <2>1 DEF Slashes
<1>4. n \in 0 .. Slashes(t, Len(t))
  <2>1. Slashes(t, p) = n BY <1>1, <1>2, <1>3
  <2>2. Slashes(t, p) <= Slashes(t, Len(t)) BY <1>1, <1>2, SlashesGrow
  <2>3. QED BY <1>1, <2>1, <2>2
<1>5. ASSUME NEW k \in 0 .. n PROVE Place(t, k) = Place(s, k)
  <2>1. k \in 0 .. Slashes(s, Len(s)) /\ k \in 0 .. Slashes(t, Len(t))
    BY <1>1, <1>4
  <2>2. CASE k = 0 BY <2>1, <2>2, PlaceThere
  <2>3. CASE k # 0
    <3> DEFINE q == Place(s, k)
    <3>1. q \in 0 .. Len(s) /\ q # 0 /\ s[q] = "/" /\ Slashes(s, q) = k
      BY <2>1, <2>3, PlaceThere
    <3>2. q <= p
      <4>1. CASE p < q
        <5>1. p \in 0 .. q /\ q \in Nat BY <1>1, <1>2, <3>1, <4>1
        <5>2. Slashes(s, p) < Slashes(s, q) BY <3>1, <4>1, <5>1, SlashesGrow
        <5>3. QED BY <1>1, <1>2, <3>1, <5>2
      <4>2. QED BY <1>1, <1>2, <3>1, <4>1
    <3>3. q \in 1 .. Len(t) /\ q \in 0 .. p /\ q \in 1 .. p
      BY <1>1, <1>2, <3>1, <3>2
    <3>4. t[q] = "/" /\ Slashes(t, q) = k BY <1>3, <3>1, <3>3 DEF Agree
    <3>5. QED BY <3>3, <3>4, PlaceOnly
  <2>4. QED BY <2>2, <2>3
<1>6. QED BY <1>4, <1>5

LEMMA SameSegments ==
  ASSUME NEW s \in Seq(Character), NEW t \in Seq(Character),
         NEW n \in 0 .. Slashes(s, Len(s)), Agree(s, t, Place(s, n))
  PROVE  \A k \in 1 .. n : Segment(t, k) = Segment(s, k)
<1> SUFFICES ASSUME NEW k \in 1 .. n PROVE Segment(t, k) = Segment(s, k) OBVIOUS
<1>1. /\ Len(s) \in Nat /\ Len(t) \in Nat
      /\ Slashes(s, Len(s)) \in Nat /\ Slashes(t, Len(t)) \in Nat
  BY SlashesGrow
<1>2. n \in 0 .. Slashes(t, Len(t)) /\ \A j \in 0 .. n : Place(t, j) = Place(s, j)
  BY SamePlaces
<1>3. /\ k \in 1 .. Slashes(s, Len(s)) /\ k \in 1 .. Slashes(t, Len(t))
      /\ Place(t, k) = Place(s, k) /\ Place(t, k - 1) = Place(s, k - 1)
  BY <1>1, <1>2
<1>4. Place(s, k) <= Place(s, n)
  <2>1. /\ k \in 0 .. Slashes(s, Len(s))
        /\ Place(s, k) \in 0 .. Len(s) /\ Slashes(s, Place(s, k)) = k
        /\ s[Place(s, k)] = "/"
    BY <1>1, <1>3, PlaceThere
  <2>2. Place(s, n) \in 0 .. Len(s) /\ Slashes(s, Place(s, n)) = n BY PlaceThere
  <2>3. CASE Place(s, n) < Place(s, k)
    <3>1. Place(s, n) \in 0 .. Place(s, k) /\ Place(s, k) \in Nat
      BY <1>1, <2>1, <2>2, <2>3
    <3>2. Slashes(s, Place(s, n)) < Slashes(s, Place(s, k))
      BY <2>1, <2>3, <3>1, SlashesGrow
    <3>3. QED BY <1>1, <2>1, <2>2, <3>2
  <2>4. QED BY <1>1, <2>1, <2>2, <2>3
<1>5. /\ Place(s, k - 1) \in 0 .. Len(s) /\ Place(s, k) \in 1 .. Len(s)
      /\ Place(s, k - 1) < Place(s, k) /\ Place(s, n) \in 0 .. Len(s)
  BY <1>3, PlacesGrow, PlaceThere
<1> DEFINE d == Place(s, k) - 1 - Place(s, k - 1)
<1>6. /\ Segment(s, k) \in Seq(Character) /\ Len(Segment(s, k)) = d
      /\ \A i \in 1 .. d : Segment(s, k)[i] = s[Place(s, k - 1) + i]
  BY <1>3, SegmentIs
<1>7. /\ Segment(t, k) \in Seq(Character) /\ Len(Segment(t, k)) = d
      /\ \A i \in 1 .. d : Segment(t, k)[i] = t[Place(s, k - 1) + i]
  BY <1>3, SegmentIs
<1>8. \A i \in 1 .. d : s[Place(s, k - 1) + i] = t[Place(s, k - 1) + i]
  BY <1>1, <1>4, <1>5 DEF Agree
<1> HIDE DEF d
<1>9. QED BY <1>6, <1>7, <1>8, SeqEqual

LEMMA SegmentsTell ==
  ASSUME NEW s \in Seq(Character), NEW t \in Seq(Character),
         NEW n \in 0 .. Slashes(s, Len(s)), n <= Slashes(t, Len(t)),
         \A k \in 1 .. n : Segment(t, k) = Segment(s, k)
  PROVE  Agree(s, t, Place(s, n)) /\ Place(t, n) = Place(s, n)
<1>1. /\ Len(s) \in Nat /\ Len(t) \in Nat /\ n \in Nat
      /\ Slashes(s, Len(s)) \in Nat /\ Slashes(t, Len(t)) \in Nat
  BY SlashesGrow
<1>2. \A k \in 0 .. n : Place(t, k) = Place(s, k)
  <2> DEFINE T == {k \in 0 .. n : \A j \in 0 .. k : Place(t, j) = Place(s, j)}
  <2>1. 0 \in T
    <3>1. 0 \in 0 .. Slashes(s, Len(s)) /\ 0 \in 0 .. Slashes(t, Len(t)) BY <1>1
    <3>2. Place(s, 0) = 0 /\ Place(t, 0) = 0 BY <3>1, PlaceThere
    <3>3. QED BY <1>1, <3>2
  <2>2. PICK x \in T : \A y \in T : y <= x
    <3>1. T \subseteq 0 .. n /\ T # {} BY <2>1
    <3> HIDE DEF T
    <3>2. QED BY <1>1, <3>1, Greatest
  <2>3. CASE x < n
    <3>1. /\ x + 1 \in 1 .. n /\ (x + 1) - 1 = x /\ x \in 0 .. x
          /\ x + 1 \in 1 .. Slashes(s, Len(s)) /\ x + 1 \in 1 .. Slashes(t, Len(t))
      BY <1>1, <2>3
    <3>2. Len(Segment(s, x + 1)) = Place(s, x + 1) - 1 - Place(s, x)
      BY <3>1, SegmentIs
    <3>3. Len(Segment(t, x + 1)) = Place(t, x + 1) - 1 - Place(t, x)
      BY <3>1, SegmentIs
    <3>4. Place(s, x) = Place(t, x) /\ Segment(t, x + 1) = Segment(s, x + 1)
      BY <3>1
    <3>5. /\ Place(s, x) \in 0 .. Len(s) /\ Place(s, x + 1) \in 1 .. Len(s)
          /\ Place(t, x + 1) \in 1 .. Len(t)
      BY <3>1, PlacesGrow
    <3>6. Place(t, x + 1) = Place(s, x + 1)
      <4>1. Place(s, x + 1) - 1 - Place(s, x) = Place(t, x + 1) - 1 - Place(s, x)
        BY <3>2, <3>3, <3>4
      <4>2. QED BY <1>1, <3>5, <4>1
    <3>7. x + 1 \in T
      <4>1. \A j \in 0 .. x + 1 : j \in 0 .. x \/ j = x + 1 BY <1>1
      <4>2. QED BY <3>1, <3>6, <4>1
    <3>8. QED BY <1>1, <2>2, <3>7
  <2>4. CASE x = n BY <2>4
  <2>5. QED BY <1>1, <2>3, <2>4
<1>3. Place(t, n) = Place(s, n) BY <1>1, <1>2
<1>4. Place(s, n) \in 0 .. Len(s) /\ Place(s, n) <= Len(t)
  <2>1. n \in 0 .. Slashes(t, Len(t)) BY <1>1
  <2>2. QED BY <1>1, <1>3, <2>1, PlaceThere
<1>5. ASSUME NEW i \in 1 .. Place(s, n) PROVE s[i] = t[i]
  <2>1. n # 0
    <3>1. n = 0 => Place(s, n) = 0 BY PlaceThere
    <3>2. QED BY <3>1
  <2>2. n \in 1 .. Slashes(s, Len(s)) /\ n \in 1 .. Slashes(t, Len(t)) BY <1>1, <2>1
  <2>3. CASE s[i] = "/"
    <3>1. PICK k \in 1 .. n : i = Place(s, k) BY <2>2, <2>3, Located
    <3>2. k \in 0 .. Slashes(t, Len(t)) /\ k # 0 /\ Place(t, k) = i
      BY <1>1, <1>2, <3>1
    <3>3. QED BY <2>3, <3>2, PlaceThere
  <2>4. CASE s[i] # "/"
    <3>1. PICK k \in 1 .. n : Place(s, k - 1) < i /\ i < Place(s, k)
      BY <2>2, <2>4, Located
    <3>2. /\ k \in 1 .. Slashes(s, Len(s)) /\ k \in 1 .. Slashes(t, Len(t))
          /\ Place(t, k) = Place(s, k) /\ Place(t, k - 1) = Place(s, k - 1)
      BY <1>1, <1>2
    <3>3. /\ Place(s, k - 1) \in 0 .. Len(s) /\ Place(s, k) \in 1 .. Len(s)
      BY <3>2, PlacesGrow
    <3> DEFINE j == i - Place(s, k - 1)
    <3>4. j \in 1 .. Place(s, k) - 1 - Place(s, k - 1) /\ Place(s, k - 1) + j = i
      BY <1>1, <1>4, <3>1, <3>3
    <3>5. Segment(s, k)[j] = s[i] BY <3>2, <3>4, SegmentIs
    <3>6. Segment(t, k)[j] = t[i]
      <4>1. \A m \in 1 .. Place(t, k) - 1 - Place(t, k - 1) :
              Segment(t, k)[m] = t[Place(t, k - 1) + m]
        BY <3>2, SegmentIs
      <4>2. QED BY <3>2, <3>4, <4>1
    <3>7. QED BY <3>5, <3>6
  <2>5. QED BY <2>3, <2>4
<1>6. QED BY <1>3, <1>4, <1>5 DEF Agree

-----------------------------------------------------------------------------
\* The segments of a channel are those of the string that a slash ends.
Ended(s) == Append(s, "/")
Count(s) == Slashes(Ended(s), Len(Ended(s)))

LEMMA EndedIs ==
  ASSUME NEW s \in Seq(Character)
  PROVE  /\ Ended(s) \in Seq(Character) /\ Len(Ended(s)) = Len(s) + 1
         /\ Ended(s)[Len(s) + 1] = "/" /\ \A i \in 1 .. Len(s) : Ended(s)[i] = s[i]
         /\ Count(s) = Slashes(s, Len(s)) + 1 /\ Slashes(s, Len(s)) \in Nat
         /\ Place(Ended(s), Count(s)) = Len(s) + 1
<1> DEFINE e == Ended(s)
<1>1. /\ e \in Seq(Character) /\ Len(e) = Len(s) + 1 /\ Len(s) \in Nat
      /\ e[Len(s) + 1] = "/" /\ \A i \in 1 .. Len(s) : e[i] = s[i]
  <2>1. "/" \in Character BY DEF Character
  <2>2. QED BY <2>1, AppendProperties DEF Ended
<1>2. Slashes(e, Len(s)) = Slashes(s, Len(s)) /\ Slashes(s, Len(s)) \in Nat
  <2>1. {j \in 1 .. Len(s) : e[j] = "/"} = {j \in 1 .. Len(s) : s[j] = "/"} BY <1>1
  <2>2. QED BY <1>1, <2>1, SlashesStep DEF Slashes
<1>3. Count(s) = Slashes(s, Len(s)) + 1
  <2> HIDE DEF e
  <2>1. Slashes(e, Len(s) + 1) = Slashes(e, Len(s)) + 1 BY <1>1, SlashesStep
  <2>2. Count(s) = Slashes(e, Len(s) + 1) BY <1>1 DEF Count, e
  <2>3. QED BY <1>2, <2>1, <2>2
<1>4. Place(e, Count(s)) = Len(s) + 1
  <2>1. Len(s) + 1 \in 1 .. Len(e) BY <1>1
  <2>2. Place(e, Slashes(e, Len(s) + 1)) = Len(s) + 1
    <3> HIDE DEF e
    <3>1. QED BY <1>1, <2>1, PlaceOnly
  <2>3. QED BY <1>1, <2>2 DEF Count
<1>5. QED BY <1>1, <1>2, <1>3, <1>4

\* There are as many segments as slashes then.
LEMMA SegmentsIs ==
  ASSUME NEW s \in Seq(Character)
  PROVE  /\ Count(s) \in Nat \ {0}
         /\ Segments(s) = [k \in 1 .. Count(s) |-> Segment(Ended(s), k)]
         /\ Len(Segments(s)) = Count(s)
         /\ Last(Segments(s)) = Segment(Ended(s), Count(s))
<1>1. Count(s) \in Nat \ {0} BY EndedIs
<1>2. Segments(s) = [k \in 1 .. Count(s) |-> Segment(Ended(s), k)]
  BY DEF Segments, Count, Ended
<1>3. Len(Segments(s)) = Count(s) BY <1>1, <1>2
<1>4. Segments(s)[Count(s)] = Segment(Ended(s), Count(s)) BY <1>1, <1>2
<1>5. QED BY <1>1, <1>2, <1>3, <1>4 DEF Last

\* A channel is determined by its segments.
LEMMA SegmentsInjective ==
  ASSUME NEW s \in Seq(Character), NEW t \in Seq(Character),
         Segments(s) = Segments(t)
  PROVE  s = t
<1> DEFINE e == Ended(s)
           f == Ended(t)
           n == Count(s)
<1>1. /\ e \in Seq(Character) /\ Len(e) = Len(s) + 1 /\ Len(s) \in Nat
      /\ f \in Seq(Character) /\ Len(f) = Len(t) + 1 /\ Len(t) \in Nat
      /\ \A i \in 1 .. Len(s) : e[i] = s[i]
      /\ \A i \in 1 .. Len(t) : f[i] = t[i]
  <2>1. Len(s) \in Nat /\ Len(t) \in Nat OBVIOUS
  <2>2. e \in Seq(Character) /\ Len(e) = Len(s) + 1 /\ \A i \in 1 .. Len(s) : e[i] = s[i]
    BY EndedIs
  <2>3. f \in Seq(Character) /\ Len(f) = Len(t) + 1 /\ \A i \in 1 .. Len(t) : f[i] = t[i]
    BY EndedIs
  <2>4. QED BY <2>1, <2>2, <2>3
<1>2. n = Count(t) /\ n \in Nat BY SegmentsIs
<1>3. n \in 0 .. Slashes(e, Len(e)) /\ n <= Slashes(f, Len(f)) BY <1>2 DEF Count
<1>4. \A k \in 1 .. n : Segment(f, k) = Segment(e, k)
  <2>1. /\ Segments(s) = [k \in 1 .. n |-> Segment(e, k)]
        /\ Segments(t) = [k \in 1 .. n |-> Segment(f, k)]
    BY <1>2, SegmentsIs
  <2> HIDE DEF n, e, f
  <2>2. \A k \in 1 .. n : Segments(s)[k] = Segment(e, k) /\ Segments(t)[k] = Segment(f, k)
    BY <2>1
  <2>3. QED BY <2>2
<1>5. Place(e, n) = Len(s) + 1 /\ Place(f, n) = Len(t) + 1 BY <1>2, EndedIs
<1> HIDE DEF n, e, f
<1>6. Agree(e, f, Place(e, n)) /\ Place(f, n) = Place(e, n)
  BY <1>1, <1>3, <1>4, SegmentsTell
<1>7. Len(s) = Len(t) BY <1>1, <1>5, <1>6
<1>8. \A i \in 1 .. Len(s) : s[i] = t[i] BY <1>1, <1>5, <1>6, <1>7 DEF Agree
<1>9. QED BY <1>7, <1>8, SeqEqual

\* The last of them is what is after the last slash.
LEMMA LastIs ==
  ASSUME NEW s \in Seq(Character), Contains(s, "/")
  PROVE  /\ Count(s) \in Nat /\ Count(s) - 1 \in 1 .. Count(s)
         /\ Place(Ended(s), Count(s) - 1) = LastSlash(s)
         /\ Last(Segments(s)) = LastSegment(s)
<1> DEFINE e == Ended(s)
           k == LastSlash(s)
           c == Slashes(e, k)
<1>1. /\ e \in Seq(Character) /\ Len(e) = Len(s) + 1 /\ Len(s) \in Nat
      /\ \A i \in 1 .. Len(s) : e[i] = s[i]
      /\ Count(s) = Slashes(s, Len(s)) + 1 /\ Slashes(s, Len(s)) \in Nat
      /\ Place(e, Count(s)) = Len(s) + 1
  BY EndedIs
<1>2. /\ k \in 1 .. Len(s) /\ s[k] = "/"
      /\ \A j \in k + 1 .. Len(s) : s[j] # "/"
  BY LastSlashThere
<1>3. c \in 1 .. Slashes(e, Len(e)) /\ Place(e, c) = k
  <2>1. k \in 1 .. Len(e) /\ e[k] = "/" BY <1>1, <1>2
  <2> HIDE DEF e, k
  <2>2. QED BY <1>1, <2>1, PlaceOnly
<1>4. c = Slashes(s, Len(s))
  <2>1. {j \in 1 .. k : e[j] = "/"} = {j \in 1 .. Len(s) : s[j] = "/"}
    BY <1>1, <1>2
  <2>2. QED BY <2>1 DEF Slashes
<1>5. Count(s) - 1 = c /\ c \in 1 .. Count(s) BY <1>1, <1>3, <1>4
<1>6. Last(Segments(s)) = SubSeq(e, k + 1, Len(s))
  <2>1. (Len(s) + 1) - 1 = Len(s) BY <1>1
  <2>2. Place(e, Count(s) - 1) = k BY <1>3, <1>5
  <2> HIDE DEF k, c
  <2>3. Last(Segments(s)) = SubSeq(e, k + 1, (Len(s) + 1) - 1)
    BY <1>1, <2>2, SegmentsIs DEF Segment
  <2>4. QED BY <2>1, <2>3
<1>7. SubSeq(e, k + 1, Len(s)) = SubSeq(s, k + 1, Len(s))
  <2> HIDE DEF e, k
  <2>1. \A i \in k + 1 .. Len(s) : e[i] = s[i] /\ s[i] \in Character BY <1>1, <1>2
  <2>2. k + 1 \in Int /\ Len(s) \in Int BY <1>1, <1>2
  <2> DEFINE a == SubSeq(e, k + 1, Len(s))
             b == SubSeq(s, k + 1, Len(s))
             d == IF k + 1 <= Len(s) THEN Len(s) - (k + 1) + 1 ELSE 0
  <2>3. a \in Seq(Character) /\ Len(a) = d
        /\ \A i \in 1 .. Len(s) - (k + 1) + 1 : a[i] = e[(k + 1) + i - 1]
    BY <2>1, <2>2, SubSeqProperties
  <2>4. b \in Seq(Character) /\ Len(b) = d
        /\ \A i \in 1 .. Len(s) - (k + 1) + 1 : b[i] = s[(k + 1) + i - 1]
    BY <2>1, <2>2, SubSeqProperties
  <2>5. \A i \in 1 .. d : /\ i \in 1 .. Len(s) - (k + 1) + 1
                          /\ (k + 1) + i - 1 \in k + 1 .. Len(s)
    BY <1>1, <1>2
  <2> HIDE DEF a, b, d
  <2>6. \A i \in 1 .. d : a[i] = b[i] BY <2>1, <2>3, <2>4, <2>5
  <2>7. a = b BY <2>3, <2>4, <2>6, SeqEqual
  <2>8. QED BY <2>7 DEF a, b
<1>8. Last(Segments(s)) = LastSegment(s) BY <1>6, <1>7 DEF LastSegment
<1>9. Place(e, Count(s) - 1) = k BY <1>3, <1>5
<1>10. Count(s) \in Nat /\ Count(s) - 1 \in 1 .. Count(s) BY <1>1, <1>5
<1>11. QED BY <1>8, <1>9, <1>10

-----------------------------------------------------------------------------
\* A channel has the segments of the pattern before its last one, and one more at
\* least, if the two agree up to the pattern's last slash.
Below(s, t) ==
  /\ Len(Segments(s)) <= Len(Segments(t))
  /\ \A i \in 1 .. Len(Segments(s)) - 1 : Segments(s)[i] = Segments(t)[i]

LEMMA BelowIsAgree ==
  ASSUME NEW s \in Seq(Character), NEW t \in Seq(Character), Contains(s, "/")
  PROVE  /\ Below(s, t) <=> Agree(s, t, LastSlash(s))
         /\ Below(s, t) => Slashes(t, LastSlash(s)) = Count(s) - 1
<1> DEFINE e == Ended(s)
           f == Ended(t)
           k == LastSlash(s)
           m == Count(s) - 1
<1>1. Len(s) \in Nat /\ Len(t) \in Nat /\ k \in 1 .. Len(s) BY LastSlashThere
<1>2. /\ e \in Seq(Character) /\ Len(e) = Len(s) + 1
      /\ \A i \in 1 .. Len(s) : e[i] = s[i]
  BY EndedIs
<1>3. /\ f \in Seq(Character) /\ Len(f) = Len(t) + 1
      /\ \A i \in 1 .. Len(t) : f[i] = t[i]
      /\ Place(f, Count(t)) = Len(t) + 1
  BY EndedIs
<1>4. Count(s) \in Nat \ {0} /\ Count(t) \in Nat \ {0} BY SegmentsIs
<1>5. m \in 1 .. Count(s) /\ Place(e, m) = k BY LastIs
<1>6. m \in 0 .. Slashes(e, Len(e)) BY <1>4, <1>5 DEF Count
<1>7. /\ Len(Segments(s)) = Count(s) /\ Len(Segments(t)) = Count(t)
      /\ \A i \in 1 .. Count(s) : Segments(s)[i] = Segment(e, i)
      /\ \A i \in 1 .. Count(t) : Segments(t)[i] = Segment(f, i)
  BY SegmentsIs
<1>8. Below(s, t) <=>
        m + 1 <= Count(t) /\ \A i \in 1 .. m : Segment(f, i) = Segment(e, i)
  <2>1. m + 1 = Count(s) BY <1>4
  <2> HIDE DEF e, f
  <2>2. ASSUME m + 1 <= Count(t), NEW i \in 1 .. m
        PROVE  Segments(s)[i] = Segment(e, i) /\ Segments(t)[i] = Segment(f, i)
    <3>1. i \in 1 .. Count(s) /\ i \in 1 .. Count(t) BY <1>4, <2>1, <2>2
    <3>2. QED BY <1>7, <3>1
  <2>3. Below(s, t) <=>
          Count(s) <= Count(t) /\ \A i \in 1 .. m : Segments(s)[i] = Segments(t)[i]
    BY <1>7 DEF Below
  <2> HIDE DEF m
  <2>4. QED BY <2>1, <2>2, <2>3
<1> HIDE DEF e, f, k, m
<1>9. ASSUME Below(s, t) PROVE Agree(s, t, k) /\ Slashes(t, k) = m
  <2>1. m <= Slashes(f, Len(f)) BY <1>4, <1>5, <1>8, <1>9 DEF Count, f
  <2>2. Agree(e, f, k) /\ Place(f, m) = k
    BY <1>2, <1>3, <1>5, <1>6, <1>8, <1>9, <2>1, SegmentsTell
  <2>3. Place(f, m) < Place(f, m + 1) /\ Place(f, m + 1) <= Len(t) + 1
    <3>1. m + 1 \in 1 .. Slashes(f, Len(f)) /\ (m + 1) - 1 = m
      BY <1>4, <1>5, <1>8, <1>9 DEF Count, f
    <3>2. /\ Place(f, (m + 1) - 1) < Place(f, m + 1)
          /\ Place(f, m + 1) \in 1 .. Len(f)
      BY <1>3, <3>1, PlacesGrow
    <3>3. QED BY <1>1, <1>3, <3>1, <3>2
  <2>4. k <= Len(t)
    <3>1. Place(f, m + 1) \in Nat
      <4>1. m + 1 \in 1 .. Slashes(f, Len(f))
        BY <1>4, <1>5, <1>8, <1>9 DEF Count, f
      <4>2. Place(f, m + 1) \in 1 .. Len(f) BY <1>3, <4>1, PlacesGrow
      <4>3. QED BY <1>1, <1>3, <4>2
    <3>2. QED BY <1>1, <2>2, <2>3, <3>1
  <2>5. \A i \in 1 .. k : s[i] = t[i]
    <3>1. \A i \in 1 .. k : e[i] = f[i] BY <2>2 DEF Agree
    <3>2. \A i \in 1 .. k : i \in 1 .. Len(s) /\ i \in 1 .. Len(t) BY <1>1, <2>4
    <3>3. QED BY <1>2, <1>3, <3>1, <3>2
  <2>6. Slashes(t, k) = m
    <3>1. m \in 0 .. Slashes(f, Len(f)) BY <1>4, <1>5, <2>1 DEF Count, f
    <3>2. Slashes(f, k) = m BY <1>3, <2>2, <3>1, PlaceThere
    <3>3. {j \in 1 .. k : f[j] = "/"} = {j \in 1 .. k : t[j] = "/"}
      BY <1>1, <1>3, <2>4
    <3>4. QED BY <3>2, <3>3 DEF Slashes
  <2>7. QED BY <2>4, <2>5, <2>6 DEF Agree
<1>10. ASSUME Agree(s, t, k) PROVE Below(s, t)
  <2>1. k <= Len(t) /\ \A i \in 1 .. k : s[i] = t[i] BY <1>10 DEF Agree
  <2>2. Agree(e, f, Place(e, m)) BY <1>1, <1>2, <1>3, <1>5, <2>1 DEF Agree
  <2>3. m \in 0 .. Slashes(f, Len(f)) /\ Place(f, m) = k
    <3>1. m \in 0 .. m BY <1>5
    <3>2. QED BY <1>2, <1>3, <1>5, <1>6, <2>2, <3>1, SamePlaces
  <2>4. \A i \in 1 .. m : Segment(f, i) = Segment(e, i)
    BY <1>2, <1>3, <1>6, <2>2, SameSegments
  <2>5. m # Count(t) BY <1>1, <1>3, <2>1, <2>3
  <2>6. m + 1 <= Count(t) BY <1>4, <1>5, <2>3, <2>5 DEF Count, f
  <2>7. QED BY <1>8, <2>4, <2>6
<1>11. QED BY <1>9, <1>10 DEF k, m

\* It has exactly one more if no slash follows.
LEMMA OneMore ==
  ASSUME NEW s \in Seq(Character), NEW t \in Seq(Character), Contains(s, "/"),
         Below(s, t)
  PROVE  Len(Segments(s)) = Len(Segments(t)) <=>
           \A j \in LastSlash(s) + 1 .. Len(t) : t[j] # "/"
<1> DEFINE k == LastSlash(s)
<1>1. /\ Len(s) \in Nat /\ Len(t) \in Nat /\ k \in 1 .. Len(s) /\ k <= Len(t)
      /\ Slashes(t, k) = Count(s) - 1
  BY LastSlashThere, BelowIsAgree DEF Agree
<1>2. /\ Len(Segments(s)) = Count(s) /\ Count(s) \in Nat
      /\ Len(Segments(t)) = Count(t) /\ Count(t) = Slashes(t, Len(t)) + 1
      /\ Slashes(t, Len(t)) \in Nat
  BY SegmentsIs, EndedIs
<1> HIDE DEF k
<1>3. ASSUME \A j \in k + 1 .. Len(t) : t[j] # "/" PROVE Count(t) = Count(s)
  <2>1. {j \in 1 .. Len(t) : t[j] = "/"} = {j \in 1 .. k : t[j] = "/"}
    BY <1>1, <1>3
  <2>2. Slashes(t, Len(t)) = Slashes(t, k) BY <2>1 DEF Slashes
  <2>3. QED BY <1>1, <1>2, <2>2
<1>4. ASSUME NEW j \in k + 1 .. Len(t), t[j] = "/" PROVE Count(t) # Count(s)
  <2>1. j \in Nat /\ k \in 0 .. j /\ k < j /\ j \in 0 .. Len(t) BY <1>1
  <2>2. Slashes(t, k) < Slashes(t, j) /\ Slashes(t, j) \in Nat
    BY <1>4, <2>1, SlashesGrow
  <2>3. Slashes(t, j) <= Slashes(t, Len(t)) BY <1>1, <2>1, SlashesGrow
  <2>4. QED BY <1>1, <1>2, <2>2, <2>3
<1>5. QED BY <1>2, <1>3, <1>4 DEF k

\* Agreement is the directory with a rest.
LEMMA AgreeIsRest ==
  ASSUME NEW s \in Seq(Character), NEW t \in Seq(Character), Contains(s, "/")
  PROVE  /\ Agree(s, t, LastSlash(s)) =>
              LET r == SubSeq(t, LastSlash(s) + 1, Len(t)) IN
              r \in Seq(Character) /\ t = Directory(s) \o r
         /\ \A r \in Seq(Character) : t = Directory(s) \o r =>
              /\ Agree(s, t, LastSlash(s))
              /\ r = SubSeq(t, LastSlash(s) + 1, Len(t))
<1> DEFINE k == LastSlash(s)
<1>1. /\ Len(s) \in Nat /\ Len(t) \in Nat /\ k \in 1 .. Len(s) BY LastSlashThere
<1>2. /\ Directory(s) \in Seq(Character) /\ Len(Directory(s)) = k
      /\ \A i \in 1 .. k : Directory(s)[i] = s[i]
  BY <1>1 DEF Directory
<1>3. ASSUME Agree(s, t, k)
      PROVE  /\ SubSeq(t, k + 1, Len(t)) \in Seq(Character)
             /\ t = Directory(s) \o SubSeq(t, k + 1, Len(t))
  <2> HIDE DEF k
  <2>1. k <= Len(t) /\ \A i \in 1 .. k : s[i] = t[i] BY <1>3 DEF Agree
  <2>2. /\ SubSeq(t, 1, k) \in Seq(Character) /\ Len(SubSeq(t, 1, k)) = k
        /\ \A i \in 1 .. k : SubSeq(t, 1, k)[i] = t[i]
    BY <1>1, <2>1
  <2>3. SubSeq(t, 1, k) = Directory(s)
    <3>1. \A i \in 1 .. k : SubSeq(t, 1, k)[i] = Directory(s)[i]
      BY <1>2, <2>1, <2>2
    <3>2. QED BY <1>2, <2>2, <3>1, SeqEqual
  <2>4. SubSeq(t, 1, k) \o SubSeq(t, k + 1, Len(t)) = t
    <3>1. /\ 1 \in 1 .. Len(t) + 1 /\ k \in 1 - 1 .. Len(t)
          /\ Len(t) \in k .. Len(t)
      BY <1>1, <2>1
    <3>2. SubSeq(t, 1, Len(t)) = t BY SubSeqFull
    <3>3. QED BY <3>1, <3>2, ConcatAdjacentSubSeq
  <2>5. SubSeq(t, k + 1, Len(t)) \in Seq(Character) BY <1>1, <2>1
  <2>6. QED BY <2>3, <2>4, <2>5
<1>4. ASSUME NEW r \in Seq(Character), t = Directory(s) \o r
      PROVE  Agree(s, t, k) /\ r = SubSeq(t, k + 1, Len(t))
  <2> HIDE DEF k
  <2>1. Len(t) = k + Len(r) /\ Len(r) \in Nat
    <3>1. Len(Directory(s) \o r) = Len(Directory(s)) + Len(r)
      BY <1>2, ConcatProperties
    <3>2. Len(r) \in Nat OBVIOUS
    <3>3. QED BY <1>2, <1>4, <3>1, <3>2
  <2>2. \A i \in 1 .. k : t[i] = Directory(s)[i] BY <1>1, <1>2, <1>4
  <2>3. Agree(s, t, k) BY <1>1, <1>2, <2>1, <2>2 DEF Agree
  <2>4. SubSeq(t, k + 1, Len(t)) = r BY <1>1, <1>2, <1>4, <2>1
  <2>5. QED BY <2>3, <2>4
<1>5. QED BY <1>3, <1>4

\* What Matches asks for, by the last segment of the pattern.
LEMMA MatchesCases ==
  ASSUME NEW s, NEW t
  PROVE  /\ Last(Segments(s)) = <<"*">> =>
              (Matches(s, t) <=>
                 Below(s, t) /\ Len(Segments(s)) = Len(Segments(t)))
         /\ Last(Segments(s)) = <<"*", "*">> => (Matches(s, t) <=> Below(s, t))
         /\ Last(Segments(s)) \notin {<<"*">>, <<"*", "*">>} =>
              (Matches(s, t) <=>
                 ~ HasWildcard(s) /\ Segments(s) = Segments(t))
<1>1. <<"*">> # <<"*", "*">> OBVIOUS
<1>2. CASE Last(Segments(s)) = <<"*">> BY <1>1, <1>2 DEF Matches, Below
<1>3. CASE Last(Segments(s)) = <<"*", "*">> BY <1>1, <1>3 DEF Matches, Below
<1>4. CASE Last(Segments(s)) \notin {<<"*">>, <<"*", "*">>} BY <1>4 DEF Matches
<1>5. QED BY <1>1, <1>2, <1>3, <1>4

\* The splits of a string are what its segments say the wildcard stands for.
LEMMA SplitIsMatches ==
  ASSUME NEW s \in Seq(Character), NEW t \in Seq(Character), Contains(s, "/"),
         HasWildcard(s)
  PROVE  Split(s, t) <=> Matches(s, t)
<1> DEFINE k == LastSlash(s)
           rest == SubSeq(t, k + 1, Len(t))
           one == Last(Segments(s)) = <<"*">>
           more == Last(Segments(s)) = <<"*", "*">>
           same == Len(Segments(s)) = Len(Segments(t))
<1>1. Last(Segments(s)) = LastSegment(s) BY LastIs
<1>2. Below(s, t) <=> Agree(s, t, k) BY BelowIsAgree
<1>3. Split(s, t) <=>
        Agree(s, t, k) /\ ((one /\ ~ Contains(rest, "/")) \/ more)
  <2> HIDE DEF k
  <2>1. ASSUME Split(s, t)
        PROVE  Agree(s, t, k) /\ ((one /\ ~ Contains(rest, "/")) \/ more)
    <3>1. PICK r \in Seq(Character) :
            /\ t = Directory(s) \o r
            /\ \/ LastSegment(s) = <<"*">> /\ ~ Contains(r, "/")
               \/ LastSegment(s) = <<"*", "*">>
      BY <2>1 DEF Split
    <3>2. Agree(s, t, k) /\ r = rest BY <3>1, AgreeIsRest DEF k
    <3>3. QED BY <1>1, <3>1, <3>2
  <2>2. ASSUME Agree(s, t, k), (one /\ ~ Contains(rest, "/")) \/ more
        PROVE  Split(s, t)
    <3>1. rest \in Seq(Character) /\ t = Directory(s) \o rest
      BY <2>2, AgreeIsRest DEF k
    <3> HIDE DEF rest
    <3>2. QED BY <1>1, <2>2, <3>1 DEF Split
  <2>3. QED BY <2>1, <2>2
<1>4. ASSUME Agree(s, t, k) PROVE ~ Contains(rest, "/") <=> same
  <2>1. k \in 1 .. Len(s) /\ Len(s) \in Nat /\ Len(t) \in Nat /\ k <= Len(t)
    BY <1>4, LastSlashThere DEF Agree
  <2>2. same <=> \A j \in k + 1 .. Len(t) : t[j] # "/" BY <1>2, <1>4, OneMore
  <2> HIDE DEF k, same
  <2>3. Len(rest) = Len(t) - k /\ \A i \in 1 .. Len(t) - k : rest[i] = t[k + i]
    BY <2>1
  <2>4. DOMAIN rest = 1 .. Len(t) - k BY <2>1
  <2> HIDE DEF rest
  <2>5. ASSUME Contains(rest, "/") PROVE ~ same
    <3>1. PICK i \in 1 .. Len(t) - k : rest[i] = "/" BY <2>3, <2>5 DEF Contains
    <3>2. t[k + i] = "/" /\ k + i \in k + 1 .. Len(t) BY <2>1, <2>3, <3>1
    <3>3. QED BY <2>2, <3>2
  <2>6. ASSUME ~ same PROVE Contains(rest, "/")
    <3>1. PICK j \in k + 1 .. Len(t) : t[j] = "/" BY <2>2, <2>6
    <3>2. j - k \in 1 .. Len(t) - k /\ k + (j - k) = j BY <2>1
    <3>3. rest[j - k] = "/" BY <2>3, <3>1, <3>2
    <3>4. QED BY <2>3, <3>2, <3>3 DEF Contains
  <2>7. QED BY <2>5, <2>6
<1>5. /\ one => (Matches(s, t) <=> Below(s, t) /\ same)
      /\ more => (Matches(s, t) <=> Below(s, t))
      /\ ~ one /\ ~ more => ~ Matches(s, t)
  BY MatchesCases
<1>6. ~ (one /\ more)
  <2>1. <<"*">> # <<"*", "*">> OBVIOUS
  <2>2. QED BY <2>1
<1> HIDE DEF k, rest, one, more, same
<1>7. QED BY <1>2, <1>3, <1>4, <1>5, <1>6

\* A string whose last segment is a wildcard ends with one.
LEMMA WildcardLast ==
  ASSUME NEW s \in Seq(Character), Contains(s, "/"),
         Last(Segments(s)) \in {<<"*">>, <<"*", "*">>}
  PROVE  HasWildcard(s)
<1> DEFINE k == LastSlash(s)
           l == LastSegment(s)
<1>1. k \in 1 .. Len(s) /\ Len(s) \in Nat BY LastSlashThere
<1>2. l = <<"*">> \/ l = <<"*", "*">> BY LastIs
<1>3. Len(l) = Len(s) - k /\ \A i \in 1 .. Len(s) - k : l[i] = s[k + i]
  <2> HIDE DEF k
  <2>1. QED BY <1>1 DEF LastSegment, k
<1>4. Len(l) \in 1 .. 2 /\ l[Len(l)] = "*"
  <2> HIDE DEF l
  <2>1. QED BY <1>2
<1> HIDE DEF k, l
<1>5. Len(s) - k \in 1 .. Len(s) - k /\ k + (Len(s) - k) = Len(s)
  BY <1>1, <1>3, <1>4
<1>6. s[Len(s)] = "*" BY <1>3, <1>4, <1>5
<1>7. QED BY <1>1, <1>6 DEF HasWildcard, Last

\* Match finds the channels of the wildcard's level, or of all levels below, and
\* no others, however long the two are (channel.go:98-138).
THEOREM ChannelMatchesBySegments == Spec => []MatchBySegments
<1>1. Strings => MatchBySegments
  <2> SUFFICES ASSUME Strings, IsValid(pattern), ~ Beside(pattern, other)
               PROVE  Match(pattern, other) = "yes" <=> Matches(pattern, other)
    BY DEF MatchBySegments
  <2>1. pattern \in Seq(Character) /\ other \in Seq(Character) BY DEF Strings
  <2>2. Contains(pattern, "/") BY <2>1 DEF IsValid, Contains
  <2>3. CASE HasWildcard(pattern)
    BY <2>1, <2>2, <2>3, MatchIsSplit, SplitIsMatches
  <2>4. CASE ~ HasWildcard(pattern)
    <3>1. Last(Segments(pattern)) \notin {<<"*">>, <<"*", "*">>}
      BY <2>1, <2>2, <2>4, WildcardLast
    <3>2. Matches(pattern, other) <=> Segments(pattern) = Segments(other)
      BY <2>4, <3>1, MatchesCases
    <3>3. Segments(pattern) = Segments(other) <=> pattern = other
      BY <2>1, SegmentsInjective
    <3>4. Match(pattern, other) = "yes" <=> pattern = other BY <2>4 DEF Match
    <3>5. QED BY <3>2, <3>3, <3>4
  <2>5. QED BY <2>3, <2>4
<1>2. QED BY <1>1, StringsType, PTL
=============================================================================
