---------------------------- MODULE ConfigProofs ----------------------------
(***************************************************************************)
(* What Config loads is what the file says over what was there, and a      *)
(* RELOAD keeps only what the new file leaves open, for every file and all *)
(* limits.                                                                 *)
(***************************************************************************)
EXTENDS Config, FiniteSetTheorems, TLAPS

-----------------------------------------------------------------------------
(* Keys and lines                                                          *)

LEMMA KeysApart ==
  /\ Section \notin Key /\ "CHANNEL" \notin Key /\ Section # "CHANNEL"
  /\ NetKey \subseteq Key /\ Inherited \subseteq NetKey
BY DEF Section, Key, NetKey, Inherited, Texts, Numbers, Flags, Words

LEMMA LineFields ==
  ASSUME NEW l \in Line
  PROVE  l.key \in Key \cup {"CHANNEL", Section, "none"} /\ l.text \in Text
BY DEF Line

(* The file when a line is added.                                           *)
LEMMA AppendLine ==
  ASSUME NEW t \in Seq(Line), NEW l \in Line
  PROVE  /\ Append(t, l) \in Seq(Line)
         /\ Len(t) \in Nat /\ Len(Append(t, l)) = Len(t) + 1
         /\ Append(t, l)[Len(t) + 1] = l
         /\ \A j \in 1 .. Len(t) : Append(t, l)[j] = t[j]
OBVIOUS

-----------------------------------------------------------------------------
(* Sections                                                                *)

LEMMA SectionsFinite ==
  ASSUME NEW t, NEW j \in Nat
  PROVE  /\ IsFiniteSet(Sections(t, j)) /\ Sections(t, j) \subseteq 1 .. j
         /\ Cardinality(Sections(t, j)) \in Nat
<1>1. Sections(t, j) \subseteq 1 .. j
  BY DEF Sections
<1>2. IsFiniteSet(1 .. j)
  BY FS_Interval
<1>3. IsFiniteSet(Sections(t, j))
  BY <1>1, <1>2, FS_Subset
<1> QED  BY <1>1, <1>3, FS_CardinalityType

LEMMA SectionsSame ==
  ASSUME NEW t \in Seq(Line), NEW l \in Line, NEW j \in 0 .. Len(t)
  PROVE  Sections(Append(t, l), j) = Sections(t, j)
<1>1. \A h \in 1 .. j : Append(t, l)[h] = t[h]
  BY AppendLine
<1> QED  BY <1>1 DEF Sections

LEMMA SectionsNext ==
  ASSUME NEW t \in Seq(Line), NEW l \in Line
  PROVE  Cardinality(Sections(Append(t, l), Len(t) + 1))
           = Cardinality(Sections(t, Len(t)))
               + (IF l.key = Section THEN 1 ELSE 0)
<1> DEFINE n == Len(t)
           u == Append(t, l)
<1>1. /\ n \in Nat /\ u[n + 1] = l /\ \A h \in 1 .. n : u[h] = t[h]
  BY AppendLine
<1>2. 1 .. n + 1 = (1 .. n) \cup {n + 1} /\ n + 1 \notin 1 .. n
  BY <1>1
<1> HIDE DEF n, u
<1>3. CASE l.key = Section
  <2>1. Sections(u, n + 1) = Sections(t, n) \cup {n + 1}
    BY <1>1, <1>2, <1>3 DEF Sections
  <2>2. n + 1 \notin Sections(t, n) /\ IsFiniteSet(Sections(t, n))
    BY <1>1, <1>2, SectionsFinite
  <2>3. Cardinality(Sections(u, n + 1)) = Cardinality(Sections(t, n)) + 1
    BY <2>1, <2>2, FS_AddElement
  <2> QED  BY <2>3, <1>3 DEF n, u
<1>4. CASE l.key # Section
  <2>1. Sections(u, n + 1) = Sections(t, n)
    BY <1>1, <1>2, <1>4 DEF Sections
  <2>2. Cardinality(Sections(t, n)) \in Nat
    BY <1>1, SectionsFinite
  <2> QED  BY <2>1, <2>2, <1>4 DEF n, u
<1> QED  BY <1>3, <1>4

LEMMA HomeSame ==
  ASSUME NEW t \in Seq(Line), NEW l \in Line, NEW j \in 0 .. Len(t)
  PROVE  HomeOf(Append(t, l), j) = HomeOf(t, j)
BY SectionsSame DEF HomeOf

(* A line that starts no section belongs where the reader is.               *)
LEMMA HomeNext ==
  ASSUME NEW t \in Seq(Line), NEW l \in Line, l.key # Section
  PROVE  HomeOf(Append(t, l), Len(t) + 1) = HomeOf(t, Len(t))
<1>1. Cardinality(Sections(Append(t, l), Len(t) + 1))
        = Cardinality(Sections(t, Len(t)))
  <2>1. Cardinality(Sections(t, Len(t))) \in Nat
    BY AppendLine, SectionsFinite
  <2> QED  BY <2>1, SectionsNext
<1> QED  BY <1>1 DEF HomeOf

-----------------------------------------------------------------------------
(* The lines that set a key                                                *)

(* A set of lines and one more.                                            *)
With(at, j) == at \cup {j}

LEMMA SettersIn ==
  ASSUME NEW t, NEW n, NEW home, NEW key
  PROVE  Setters(t, n, home, key) \subseteq 1 .. n
BY DEF Setters

LEMMA SetsSame ==
  ASSUME NEW t \in Seq(Line), NEW l \in Line, NEW j \in 1 .. Len(t),
         NEW home, NEW key
  PROVE  Sets(Append(t, l), j, home, key) <=> Sets(t, j, home, key)
<1>1. Append(t, l)[j] = t[j]
  BY AppendLine
<1>2. HomeOf(Append(t, l), j) = HomeOf(t, j)
  BY HomeSame, AppendLine
<1> QED  BY <1>1, <1>2 DEF Sets

LEMMA SettersSame ==
  ASSUME NEW t \in Seq(Line), NEW l \in Line, NEW n \in 0 .. Len(t),
         NEW home, NEW key
  PROVE  Setters(Append(t, l), n, home, key) = Setters(t, n, home, key)
<1>1. \A j \in 1 .. n :
        Sets(Append(t, l), j, home, key) <=> Sets(t, j, home, key)
  BY SetsSame, AppendLine
<1> QED  BY <1>1 DEF Setters

LEMMA SettersKept ==
  ASSUME NEW t \in Seq(Line), NEW l \in Line, NEW home, NEW key,
         ~Sets(Append(t, l), Len(t) + 1, home, key)
  PROVE  Setters(Append(t, l), Len(t) + 1, home, key)
           = Setters(t, Len(t), home, key)
<1>1. /\ Len(t) \in Nat
      /\ \A j \in 1 .. Len(t) :
           Sets(Append(t, l), j, home, key) <=> Sets(t, j, home, key)
  BY SetsSame, AppendLine
<1>2. 1 .. Len(t) + 1 = (1 .. Len(t)) \cup {Len(t) + 1}
  BY <1>1
<1> QED  BY <1>1, <1>2 DEF Setters

LEMMA SettersTaken ==
  ASSUME NEW t \in Seq(Line), NEW l \in Line, NEW home, NEW key,
         Sets(Append(t, l), Len(t) + 1, home, key)
  PROVE  Setters(Append(t, l), Len(t) + 1, home, key)
           = With(Setters(t, Len(t), home, key), Len(t) + 1)
<1>1. /\ Len(t) \in Nat
      /\ \A j \in 1 .. Len(t) :
           Sets(Append(t, l), j, home, key) <=> Sets(t, j, home, key)
  BY SetsSame, AppendLine
<1>2. 1 .. Len(t) + 1 = (1 .. Len(t)) \cup {Len(t) + 1}
  BY <1>1
<1> QED  BY <1>1, <1>2 DEF Setters, With

(* What the last line decides, and what it leaves.                          *)
LEMMA DecidesSame ==
  ASSUME NEW t \in Seq(Line), NEW l \in Line, NEW at, at \subseteq 1 .. Len(t),
         NEW v, NEW key
  PROVE  Decides(v, Append(t, l), at, key) <=> Decides(v, t, at, key)
<1>1. \A j \in at : Append(t, l)[j] = t[j]
  BY AppendLine
<1> QED  BY <1>1 DEF Decides

LEMMA DecidesLast ==
  ASSUME NEW t \in Seq(Line), NEW l \in Line, NEW at, at \subseteq 1 .. Len(t),
         NEW key
  PROVE  Decides(Meaning(key, l.text, ""), Append(t, l),
                 With(at, Len(t) + 1), key)
<1>1. Append(t, l)[Len(t) + 1] = l /\ Len(t) \in Nat
  BY AppendLine
<1>2. \A h \in at \cup {Len(t) + 1} : h <= Len(t) + 1
  BY <1>1
<1> QED  BY <1>1, <1>2 DEF Decides, With

LEMMA GlobalSame ==
  ASSUME NEW t \in Seq(Line), NEW l \in Line, NEW n \in 0 .. Len(t),
         NEW v, NEW old, NEW key
  PROVE  MeansGlobally(v, Append(t, l), n, old, key)
           <=> MeansGlobally(v, t, n, old, key)
<1>1. Setters(Append(t, l), n, 0, key) = Setters(t, n, 0, key)
  BY SettersSame
<1>2. Setters(t, n, 0, key) \subseteq 1 .. Len(t)
  BY SettersIn, AppendLine
<1>3. Decides(v, Append(t, l), Setters(t, n, 0, key), key)
        <=> Decides(v, t, Setters(t, n, 0, key), key)
  BY <1>2, DecidesSame
<1> QED  BY <1>1, <1>3 DEF MeansGlobally

LEMMA GlobalKept ==
  ASSUME NEW t \in Seq(Line), NEW l \in Line, NEW v, NEW old, NEW key,
         ~Sets(Append(t, l), Len(t) + 1, 0, key)
  PROVE  MeansGlobally(v, Append(t, l), Len(t) + 1, old, key)
           <=> MeansGlobally(v, t, Len(t), old, key)
<1>1. Setters(Append(t, l), Len(t) + 1, 0, key) = Setters(t, Len(t), 0, key)
  BY SettersKept
<1>2. Setters(t, Len(t), 0, key) \subseteq 1 .. Len(t)
  BY SettersIn
<1>3. Decides(v, Append(t, l), Setters(t, Len(t), 0, key), key)
        <=> Decides(v, t, Setters(t, Len(t), 0, key), key)
  BY <1>2, DecidesSame
<1> QED  BY <1>1, <1>3 DEF MeansGlobally

LEMMA GlobalTaken ==
  ASSUME NEW t \in Seq(Line), NEW l \in Line, NEW old, NEW key,
         Sets(Append(t, l), Len(t) + 1, 0, key)
  PROVE  MeansGlobally(Meaning(key, l.text, ""), Append(t, l), Len(t) + 1,
                       old, key)
<1> DEFINE at == Setters(t, Len(t), 0, key)
<1>1. Setters(Append(t, l), Len(t) + 1, 0, key) = With(at, Len(t) + 1)
  BY SettersTaken
<1>2. at \subseteq 1 .. Len(t)
  BY SettersIn
<1> HIDE DEF at
<1>3. Decides(Meaning(key, l.text, ""), Append(t, l),
              With(at, Len(t) + 1), key)
  BY <1>2, DecidesLast
<1>4. With(at, Len(t) + 1) # {}
  BY DEF With
<1> QED  BY <1>1, <1>3, <1>4 DEF MeansGlobally

-----------------------------------------------------------------------------
(* Keys of sections                                                        *)

LEMMA StartsKept ==
  ASSUME NEW t \in Seq(Line), NEW l \in Line, NEW s, NEW p \in Starts(t, s)
  PROVE  p \in Starts(Append(t, l), s) /\ p \in 1 .. Len(t)
<1>1. /\ p \in 1 .. Len(t) /\ t[p].key = Section
      /\ Cardinality(Sections(t, p)) = s
  BY DEF Starts, Sections
<1>2. /\ p \in 1 .. Len(Append(t, l)) /\ Append(t, l)[p] = t[p]
      /\ p \in 0 .. Len(t)
  BY <1>1, AppendLine
<1>3. Sections(Append(t, l), p) = Sections(t, p)
  BY <1>2, SectionsSame
<1> QED  BY <1>1, <1>2, <1>3 DEF Starts, Sections

LEMMA InheritedKept ==
  ASSUME NEW t \in Seq(Line), NEW l \in Line, NEW s, NEW v, NEW old, NEW key,
         \E p \in Starts(t, s) : MeansGlobally(v, t, p, old, key)
  PROVE  \E p \in Starts(Append(t, l), s) :
           MeansGlobally(v, Append(t, l), p, old, key)
<1>1. PICK p \in Starts(t, s) : MeansGlobally(v, t, p, old, key)
  OBVIOUS
<1>2. p \in Starts(Append(t, l), s) /\ p \in 1 .. Len(t)
  BY StartsKept
<1>3. p \in 0 .. Len(t)
  BY <1>2
<1>4. MeansGlobally(v, Append(t, l), p, old, key)
  BY <1>1, <1>3, GlobalSame
<1> QED  BY <1>2, <1>4

LEMMA SectionKept ==
  ASSUME NEW t \in Seq(Line), NEW l \in Line, NEW s, NEW v, NEW before,
         NEW key, MeansInSection(v, t, before, s, key),
         ~Sets(Append(t, l), Len(t) + 1, s, key)
  PROVE  MeansInSection(v, Append(t, l), before, s, key)
<1> DEFINE at == Setters(t, Len(t), s, key)
<1>1. Setters(Append(t, l), Len(Append(t, l)), s, key) = at
  BY SettersKept, AppendLine
<1>2. Decides(v, Append(t, l), at, key) <=> Decides(v, t, at, key)
  BY SettersIn, DecidesSame
<1>3. (\E p \in Starts(t, s) : MeansGlobally(v, t, p, before[key], key))
        => \E p \in Starts(Append(t, l), s) :
             MeansGlobally(v, Append(t, l), p, before[key], key)
  BY InheritedKept
<1>4. CASE at # {}
  BY <1>1, <1>2, <1>4 DEF MeansInSection
<1>5. CASE at = {} /\ key \in Inherited
  BY <1>1, <1>3, <1>5 DEF MeansInSection
<1>6. CASE at = {} /\ key \notin Inherited
  BY <1>1, <1>6 DEF MeansInSection
<1> QED  BY <1>4, <1>5, <1>6

LEMMA SectionTaken ==
  ASSUME NEW t \in Seq(Line), NEW l \in Line, NEW s, NEW before, NEW key,
         Sets(Append(t, l), Len(t) + 1, s, key)
  PROVE  MeansInSection(Meaning(key, l.text, ""), Append(t, l), before, s, key)
<1> DEFINE at == Setters(t, Len(t), s, key)
<1>1. Setters(Append(t, l), Len(Append(t, l)), s, key) = With(at, Len(t) + 1)
  BY SettersTaken, AppendLine
<1>2. at \subseteq 1 .. Len(t)
  BY SettersIn
<1> HIDE DEF at
<1>3. Decides(Meaning(key, l.text, ""), Append(t, l),
              With(at, Len(t) + 1), key)
  BY <1>2, DecidesLast
<1>4. With(at, Len(t) + 1) # {}
  BY DEF With
<1> QED  BY <1>1, <1>3, <1>4 DEF MeansInSection

(* Nothing of a section comes before it.                                    *)
LEMMA HomeBefore ==
  ASSUME NEW t \in Seq(Line), NEW j \in 1 .. Len(t)
  PROVE  HomeOf(t, j) \in 0 .. Cardinality(Sections(t, Len(t)))
<1>1. Len(t) \in Nat /\ j \in Nat
  OBVIOUS
<1>2. Sections(t, j) \in SUBSET Sections(t, Len(t))
  BY <1>1 DEF Sections
<1>3. /\ IsFiniteSet(Sections(t, Len(t)))
      /\ Cardinality(Sections(t, Len(t))) \in Nat
      /\ Cardinality(Sections(t, j)) \in Nat
  BY <1>1, SectionsFinite
<1>4. Cardinality(Sections(t, j)) <= Cardinality(Sections(t, Len(t)))
  BY <1>2, <1>3, FS_Subset
<1> QED  BY <1>3, <1>4 DEF HomeOf

LEMMA OneMore ==
  ASSUME NEW n \in Nat
  PROVE  n + 1 \in 1 .. n + 1 /\ \A x \in 0 .. n : x # n + 1
OBVIOUS

LEMMA SectionFresh ==
  ASSUME NEW t \in Seq(Line), NEW l \in Line, l.key = Section,
         NEW v, NEW before, NEW key \in NetKey,
         IF key \in Inherited THEN MeansGlobally(v, t, Len(t), before[key], key)
                              ELSE v = ""
  PROVE  MeansInSection(v, Append(t, l), before,
                        Cardinality(Sections(t, Len(t))) + 1, key)
<1> DEFINE u == Append(t, l)
           n == Len(t)
           s == Cardinality(Sections(t, n)) + 1
<1>1. /\ u \in Seq(Line) /\ n \in Nat /\ Len(u) = n + 1 /\ u[n + 1] = l
      /\ Cardinality(Sections(t, n)) \in Nat
  BY AppendLine, SectionsFinite
<1>2. key # Section
  BY KeysApart
<1>3. \A home : ~Sets(u, n + 1, home, key)
  BY <1>1, <1>2 DEF Sets
<1>4. Setters(t, n, s, key) = {}
  <2>1. \A j \in 1 .. n :
          HomeOf(t, j) \in 0 .. Cardinality(Sections(t, n))
    BY HomeBefore
  <2>2. \A x \in 0 .. Cardinality(Sections(t, n)) : x # s
    BY <1>1, OneMore
  <2> HIDE DEF s
  <2>3. \A j \in 1 .. n : HomeOf(t, j) # s
    BY <2>1, <2>2
  <2> QED  BY <2>3 DEF Setters, Sets
<1>5. Setters(u, Len(u), s, key) = {}
  <2>1. \A home : Setters(u, n + 1, home, key) = Setters(t, n, home, key)
    BY <1>3, SettersKept
  <2> HIDE DEF u, n, s
  <2> QED  BY <1>1, <1>4, <2>1
<1>6. CASE key \in Inherited
  <2>1. MeansGlobally(v, u, n + 1, before[key], key)
    BY <1>3, <1>6, GlobalKept
  <2>2. n + 1 \in Sections(u, Len(u))
    <3>1. n + 1 \in 1 .. Len(u)
      BY <1>1, OneMore
    <3> HIDE DEF u, n, s
    <3> QED  BY <1>1, <3>1 DEF Sections
  <2>3. Cardinality(Sections(u, n + 1)) = s
    BY SectionsNext
  <2>4. n + 1 \in Starts(u, s)
    BY <2>2, <2>3 DEF Starts
  <2> HIDE DEF u, n, s
  <2>5. MeansInSection(v, u, before, s, key)
    BY <1>5, <1>6, <2>1, <2>4 DEF MeansInSection
  <2> QED  BY <2>5 DEF u, n, s
<1>7. CASE key \notin Inherited
  <2> HIDE DEF u, n, s
  <2>1. MeansInSection(v, u, before, s, key)
    BY <1>5, <1>7 DEF MeansInSection
  <2> QED  BY <2>1 DEF u, n, s
<1> QED  BY <1>6, <1>7

-----------------------------------------------------------------------------
(* Channels                                                                *)

(* The channel lines of a place up to one of them: its rank.                *)
Before(at, j) == {h \in at : h <= j}

LEMMA ChannelLinesFinite ==
  ASSUME NEW t \in Seq(Line), NEW home
  PROVE  /\ ChannelLines(t, home) \subseteq 1 .. Len(t)
         /\ IsFiniteSet(ChannelLines(t, home))
         /\ Cardinality(ChannelLines(t, home)) \in Nat
<1>1. ChannelLines(t, home) \subseteq 1 .. Len(t)
  BY DEF ChannelLines
<1>2. IsFiniteSet(1 .. Len(t))
  BY AppendLine, FS_Interval
<1> QED  BY <1>1, <1>2, FS_Subset, FS_CardinalityType

LEMMA ChannelLinesKept ==
  ASSUME NEW t \in Seq(Line), NEW l \in Line, NEW home,
         ~(l.key = "CHANNEL" /\ HomeOf(Append(t, l), Len(t) + 1) = home)
  PROVE  ChannelLines(Append(t, l), home) = ChannelLines(t, home)
<1>1. /\ Len(t) \in Nat /\ Len(Append(t, l)) = Len(t) + 1
      /\ Append(t, l)[Len(t) + 1] = l
      /\ \A j \in 1 .. Len(t) : /\ Append(t, l)[j] = t[j]
                                /\ HomeOf(Append(t, l), j) = HomeOf(t, j)
  BY AppendLine, HomeSame
<1>2. 1 .. Len(t) + 1 = (1 .. Len(t)) \cup {Len(t) + 1}
  BY <1>1
<1> QED  BY <1>1, <1>2 DEF ChannelLines

LEMMA ChannelLinesTaken ==
  ASSUME NEW t \in Seq(Line), NEW l \in Line, NEW home,
         l.key = "CHANNEL" /\ HomeOf(Append(t, l), Len(t) + 1) = home
  PROVE  ChannelLines(Append(t, l), home)
           = With(ChannelLines(t, home), Len(t) + 1)
<1>1. /\ Len(t) \in Nat /\ Len(Append(t, l)) = Len(t) + 1
      /\ Append(t, l)[Len(t) + 1] = l
      /\ \A j \in 1 .. Len(t) : /\ Append(t, l)[j] = t[j]
                                /\ HomeOf(Append(t, l), j) = HomeOf(t, j)
  BY AppendLine, HomeSame
<1>2. 1 .. Len(t) + 1 = (1 .. Len(t)) \cup {Len(t) + 1}
  BY <1>1
<1> QED  BY <1>1, <1>2 DEF ChannelLines, With

LEMMA ChannelsAreRanked ==
  ASSUME NEW c, NEW t, NEW home
  PROVE  ChannelsAre(c, t, home) <=>
           LET at == ChannelLines(t, home)
           IN  /\ Len(c) = IF Cardinality(at) < ChannelsMax
                             THEN Cardinality(at) ELSE ChannelsMax
               /\ \A j \in at :
                    Cardinality(Before(at, j)) <= ChannelsMax
                      => c[Cardinality(Before(at, j))] = t[j].text
BY DEF ChannelsAre, Before

LEMMA ChannelsKept ==
  ASSUME NEW t \in Seq(Line), NEW l \in Line, NEW home, NEW c,
         ~(l.key = "CHANNEL" /\ HomeOf(Append(t, l), Len(t) + 1) = home),
         ChannelsAre(c, t, home)
  PROVE  ChannelsAre(c, Append(t, l), home)
<1>1. ChannelLines(Append(t, l), home) = ChannelLines(t, home)
  BY ChannelLinesKept
<1>2. \A j \in ChannelLines(t, home) : Append(t, l)[j] = t[j]
  BY ChannelLinesFinite, AppendLine
<1> QED  BY <1>1, <1>2, ChannelsAreRanked

(* The ranks of lines before n + 1, and of a line n + 1.                    *)
LEMMA Ranks ==
  ASSUME NEW n \in Nat, NEW at, at \subseteq 1 .. n
  PROVE  /\ IsFiniteSet(at) /\ Cardinality(at) \in Nat
         /\ Cardinality(With(at, n + 1)) = Cardinality(at) + 1
         /\ Before(With(at, n + 1), n + 1) = With(at, n + 1)
         /\ \A j \in at : /\ Before(With(at, n + 1), j) = Before(at, j)
                         /\ Cardinality(Before(at, j))
                              \in 1 .. Cardinality(at)
<1>1. IsFiniteSet(at) /\ Cardinality(at) \in Nat
  <2>1. IsFiniteSet(1 .. n)
    BY FS_Interval
  <2>2. IsFiniteSet(at)
    BY <2>1, FS_Subset
  <2> QED  BY <2>2, FS_CardinalityType
<1>2. n + 1 \notin at
  OBVIOUS
<1>3. Cardinality(With(at, n + 1)) = Cardinality(at) + 1
  BY <1>1, <1>2, FS_AddElement DEF With
<1>4. Before(With(at, n + 1), n + 1) = With(at, n + 1)
  <2>1. \A h \in With(at, n + 1) : h <= n + 1
    BY DEF With
  <2> QED  BY <2>1 DEF Before
<1>5. ASSUME NEW j \in at
      PROVE  /\ Before(With(at, n + 1), j) = Before(at, j)
             /\ Cardinality(Before(at, j)) \in 1 .. Cardinality(at)
  <2>1. Before(With(at, n + 1), j) = Before(at, j)
    BY DEF Before, With
  <2>2. Before(at, j) \in SUBSET at /\ j \in Before(at, j)
    BY DEF Before
  <2>3. /\ IsFiniteSet(Before(at, j))
        /\ Cardinality(Before(at, j)) <= Cardinality(at)
    BY <1>1, <2>2, FS_Subset
  <2>4. Cardinality(Before(at, j)) \in Nat \ {0}
    BY <2>2, <2>3, FS_CardinalityType, FS_EmptySet
  <2> QED  BY <1>1, <2>1, <2>3, <2>4
<1> QED  BY <1>1, <1>3, <1>4, <1>5

LEMMA ChannelsTaken ==
  ASSUME NEW t \in Seq(Line), NEW l \in Line, NEW home, NEW c \in Seq(Text),
         l.key = "CHANNEL" /\ HomeOf(Append(t, l), Len(t) + 1) = home,
         ChannelsAre(c, t, home)
  PROVE  ChannelsAre(IF Len(c) < ChannelsMax THEN Append(c, l.text) ELSE c,
                     Append(t, l), home)
<1> DEFINE u == Append(t, l)
           n == Len(t)
           at == ChannelLines(t, home)
           new == With(at, n + 1)
           d == IF Len(c) < ChannelsMax THEN Append(c, l.text) ELSE c
<1>1. n \in Nat /\ u[n + 1] = l /\ \A j \in 1 .. n : u[j] = t[j]
  BY AppendLine
<1>2. ChannelLines(u, home) = new /\ at \subseteq 1 .. n
  BY ChannelLinesTaken, ChannelLinesFinite
<1>3. /\ Cardinality(at) \in Nat /\ ChannelsMax \in Nat
      /\ Cardinality(new) = Cardinality(at) + 1
      /\ Before(new, n + 1) = new
      /\ \A j \in at : /\ Before(new, j) = Before(at, j)
                      /\ Cardinality(Before(at, j)) \in 1 .. Cardinality(at)
  BY <1>1, <1>2, Ranks, ConfigAssumption
<1>4. /\ Len(c) = IF Cardinality(at) < ChannelsMax THEN Cardinality(at)
                                                  ELSE ChannelsMax
      /\ \A j \in at :
           Cardinality(Before(at, j)) <= ChannelsMax
             => c[Cardinality(Before(at, j))] = t[j].text
  BY ChannelsAreRanked
<1>5. l.text \in Text
  BY LineFields
<1>6. /\ Len(c) \in Nat
      /\ Len(d) = IF Len(c) < ChannelsMax THEN Len(c) + 1 ELSE Len(c)
      /\ Len(c) < ChannelsMax => d[Len(c) + 1] = l.text
      /\ \A m \in 1 .. Len(c) : d[m] = c[m]
  BY <1>5
<1> HIDE DEF u, n, at, new, d
<1>7. Len(d) = IF Cardinality(new) < ChannelsMax THEN Cardinality(new)
                                                  ELSE ChannelsMax
  BY <1>3, <1>4, <1>6
<1>8. ASSUME NEW j \in at, Cardinality(Before(new, j)) <= ChannelsMax
      PROVE  d[Cardinality(Before(new, j))] = u[j].text
  <2>1. Cardinality(Before(new, j)) \in 1 .. Len(c)
    BY <1>3, <1>4, <1>8
  <2>2. u[j] = t[j]
    BY <1>1, <1>2
  <2> QED  BY <1>3, <1>4, <1>6, <1>8, <2>1, <2>2
<1>9. ASSUME Cardinality(Before(new, n + 1)) <= ChannelsMax
      PROVE  d[Cardinality(Before(new, n + 1))] = u[n + 1].text
  BY <1>1, <1>3, <1>4, <1>6, <1>9
<1>10. \A j \in new : Cardinality(Before(new, j)) <= ChannelsMax
                       => d[Cardinality(Before(new, j))] = u[j].text
  BY <1>8, <1>9 DEF new, With
<1>11. ChannelsAre(d, u, home)
  BY <1>2, <1>7, <1>10, ChannelsAreRanked
<1> QED  BY <1>11 DEF d, u

LEMMA ChannelsNone ==
  ASSUME NEW t, NEW home, ChannelLines(t, home) = {}
  PROVE  ChannelsAre(<<>>, t, home)
<1>1. Cardinality({}) = 0 /\ Len(<<>>) = 0
  BY FS_EmptySet
<1> QED  BY <1>1, ConfigAssumption DEF ChannelsAre

LEMMA ChannelsFresh ==
  ASSUME NEW t \in Seq(Line), NEW l \in Line, l.key = Section
  PROVE  ChannelsAre(<<>>, Append(t, l),
                     Cardinality(Sections(t, Len(t))) + 1)
<1> DEFINE s == Cardinality(Sections(t, Len(t))) + 1
<1>1. \A j \in 1 .. Len(t) :
        HomeOf(t, j) \in 0 .. Cardinality(Sections(t, Len(t)))
  BY HomeBefore
<1>2. \A x \in 0 .. Cardinality(Sections(t, Len(t))) : x # s
  BY OneMore, SectionsFinite, AppendLine
<1> HIDE DEF s
<1>3. ChannelLines(t, s) = {}
  BY <1>1, <1>2 DEF ChannelLines
<1>4. ChannelLines(Append(t, l), s) = {}
  BY <1>3, ChannelLinesKept, KeysApart
<1> QED  BY <1>4, ChannelsNone DEF s

-----------------------------------------------------------------------------
(* What one line changes                                                   *)

(* The parts of LoadMeansFile: the global keys, a place's channels, and one *)
(* section.                                                                 *)
GlobalsMean(set, t) ==
  \A k \in Key : MeansGlobally(set[k], t, Len(t), base[k], k)

SectionMeans(net, t, s) ==
  /\ \A k \in NetKey : MeansInSection(net.set[k], t, base, s, k)
  /\ ChannelsAre(net.channels, t, s)

(* A line that belongs elsewhere, or sets nothing.                          *)
LEMMA ElsewhereSets ==
  ASSUME NEW t \in Seq(Line), NEW l \in Line, NEW home,
         l.key = Section \/ HomeOf(Append(t, l), Len(t) + 1) # home
  PROVE  /\ \A k \in Key : ~Sets(Append(t, l), Len(t) + 1, home, k)
         /\ ~(/\ l.key = "CHANNEL"
              /\ HomeOf(Append(t, l), Len(t) + 1) = home)
<1>1. Append(t, l)[Len(t) + 1] = l
  BY AppendLine
<1> QED  BY <1>1, KeysApart DEF Sets

LEMMA GlobalsKept ==
  ASSUME NEW t \in Seq(Line), NEW l \in Line, NEW set, GlobalsMean(set, t),
         l.key = Section \/ HomeOf(Append(t, l), Len(t) + 1) # 0
  PROVE  GlobalsMean(set, Append(t, l))
<1>1. \A k \in Key : ~Sets(Append(t, l), Len(t) + 1, 0, k)
  BY ElsewhereSets
<1>2. Len(Append(t, l)) = Len(t) + 1
  BY AppendLine
<1>3. \A k \in Key :
        MeansGlobally(set[k], Append(t, l), Len(t) + 1, base[k], k)
  BY <1>1, GlobalKept DEF GlobalsMean
<1> QED  BY <1>2, <1>3 DEF GlobalsMean

LEMMA SectionMeansKept ==
  ASSUME NEW t \in Seq(Line), NEW l \in Line, NEW s, NEW net,
         SectionMeans(net, t, s),
         l.key = Section \/ HomeOf(Append(t, l), Len(t) + 1) # s
  PROVE  SectionMeans(net, Append(t, l), s)
<1>1. \A k \in NetKey : ~Sets(Append(t, l), Len(t) + 1, s, k)
  BY ElsewhereSets, KeysApart
<1>2. \A k \in NetKey : MeansInSection(net.set[k], Append(t, l), base, s, k)
  BY <1>1, SectionKept DEF SectionMeans
<1>3. ChannelsAre(net.channels, Append(t, l), s)
  BY ElsewhereSets, ChannelsKept DEF SectionMeans
<1> QED  BY <1>2, <1>3 DEF SectionMeans

LEMMA MeaningType ==
  ASSUME NEW k, NEW x \in Text, NEW old \in Value
  PROVE  Meaning(k, x, old) \in Value
BY DEF Meaning, Value

(* A line of the place sets its key, or leaves the value as it was.         *)
LineValue(l, k, old) == IF l.key = k THEN Meaning(k, l.text, old) ELSE old

LEMMA LineSets ==
  ASSUME NEW t \in Seq(Line), NEW l \in Line, NEW home, NEW k, NEW old,
         Sets(Append(t, l), Len(t) + 1, home, k)
  PROVE  LineValue(l, k, old) = Meaning(k, l.text, "")
<1>1. /\ l.key = k
      /\ k \in Numbers => l.text \in Numerals
  BY AppendLine DEF Sets
<1> QED  BY <1>1 DEF LineValue, Meaning

LEMMA LineLeaves ==
  ASSUME NEW t \in Seq(Line), NEW l \in Line, NEW home, NEW k, NEW old,
         HomeOf(Append(t, l), Len(t) + 1) = home,
         ~Sets(Append(t, l), Len(t) + 1, home, k)
  PROVE  LineValue(l, k, old) = old
<1>1. \/ l.key # k
      \/ k \in Numbers /\ l.text \notin Numerals
  BY AppendLine DEF Sets
<1>2. Numbers \cap Flags = {}
  BY DEF Numbers, Flags, Words
<1> QED  BY <1>1, <1>2 DEF LineValue, Meaning

(* The value and the channels that Apply leaves.                            *)
Applied(new, old, keys, l) ==
  /\ \A k \in keys : new.set[k] = LineValue(l, k, old.set[k])
  /\ new.channels = IF l.key = "CHANNEL" /\ Len(old.channels) < ChannelsMax
                      THEN Append(old.channels, l.text) ELSE old.channels

ConfigType == [path : BOOLEAN, set : [Key -> Value], skipped : Nat,
               channels : Seq(Text), networks : Seq(Network)]

LEMMA ApplyConfig ==
  ASSUME NEW c \in ConfigType, NEW l \in Line
  PROVE  /\ Apply(c, Key, l) \in ConfigType
         /\ Applied(Apply(c, Key, l), c, Key, l)
         /\ Apply(c, Key, l).path = c.path
         /\ Apply(c, Key, l).networks = c.networks
         /\ Apply(c, Key, l).skipped = c.skipped
<1>1. l.text \in Text /\ "CHANNEL" \notin Key
  BY LineFields, KeysApart
<1>2. CASE l.key \in Key
  <2>1. Meaning(l.key, l.text, c.set[l.key]) \in Value
    BY <1>1, <1>2, MeaningType DEF ConfigType
  <2> DEFINE f == [c.set EXCEPT ![l.key] =
                       Meaning(l.key, l.text, c.set[l.key])]
  <2>2. Apply(c, Key, l) = [c EXCEPT !.set = f]
    BY <1>2 DEF Apply
  <2>3. f \in [Key -> Value]
    BY <2>1 DEF ConfigType
  <2>4. \A k \in Key : f[k] = LineValue(l, k, c.set[k])
    BY DEF ConfigType, LineValue
  <2> HIDE DEF f
  <2>5. Apply(c, Key, l).set = f
    BY <2>2 DEF ConfigType
  <2>6. Apply(c, Key, l).channels = c.channels
    BY <2>2 DEF ConfigType
  <2>7. Applied(Apply(c, Key, l), c, Key, l)
    BY <1>1, <1>2, <2>4, <2>5, <2>6 DEF Applied
  <2> QED  BY <2>2, <2>3, <2>7 DEF ConfigType
<1>3. CASE l.key \notin Key /\ l.key = "CHANNEL"
                /\ Len(c.channels) < ChannelsMax
  <2>1. Apply(c, Key, l)
          = [c EXCEPT !.channels = Append(c.channels, l.text)]
    BY <1>3 DEF Apply
  <2>2. Append(c.channels, l.text) \in Seq(Text)
    BY <1>1 DEF ConfigType
  <2>3. /\ Apply(c, Key, l).set = c.set
        /\ Apply(c, Key, l).channels = Append(c.channels, l.text)
    BY <2>1 DEF ConfigType
  <2>4. \A k \in Key : LineValue(l, k, c.set[k]) = c.set[k]
    BY <1>3 DEF LineValue
  <2>5. Applied(Apply(c, Key, l), c, Key, l)
    BY <1>3, <2>3, <2>4 DEF Applied
  <2> QED  BY <2>1, <2>2, <2>5 DEF ConfigType
<1>4. CASE l.key \notin Key /\ ~(l.key = "CHANNEL"
                                 /\ Len(c.channels) < ChannelsMax)
  <2>1. Apply(c, Key, l) = c
    BY <1>4 DEF Apply
  <2>2. \A k \in Key : LineValue(l, k, c.set[k]) = c.set[k]
    BY <1>4 DEF LineValue
  <2> QED  BY <1>4, <2>1, <2>2 DEF Applied
<1> QED  BY <1>2, <1>3, <1>4

LEMMA ApplyNetwork ==
  ASSUME NEW c \in Network, NEW l \in Line
  PROVE  /\ Apply(c, NetKey, l) \in Network
         /\ Applied(Apply(c, NetKey, l), c, NetKey, l)
<1>1. l.text \in Text /\ "CHANNEL" \notin NetKey
  BY LineFields, KeysApart
<1>2. CASE l.key \in NetKey
  <2>1. Meaning(l.key, l.text, c.set[l.key]) \in Value
    BY <1>1, <1>2, MeaningType DEF Network
  <2> DEFINE f == [c.set EXCEPT ![l.key] =
                       Meaning(l.key, l.text, c.set[l.key])]
  <2>2. Apply(c, NetKey, l) = [c EXCEPT !.set = f]
    BY <1>2 DEF Apply
  <2>3. f \in [NetKey -> Value]
    BY <2>1 DEF Network
  <2>4. \A k \in NetKey : f[k] = LineValue(l, k, c.set[k])
    BY DEF Network, LineValue
  <2> HIDE DEF f
  <2>5. Apply(c, NetKey, l).set = f
    BY <2>2 DEF Network
  <2>6. Apply(c, NetKey, l).channels = c.channels
    BY <2>2 DEF Network
  <2>7. Applied(Apply(c, NetKey, l), c, NetKey, l)
    BY <1>1, <1>2, <2>4, <2>5, <2>6 DEF Applied
  <2> QED  BY <2>2, <2>3, <2>7 DEF Network
<1>3. CASE l.key \notin NetKey /\ l.key = "CHANNEL"
                /\ Len(c.channels) < ChannelsMax
  <2>1. Apply(c, NetKey, l)
          = [c EXCEPT !.channels = Append(c.channels, l.text)]
    BY <1>3 DEF Apply
  <2>2. Append(c.channels, l.text) \in Seq(Text)
    BY <1>1 DEF Network
  <2>3. /\ Apply(c, NetKey, l).set = c.set
        /\ Apply(c, NetKey, l).channels = Append(c.channels, l.text)
    BY <2>1 DEF Network
  <2>4. \A k \in NetKey : LineValue(l, k, c.set[k]) = c.set[k]
    BY <1>3 DEF LineValue
  <2>5. Applied(Apply(c, NetKey, l), c, NetKey, l)
    BY <1>3, <2>3, <2>4 DEF Applied
  <2> QED  BY <2>1, <2>2, <2>5 DEF Network
<1>4. CASE l.key \notin NetKey /\ ~(l.key = "CHANNEL"
                                    /\ Len(c.channels) < ChannelsMax)
  <2>1. Apply(c, NetKey, l) = c
    BY <1>4 DEF Apply
  <2>2. \A k \in NetKey : LineValue(l, k, c.set[k]) = c.set[k]
    BY <1>4 DEF LineValue
  <2> QED  BY <1>4, <2>1, <2>2 DEF Applied
<1> QED  BY <1>2, <1>3, <1>4

LEMMA ChannelsApplied ==
  ASSUME NEW t \in Seq(Line), NEW l \in Line, NEW home, NEW keys,
         NEW old, NEW new, old.channels \in Seq(Text),
         HomeOf(Append(t, l), Len(t) + 1) = home, Applied(new, old, keys, l),
         ChannelsAre(old.channels, t, home)
  PROVE  ChannelsAre(new.channels, Append(t, l), home)
<1>1. CASE l.key = "CHANNEL"
  <2>1. new.channels = IF Len(old.channels) < ChannelsMax
                         THEN Append(old.channels, l.text) ELSE old.channels
    BY <1>1 DEF Applied
  <2> QED  BY <1>1, <2>1, ChannelsTaken
<1>2. CASE l.key # "CHANNEL"
  <2>1. new.channels = old.channels
    BY <1>2 DEF Applied
  <2> QED  BY <1>2, <2>1, ChannelsKept
<1> QED  BY <1>1, <1>2

LEMMA GlobalsTaken ==
  ASSUME NEW t \in Seq(Line), NEW l \in Line, NEW old, NEW new,
         HomeOf(Append(t, l), Len(t) + 1) = 0, Applied(new, old, Key, l),
         GlobalsMean(old.set, t)
  PROVE  GlobalsMean(new.set, Append(t, l))
<1>1. ASSUME NEW k \in Key
      PROVE  MeansGlobally(new.set[k], Append(t, l), Len(t) + 1, base[k], k)
  <2>1. new.set[k] = LineValue(l, k, old.set[k])
    BY DEF Applied
  <2>2. MeansGlobally(old.set[k], t, Len(t), base[k], k)
    BY DEF GlobalsMean
  <2>3. CASE Sets(Append(t, l), Len(t) + 1, 0, k)
    <3>1. new.set[k] = Meaning(k, l.text, "")
      BY <2>1, <2>3, LineSets
    <3> QED  BY <2>3, <3>1, GlobalTaken
  <2>4. CASE ~Sets(Append(t, l), Len(t) + 1, 0, k)
    <3>1. new.set[k] = old.set[k]
      BY <2>1, <2>4, LineLeaves
    <3> QED  BY <2>2, <2>4, <3>1, GlobalKept
  <2> QED  BY <2>3, <2>4
<1>2. Len(Append(t, l)) = Len(t) + 1
  BY AppendLine
<1> QED  BY <1>1, <1>2 DEF GlobalsMean

LEMMA SectionMeansTaken ==
  ASSUME NEW t \in Seq(Line), NEW l \in Line, NEW s,
         NEW old \in Network, NEW new,
         HomeOf(Append(t, l), Len(t) + 1) = s, Applied(new, old, NetKey, l),
         SectionMeans(old, t, s)
  PROVE  SectionMeans(new, Append(t, l), s)
<1>1. ASSUME NEW k \in NetKey
      PROVE  MeansInSection(new.set[k], Append(t, l), base, s, k)
  <2>1. new.set[k] = LineValue(l, k, old.set[k])
    BY DEF Applied
  <2>2. MeansInSection(old.set[k], t, base, s, k)
    BY DEF SectionMeans
  <2>3. CASE Sets(Append(t, l), Len(t) + 1, s, k)
    <3>1. new.set[k] = Meaning(k, l.text, "")
      BY <2>1, <2>3, LineSets
    <3> QED  BY <2>3, <3>1, SectionTaken
  <2>4. CASE ~Sets(Append(t, l), Len(t) + 1, s, k)
    <3>1. new.set[k] = old.set[k]
      BY <2>1, <2>4, LineLeaves
    <3> QED  BY <2>2, <2>4, <3>1, SectionKept
  <2> QED  BY <2>3, <2>4
<1>2. old.channels \in Seq(Text)
  BY DEF Network
<1>3. ChannelsAre(new.channels, Append(t, l), s)
  BY <1>2, ChannelsApplied DEF SectionMeans
<1> QED  BY <1>1, <1>3 DEF SectionMeans

(* A section that is new has what is global up to there.                    *)
LEMMA SectionMeansFresh ==
  ASSUME NEW t \in Seq(Line), NEW l \in Line, l.key = Section,
         GlobalsMean(config.set, t)
  PROVE  SectionMeans(NetworkDefaults(l.text), Append(t, l),
                      Cardinality(Sections(t, Len(t))) + 1)
<1> DEFINE net == NetworkDefaults(l.text)
           s == Cardinality(Sections(t, Len(t))) + 1
<1>1. /\ net.channels = <<>>
      /\ \A k \in NetKey : net.set[k] = IF k \in Inherited THEN config.set[k]
                                                          ELSE ""
  BY DEF NetworkDefaults
<1>2. ChannelsAre(<<>>, Append(t, l), s)
  BY ChannelsFresh
<1>3. ASSUME NEW k \in NetKey
      PROVE  MeansInSection(net.set[k], Append(t, l), base, s, k)
  <2>1. IF k \in Inherited
          THEN MeansGlobally(net.set[k], t, Len(t), base[k], k)
          ELSE net.set[k] = ""
    BY <1>1, KeysApart DEF GlobalsMean
  <2> HIDE DEF net
  <2> QED  BY <2>1, SectionFresh
<1> HIDE DEF net, s
<1>4. SectionMeans(net, Append(t, l), s)
  BY <1>1, <1>2, <1>3 DEF SectionMeans
<1> QED  BY <1>4 DEF net, s

-----------------------------------------------------------------------------
(* The invariant                                                           *)

CutTo(c, t) ==
  /\ Len(c.networks) = IF Cardinality(Sections(t, Len(t))) < NetworksMax
                         THEN Cardinality(Sections(t, Len(t)))
                         ELSE NetworksMax
  /\ Len(c.networks) + c.skipped = Cardinality(Sections(t, Len(t)))

Loaded(c, t) ==
  /\ CutTo(c, t)
  /\ GlobalsMean(c.set, t)
  /\ ChannelsAre(c.channels, t, 0)
  /\ \A s \in 1 .. Len(c.networks) : SectionMeans(c.networks[s], t, s)

LEMMA LoadMeansLoaded ==
  LoadMeansFile <=> (config.path => Loaded(config, text))
BY DEF LoadMeansFile, Loaded, ListsCut, CutTo, GlobalsMean, SectionMeans

LEMMA DefaultType == Default \in [Key -> Value]
BY DEF Default, Value

LEMMA InitInv == Init => Inv
<1> SUFFICES ASSUME Init
             PROVE  Inv
  OBVIOUS
<1>1. PICK args \in CommandLines : seed = Seeded(args)
  BY DEF Init
<1>2. /\ args.host \in Value /\ args.port \in Value /\ args.nick \in Value
      /\ args.user \in Value /\ args.pass \in Value /\ args.owner \in Value
  BY ConfigAssumption DEF Arguments, Value
<1>3. seed \in [Key -> Value]
  BY <1>1, <1>2, DefaultType DEF Seeded
<1>4. <<>> \in Seq(Text) /\ <<>> \in Seq(Network) /\ <<>> \in Seq(Line)
  OBVIOUS
<1>5. TypeOK
  BY <1>3, <1>4 DEF Init, TypeOK
<1>6. ReaderState
  BY DEF Init, ReaderState
<1>7. LoadMeansFile
  BY DEF Init, LoadMeansFile
<1> QED  BY <1>5, <1>6, <1>7 DEF Inv

(* Where a line is read.                                                    *)
LEMMA ReadFacts ==
  ASSUME Inv, NEW line \in Lines, Read(line)
  PROVE  /\ line \in Line /\ text \in Seq(Line)
         /\ text' = Append(text, line) /\ text' \in Seq(Line)
         /\ Len(text) \in Nat /\ Len(text') = Len(text) + 1
         /\ config \in ConfigType /\ config.path
         /\ current = HomeOf(text, Len(text))
         /\ Loaded(config, text)
         /\ Cardinality(Sections(text, Len(text))) \in Nat
         /\ pc' = "reading" /\ base' = base
<1>1. /\ line \in Line /\ text \in Seq(Line) /\ text' = Append(text, line)
      /\ pc = "reading" /\ pc' = "reading" /\ base' = base
  BY ConfigAssumption DEF Read, Inv, TypeOK
<1>2. /\ text' \in Seq(Line) /\ Len(text) \in Nat
      /\ Len(text') = Len(text) + 1
  BY <1>1, AppendLine
<1>3. /\ config \in ConfigType /\ config.path
      /\ current = HomeOf(text, Len(text))
  BY <1>1 DEF Inv, TypeOK, ConfigType, ReaderState
<1>4. Loaded(config, text)
  BY <1>3, LoadMeansLoaded DEF Inv
<1>5. Cardinality(Sections(text, Len(text))) \in Nat
  BY <1>2, SectionsFinite
<1> QED  BY <1>1, <1>2, <1>3, <1>4, <1>5

(* What a line must do to the invariant.                                    *)
LEMMA ReadInv ==
  ASSUME Inv, NEW line \in Lines, Read(line),
         config' \in ConfigType, config'.path,
         current' \in 0 .. Len(config'.networks),
         current' = HomeOf(text', Len(text')),
         Loaded(config', text')
  PROVE  Inv'
<1>1. /\ UNCHANGED <<pc, mode, seed, base, named>>
      /\ text' \in Seq(Line)
  BY ReadFacts DEF Read
<1>2. TypeOK'
  BY <1>1 DEF Inv, TypeOK, ConfigType
<1>3. ReaderState'
  BY <1>1 DEF Inv, ReaderState
<1>4. LoadMeansFile'
  BY <1>1 DEF LoadMeansFile, Loaded, ListsCut, CutTo, GlobalsMean,
              SectionMeans
<1> QED  BY <1>2, <1>3, <1>4 DEF Inv

LEMMA FreshType ==
  ASSUME NEW c \in ConfigType, config = c, NEW x \in Text
  PROVE  NetworkDefaults(x) \in Network
<1>1. \A k \in Inherited : config.set[k] \in Value
  BY KeysApart DEF ConfigType
<1>2. [k \in NetKey |-> IF k \in Inherited THEN config.set[k] ELSE ""]
        \in [NetKey -> Value]
  BY <1>1 DEF Value
<1>3. <<>> \in Seq(Text)
  OBVIOUS
<1> QED  BY <1>2, <1>3 DEF NetworkDefaults, Network

LEMMA ReadSectionInv == Inv /\ ReadSection => Inv'
<1> SUFFICES ASSUME Inv, NEW line \in Lines, Read(line), line.key = Section,
                    Len(config.networks) < NetworksMax,
                    config' = [config EXCEPT !.networks =
                                 Append(@, NetworkDefaults(line.text))],
                    current' = Len(config.networks) + 1
             PROVE  Inv'
  BY DEF ReadSection
<1> DEFINE all == Cardinality(Sections(text, Len(text)))
           net == NetworkDefaults(line.text)
<1>1. /\ line \in Line /\ text \in Seq(Line) /\ config \in ConfigType
      /\ text' = Append(text, line) /\ Len(text') = Len(text) + 1
      /\ config.path /\ Loaded(config, text) /\ all \in Nat
      /\ NetworksMax \in Nat
  BY ReadFacts, ConfigAssumption
<1>2. net \in Network
  BY <1>1, FreshType, LineFields
<1>3. config' \in ConfigType /\ config'.path
  <2>1. config.networks \in Seq(Network)
    BY <1>1 DEF ConfigType
  <2> DEFINE more == Append(config.networks, net)
  <2>2. more \in Seq(Network)
    BY <1>2, <2>1
  <2>3. config' = [config EXCEPT !.networks = more]
    OBVIOUS
  <2> HIDE DEF more
  <2> QED  BY <1>1, <2>2, <2>3 DEF ConfigType
<1>4. /\ config'.set = config.set /\ config'.channels = config.channels
      /\ config'.skipped = config.skipped /\ config.skipped \in Nat
      /\ config'.networks = Append(config.networks, net)
      /\ config.networks \in Seq(Network)
  BY <1>1 DEF ConfigType
<1>5. /\ Len(config'.networks) = Len(config.networks) + 1
      /\ Len(config.networks) \in Nat
      /\ config'.networks[Len(config.networks) + 1] = net
      /\ \A s \in 1 .. Len(config.networks) :
           config'.networks[s] = config.networks[s]
  BY <1>2, <1>4
<1>6. all = Len(config.networks) /\ config.skipped = 0
  BY <1>1, <1>4, <1>5 DEF Loaded, CutTo
<1>7. Cardinality(Sections(text', Len(text'))) = all + 1
  BY <1>1, SectionsNext
<1>8. CutTo(config', text')
  BY <1>1, <1>4, <1>5, <1>6, <1>7 DEF CutTo
<1>9. current' = HomeOf(text', Len(text'))
  BY <1>1, <1>5, <1>6, <1>7 DEF HomeOf
<1>10. GlobalsMean(config'.set, text')
  BY <1>1, <1>4, GlobalsKept DEF Loaded
<1>11. ChannelsAre(config'.channels, text', 0)
  <2>1. line.key # "CHANNEL"
    BY KeysApart
  <2> QED  BY <1>1, <1>4, <2>1, ChannelsKept DEF Loaded
<1>12. \A s \in 1 .. Len(config.networks) :
         SectionMeans(config.networks[s], text', s)
  BY <1>1, SectionMeansKept DEF Loaded
<1>13. SectionMeans(net, text', all + 1)
  <2>1. GlobalsMean(config.set, text)
    BY <1>1 DEF Loaded
  <2> QED  BY <1>1, <2>1, SectionMeansFresh
<1> HIDE DEF all, net
<1>14. \A s \in 1 .. Len(config'.networks) :
         SectionMeans(config'.networks[s], text', s)
  BY <1>5, <1>6, <1>12, <1>13
<1>15. Loaded(config', text')
  BY <1>8, <1>10, <1>11, <1>14 DEF Loaded
<1>16. current' \in 0 .. Len(config'.networks)
  BY <1>5
<1> QED  BY <1>3, <1>9, <1>15, <1>16, ReadInv

LEMMA SkipSectionInv == Inv /\ SkipSection => Inv'
<1> SUFFICES ASSUME Inv, NEW line \in Lines, Read(line), line.key = Section,
                    Len(config.networks) >= NetworksMax,
                    config' = [config EXCEPT !.skipped = @ + 1],
                    current' = 0
             PROVE  Inv'
  BY DEF SkipSection
<1> DEFINE all == Cardinality(Sections(text, Len(text)))
<1>1. /\ line \in Line /\ text \in Seq(Line) /\ config \in ConfigType
      /\ text' = Append(text, line) /\ Len(text') = Len(text) + 1
      /\ config.path /\ Loaded(config, text) /\ all \in Nat
      /\ NetworksMax \in Nat
  BY ReadFacts, ConfigAssumption
<1>2. config' \in ConfigType /\ config'.path
  <2>1. config.skipped + 1 \in Nat
    BY <1>1 DEF ConfigType
  <2>2. config' = [config EXCEPT !.skipped = config.skipped + 1]
    OBVIOUS
  <2> QED  BY <1>1, <2>1, <2>2 DEF ConfigType
<1>3. /\ config'.set = config.set /\ config'.channels = config.channels
      /\ config'.skipped = config.skipped + 1 /\ config.skipped \in Nat
      /\ config'.networks = config.networks /\ Len(config.networks) \in Nat
  BY <1>1 DEF ConfigType
<1>4. all >= NetworksMax /\ Len(config.networks) = NetworksMax
  BY <1>1, <1>3 DEF Loaded, CutTo
<1>5. Cardinality(Sections(text', Len(text'))) = all + 1
  BY <1>1, SectionsNext
<1>6. CutTo(config', text')
  BY <1>1, <1>3, <1>4, <1>5 DEF Loaded, CutTo
<1>7. current' = HomeOf(text', Len(text'))
  BY <1>1, <1>4, <1>5 DEF HomeOf
<1>8. GlobalsMean(config'.set, text')
  BY <1>1, <1>3, GlobalsKept DEF Loaded
<1>9. ChannelsAre(config'.channels, text', 0)
  <2>1. line.key # "CHANNEL"
    BY KeysApart
  <2> QED  BY <1>1, <1>3, <2>1, ChannelsKept DEF Loaded
<1>10. \A s \in 1 .. Len(config'.networks) :
         SectionMeans(config'.networks[s], text', s)
  BY <1>1, <1>3, SectionMeansKept DEF Loaded
<1>11. Loaded(config', text')
  BY <1>6, <1>8, <1>9, <1>10 DEF Loaded
<1>12. current' \in 0 .. Len(config'.networks)
  BY <1>3
<1> QED  BY <1>2, <1>7, <1>11, <1>12, ReadInv

LEMMA ReadInSectionInv == Inv /\ ReadInSection => Inv'
<1> SUFFICES ASSUME Inv, NEW line \in Lines, Read(line), line.key # Section,
                    current # 0,
                    config' = [config EXCEPT !.networks[current] =
                                               Apply(@, NetKey, line)],
                    current' = current
             PROVE  Inv'
  BY DEF ReadInSection
<1> DEFINE all == Cardinality(Sections(text, Len(text)))
           net == Apply(config.networks[current], NetKey, line)
<1>1. /\ line \in Line /\ text \in Seq(Line) /\ config \in ConfigType
      /\ text' = Append(text, line) /\ Len(text') = Len(text) + 1
      /\ config.path /\ Loaded(config, text) /\ all \in Nat
      /\ current = HomeOf(text, Len(text))
      /\ current \in 1 .. Len(config.networks)
  <2>1. current \in 0 .. Len(config.networks)
    BY DEF Inv, TypeOK
  <2> QED  BY <2>1, ReadFacts
<1>2. /\ config.networks \in Seq(Network)
      /\ config.networks[current] \in Network
  BY <1>1 DEF ConfigType
<1>3. /\ net \in Network
      /\ Applied(net, config.networks[current], NetKey, line)
  BY <1>1, <1>2, ApplyNetwork
<1> HIDE DEF net
<1>4. config' = [config EXCEPT !.networks =
                                 [config.networks EXCEPT ![current] = net]]
  BY <1>1 DEF ConfigType, net
<1>5. /\ [config.networks EXCEPT ![current] = net] \in Seq(Network)
      /\ Len([config.networks EXCEPT ![current] = net]) = Len(config.networks)
      /\ [config.networks EXCEPT ![current] = net][current] = net
      /\ \A s \in 1 .. Len(config.networks) : s # current =>
           [config.networks EXCEPT ![current] = net][s] = config.networks[s]
  BY <1>1, <1>2, <1>3
<1>6. /\ config' \in ConfigType /\ config'.path
      /\ config'.set = config.set /\ config'.channels = config.channels
      /\ config'.skipped = config.skipped
      /\ config'.networks = [config.networks EXCEPT ![current] = net]
  BY <1>1, <1>4, <1>5 DEF ConfigType
<1>7. /\ Len(config'.networks) = Len(config.networks)
      /\ config'.networks[current] = net
      /\ \A s \in 1 .. Len(config.networks) : s # current =>
           config'.networks[s] = config.networks[s]
  BY <1>5, <1>6
<1>8. HomeOf(text', Len(text')) = current
  BY <1>1, HomeNext
<1>9. Cardinality(Sections(text', Len(text'))) = all
  BY <1>1, SectionsNext
<1>10. CutTo(config', text')
  BY <1>1, <1>6, <1>7, <1>9 DEF Loaded, CutTo
<1>11. GlobalsMean(config'.set, text')
  BY <1>1, <1>6, <1>8, GlobalsKept DEF Loaded
<1>12. ChannelsAre(config'.channels, text', 0)
  BY <1>1, <1>6, <1>8, ChannelsKept DEF Loaded
<1>13. \A s \in 1 .. Len(config.networks) : s # current =>
         SectionMeans(config.networks[s], text', s)
  BY <1>1, <1>8, SectionMeansKept DEF Loaded
<1>14. SectionMeans(net, text', current)
  <2>1. SectionMeans(config.networks[current], text, current)
    BY <1>1 DEF Loaded
  <2> QED  BY <1>1, <1>2, <1>3, <1>8, <2>1, SectionMeansTaken
<1>15. \A s \in 1 .. Len(config'.networks) :
         SectionMeans(config'.networks[s], text', s)
  BY <1>7, <1>13, <1>14
<1>16. Loaded(config', text')
  BY <1>10, <1>11, <1>12, <1>15 DEF Loaded
<1>17. current' \in 0 .. Len(config'.networks)
  BY <1>1, <1>7
<1> QED  BY <1>6, <1>8, <1>16, <1>17, ReadInv

LEMMA ReadOutsideInv == Inv /\ ReadOutside => Inv'
<1> SUFFICES ASSUME Inv, NEW line \in Lines, Read(line), line.key # Section,
                    current = 0, config' = Apply(config, Key, line),
                    current' = current
             PROVE  Inv'
  BY DEF ReadOutside
<1> DEFINE all == Cardinality(Sections(text, Len(text)))
<1>1. /\ line \in Line /\ text \in Seq(Line) /\ config \in ConfigType
      /\ text' = Append(text, line) /\ Len(text') = Len(text) + 1
      /\ config.path /\ Loaded(config, text) /\ all \in Nat
      /\ current = HomeOf(text, Len(text))
  BY ReadFacts
<1>2. /\ config' \in ConfigType /\ config'.path
      /\ Applied(config', config, Key, line)
      /\ config'.networks = config.networks
      /\ config'.skipped = config.skipped
  BY <1>1, ApplyConfig
<1>3. HomeOf(text', Len(text')) = 0
  BY <1>1, HomeNext
<1>4. Cardinality(Sections(text', Len(text'))) = all
  BY <1>1, SectionsNext
<1>5. CutTo(config', text')
  BY <1>1, <1>2, <1>4 DEF Loaded, CutTo
<1>6. GlobalsMean(config'.set, text')
  BY <1>1, <1>2, <1>3, GlobalsTaken DEF Loaded
<1>7. ChannelsAre(config'.channels, text', 0)
  <2>1. config.channels \in Seq(Text)
    BY <1>1 DEF ConfigType
  <2> QED  BY <1>1, <1>2, <1>3, <2>1, ChannelsApplied DEF Loaded
<1>8. \A s \in 1 .. Len(config'.networks) :
        SectionMeans(config'.networks[s], text', s)
  <2>1. \A s \in 1 .. Len(config.networks) : s # 0
    OBVIOUS
  <2> QED  BY <1>1, <1>2, <1>3, <2>1, SectionMeansKept DEF Loaded
<1>9. Loaded(config', text')
  BY <1>5, <1>6, <1>7, <1>8 DEF Loaded
<1>10. current' \in 0 .. Len(config'.networks)
  BY <1>1, <1>2 DEF ConfigType
<1> QED  BY <1>2, <1>3, <1>9, <1>10, ReadInv

-----------------------------------------------------------------------------
(* Opening a file, and the rest                                             *)

LEMMA NothingRead ==
  /\ Len(<<>>) = 0 /\ Sections(<<>>, 0) = {} /\ HomeOf(<<>>, 0) = 0
  /\ \A home, key : Setters(<<>>, 0, home, key) = {}
  /\ \A home : ChannelLines(<<>>, home) = {}
<1>1. Len(<<>>) = 0 /\ 1 .. 0 = {}
  OBVIOUS
<1>2. Sections(<<>>, 0) = {}
  BY <1>1 DEF Sections
<1>3. HomeOf(<<>>, 0) = 0
  BY <1>2, FS_EmptySet, ConfigAssumption DEF HomeOf
<1>4. \A home, key : Setters(<<>>, 0, home, key) = {}
  BY <1>1 DEF Setters
<1>5. \A home : ChannelLines(<<>>, home) = {}
  BY <1>1 DEF ChannelLines
<1> QED  BY <1>1, <1>2, <1>3, <1>4, <1>5

(* A value that a key has now and had not at the start was set by a load.   *)
LEMMA SetByNow ==
  ASSUME Inv, NEW k \in Key, config.set[k] # seed[k]
  PROVE  k \in named \cup GloballySet(text)
<1>1. CASE ~config.path
  BY <1>1 DEF Inv, ReaderState
<1>2. CASE config.path
  <2>1. MeansGlobally(config.set[k], text, Len(text), base[k], k)
    BY <1>2 DEF Inv, LoadMeansFile
  <2>2. base[k] # seed[k] => k \in named
    BY DEF Inv, ReaderState
  <2>3. CASE Setters(text, Len(text), 0, k) = {}
    BY <2>1, <2>2, <2>3 DEF MeansGlobally
  <2>4. CASE Setters(text, Len(text), 0, k) # {}
    BY <2>4 DEF GloballySet
  <2> QED  BY <2>3, <2>4
<1> QED  BY <1>1, <1>2

LEMMA OpenInv == Inv /\ Open => Inv'
<1> SUFFICES ASSUME Inv, Open
             PROVE  Inv'
  OBVIOUS
<1>1. /\ pc' = "reading" /\ current' = 0 /\ text' = <<>>
      /\ base' = config.set /\ named' = named \cup GloballySet(text)
      /\ mode' = mode /\ seed' = seed
      /\ config' = [config EXCEPT !.path = TRUE, !.channels = <<>>,
                                  !.networks = <<>>, !.skipped = 0]
  BY DEF Open
<1>2. config \in ConfigType /\ mode \in {"none", "single", "multi"}
      /\ seed \in [Key -> Value]
  BY DEF Inv, TypeOK, ConfigType
<1>3. /\ config' \in ConfigType /\ config'.path
      /\ config'.set = config.set /\ config'.channels = <<>>
      /\ config'.networks = <<>> /\ config'.skipped = 0
  <2>1. <<>> \in Seq(Text) /\ <<>> \in Seq(Network) /\ 0 \in Nat
    OBVIOUS
  <2> QED  BY <1>1, <1>2, <2>1 DEF ConfigType
<1>4. Len(text') = 0 /\ text' \in Seq(Line) /\ Len(config'.networks) = 0
  BY <1>1, <1>3
<1>5. TypeOK'
  <2>1. config.set \in [Key -> Value]
    BY <1>2 DEF ConfigType
  <2>2. current' \in 0 .. Len(config'.networks)
    BY <1>1, <1>4
  <2> QED  BY <1>1, <1>2, <1>3, <1>4, <2>1, <2>2 DEF TypeOK, ConfigType
<1>6. ReaderState'
  <2>1. current' = HomeOf(text', Len(text'))
    BY <1>1, <1>4, NothingRead
  <2>2. \A k \in Key : base'[k] # seed'[k] => k \in named'
    BY <1>1, SetByNow
  <2> QED  BY <1>1, <1>3, <2>1, <2>2 DEF ReaderState
<1>7. LoadMeansFile'
  <2>1. ListsCut'
    <3>1. Cardinality(Sections(text', Len(text'))) = 0
      BY <1>1, <1>4, NothingRead, FS_EmptySet
    <3> QED  BY <1>3, <1>4, <3>1, ConfigAssumption DEF ListsCut
  <2>2. \A k \in Key :
          MeansGlobally(config'.set[k], text', Len(text'), base'[k], k)
    BY <1>1, <1>3, <1>4, NothingRead DEF MeansGlobally
  <2>3. ChannelsAre(config'.channels, text', 0)
    BY <1>1, <1>3, NothingRead, ChannelsNone
  <2>4. \A s \in 1 .. Len(config'.networks) : FALSE
    BY <1>4
  <2> QED  BY <2>1, <2>2, <2>3, <2>4 DEF LoadMeansFile
<1> QED  BY <1>5, <1>6, <1>7 DEF Inv

(* Steps that read nothing.                                                 *)
LEMMA RestInv ==
  ASSUME Inv, UNCHANGED <<seed, config, current, base, text, named>>,
         pc' \in {"loaded", "build", "building", "running", "done"} \/ pc' = pc,
         mode' \in {"none", "single", "multi"}
  PROVE  Inv'
<1>1. TypeOK'
  BY DEF Inv, TypeOK
<1>2. ReaderState'
  BY DEF Inv, ReaderState
<1>3. LoadMeansFile'
  BY DEF Inv, LoadMeansFile, ListsCut
<1> QED  BY <1>1, <1>2, <1>3 DEF Inv

LEMMA StepInv == Inv /\ [Next]_vars => Inv'
<1> SUFFICES ASSUME Inv, [Next]_vars
             PROVE  Inv'
  OBVIOUS
<1>1. mode \in {"none", "single", "multi"}
  BY DEF Inv, TypeOK
<1>2. CASE Load
  <2>1. CASE Close
    BY <1>1, <2>1, RestInv DEF Close, history
  <2> QED  BY <1>2, <2>1, OpenInv, ReadSectionInv, SkipSectionInv,
              ReadInSectionInv, ReadOutsideInv DEF Load
<1>3. CASE Unreadable \/ BeginUnusable
  BY <1>1, <1>3, RestInv DEF Unreadable, BeginUnusable, End, history
<1>4. CASE NoFile \/ Resume
  BY <1>1, <1>4, RestInv DEF NoFile, Resume, history
<1>5. CASE Begin
  BY <1>5, RestInv DEF Begin, history
<1>6. CASE Build
  BY <1>1, <1>6, RestInv
     DEF Build, BuildBegins, Look, AcceptSection, RejectSection, BuildEnds,
         history
<1>7. CASE UNCHANGED vars
  BY <1>1, <1>7, RestInv DEF vars, history
<1> QED  BY <1>2, <1>3, <1>4, <1>5, <1>6, <1>7 DEF Next

-----------------------------------------------------------------------------
(* The theorems                                                            *)

(* Types, the reader's place and the meaning of what is loaded hold         *)
(* together through every load: ambot_config_load and what calls it.        *)
THEOREM Invariance == Spec => []Inv
<1>1. Init => Inv
  BY InitInv
<1>2. Inv /\ [Next]_vars => Inv'
  BY StepInv
<1> QED  BY <1>1, <1>2, PTL DEF Spec

(* Whatever the file, every key, list and section ambot_config_load leaves  *)
(* is the one the file means, in the middle of a load as at its end.        *)
THEOREM LoadCorrect == Spec => []LoadMeansFile
<1>1. Inv => LoadMeansFile
  BY DEF Inv
<1> QED  BY <1>1, Invariance, PTL

(* What a key owes to the values before the load.                           *)
LEMMA StaleGlobal ==
  ASSUME Inv, NEW v, NEW n, NEW k \in Key,
         MeansGlobally(v, text, n, base[k], k),
         ~MeansGlobally(v, text, n, seed[k], k)
  PROVE  k \in named /\ Setters(text, n, 0, k) = {}
<1>1. Setters(text, n, 0, k) = {}
  BY DEF MeansGlobally
<1>2. base[k] # seed[k]
  BY <1>1 DEF MeansGlobally
<1> QED  BY <1>1, <1>2 DEF Inv, ReaderState

LEMMA StaleSection ==
  ASSUME Inv, NEW v, NEW s, NEW k \in NetKey,
         MeansInSection(v, text, base, s, k),
         ~MeansInSection(v, text, seed, s, k)
  PROVE  /\ k \in named \cap Inherited
         /\ \E p \in Starts(text, s) : Setters(text, p, 0, k) = {}
<1> DEFINE at == Setters(text, Len(text), s, k)
<1>1. at = {} /\ k \in Inherited
  <2>1. CASE at # {}
    BY <2>1 DEF MeansInSection
  <2>2. CASE at = {} /\ k \notin Inherited
    BY <2>2 DEF MeansInSection
  <2> QED  BY <2>1, <2>2
<1>2. PICK p \in Starts(text, s) : MeansGlobally(v, text, p, base[k], k)
  BY <1>1 DEF MeansInSection
<1>3. ~MeansGlobally(v, text, p, seed[k], k)
  BY <1>1, <1>2 DEF MeansInSection
<1>4. k \in Key
  BY KeysApart
<1>5. k \in named /\ Setters(text, p, 0, k) = {}
  BY <1>2, <1>3, <1>4, StaleGlobal
<1> QED  BY <1>1, <1>2, <1>5

(* Whatever the files, a value that outlives a RELOAD was set globally by   *)
(* an earlier file and is left open by the new one: ambot_config_load       *)
(* starts from what the load before it left (src/src/config.c:136).     *)
THEOREM StaleCorrect == Spec => []StaleOnlyIfDropped
<1>1. Inv => StaleOnlyIfDropped
  <2> SUFFICES ASSUME Inv, config.path
               PROVE  StaleOnlyIfDropped
    BY DEF StaleOnlyIfDropped
  <2>1. ASSUME NEW k \in Key,
               ~MeansGlobally(config.set[k], text, Len(text), seed[k], k)
        PROVE  k \in named \ GloballySet(text)
    <3>1. MeansGlobally(config.set[k], text, Len(text), base[k], k)
      BY DEF Inv, LoadMeansFile
    <3>2. k \in named /\ Setters(text, Len(text), 0, k) = {}
      BY <2>1, <3>1, StaleGlobal
    <3> QED  BY <3>2 DEF GloballySet
  <2>2. ASSUME NEW s \in 1 .. Len(config.networks), NEW k \in NetKey,
               ~MeansInSection(config.networks[s].set[k], text, seed, s, k)
        PROVE  /\ k \in named \cap Inherited
               /\ \E p \in Starts(text, s) : Setters(text, p, 0, k) = {}
    <3>1. MeansInSection(config.networks[s].set[k], text, base, s, k)
      BY DEF Inv, LoadMeansFile
    <3> QED  BY <2>2, <3>1, StaleSection
  <2> QED  BY <2>1, <2>2 DEF StaleOnlyIfDropped
<1> QED  BY <1>1, Invariance, PTL

-----------------------------------------------------------------------------
(* ambot_networks_from_config                                              *)

(* The code's test and what the documents say of a profile.                 *)
LEMMA ValidSays == ASSUME NEW net PROVE Valid(net) <=> ~Contradicts(net)
BY DEF Valid, Contradicts

LEMMA ServableFinite ==
  ASSUME NEW n \in Nat
  PROVE  /\ Servable(n) \subseteq 1 .. n /\ IsFiniteSet(Servable(n))
         /\ Cardinality(Servable(n)) \in Nat
<1>1. Servable(n) \subseteq 1 .. n
  BY DEF Servable
<1>2. IsFiniteSet(1 .. n)
  BY FS_Interval
<1>3. IsFiniteSet(Servable(n))
  BY <1>1, <1>2, FS_Subset
<1> QED  BY <1>1, <1>3, FS_CardinalityType

LEMMA ServableNone == Servable(0) = {} /\ Cardinality(Servable(0)) = 0
<1>1. Servable(0) = {}
  BY DEF Servable
<1> QED  BY <1>1, FS_EmptySet

(* One more section.                                                        *)
LEMMA ServableAccepted ==
  ASSUME NEW n \in Nat, ~Contradicts(config.networks[n + 1])
  PROVE  /\ Servable(n + 1) = Servable(n) \cup {n + 1}
         /\ Cardinality(Servable(n + 1)) = Cardinality(Servable(n)) + 1
<1>1. Servable(n + 1) = Servable(n) \cup {n + 1} /\ n + 1 \notin Servable(n)
  BY DEF Servable
<1> QED  BY <1>1, ServableFinite, FS_AddElement

LEMMA ServableRejected ==
  ASSUME NEW n \in Nat, Contradicts(config.networks[n + 1])
  PROVE  Servable(n + 1) = Servable(n)
BY DEF Servable

(* The place of a served section is one of the list's.                      *)
LEMMA ServablePlace ==
  ASSUME NEW n \in Nat, NEW s \in Servable(n)
  PROVE  Cardinality(Servable(s)) \in 1 .. Cardinality(Servable(n))
<1>1. s \in 1 .. n /\ s \in Nat
  BY DEF Servable
<1>2. Servable(s) \in SUBSET Servable(n) /\ s \in Servable(s)
  BY <1>1 DEF Servable
<1>3. /\ Cardinality(Servable(s)) \in Nat /\ Cardinality(Servable(n)) \in Nat
      /\ IsFiniteSet(Servable(s)) /\ IsFiniteSet(Servable(n))
  BY <1>1, ServableFinite
<1>4. Cardinality(Servable(s)) <= Cardinality(Servable(n))
  BY <1>2, <1>3, FS_Subset
<1>5. Cardinality(Servable(s)) # 0
  BY <1>2, <1>3, FS_EmptySet
<1> QED  BY <1>3, <1>4, <1>5

LEMMA BeginsStep == Inv /\ BuildState /\ BuildBegins => BuildState'
<1> SUFFICES ASSUME Inv, BuildState, BuildBegins
             PROVE  BuildState'
  OBVIOUS
<1>1. /\ config' = config /\ mode' = "multi" /\ pc' = "building"
      /\ nets' = <<>> /\ looked' = 0
      /\ skipped' = IF config.networks # <<>> THEN config.skipped ELSE 0
  BY DEF BuildBegins, BuildState
<1>2. config.skipped \in Nat /\ Len(config.networks) \in Nat
  BY DEF Inv, TypeOK
<1>3. Len(<<>>) = 0 /\ <<>> \in Seq(Network)
  OBVIOUS
<1>4. config.networks # <<>> => ServedUpTo(0)'
  <2>1. Servable(0)' = {} /\ Cardinality(Servable(0)') = 0
    BY <1>1, ServableNone DEF Servable
  <2> QED  BY <1>1, <1>2, <1>3, <2>1 DEF ServedUpTo
<1>5. ~config'.path => config'.networks = <<>>
  BY <1>1, Zenon DEF BuildState
<1> QED
  BY <1>1, <1>2, <1>3, <1>4, <1>5 DEF BuildState, SectionsAccounted, ServedUpTo

(* What the loop keeps.                                                     *)
LEMMA LookFacts ==
  ASSUME Inv, BuildState, Look
  PROVE  /\ config' = config /\ pc' = pc /\ pc = "building"
         /\ looked \in Nat /\ looked' = looked + 1
         /\ looked' \in 1 .. Len(config.networks) /\ config.networks # <<>>
         /\ config.networks[looked'] \in Network
         /\ ServedUpTo(looked) /\ nets \in Seq(Network)
         /\ skipped \in Nat /\ config.skipped \in Nat
         /\ \A n : Servable(n)' = Servable(n)
<1>1. config.networks \in Seq(Network) /\ config.skipped \in Nat
  BY DEF Inv, TypeOK
<1>2. /\ config' = config /\ pc' = pc /\ pc = "building"
      /\ looked' = looked + 1 /\ looked < Len(config.networks)
      /\ looked \in 0 .. Len(config.networks)
  BY DEF Look, BuildState
<1>3. Len(config.networks) \in Nat /\ looked \in Nat
  BY <1>1, <1>2
<1>4. looked' \in 1 .. Len(config.networks)
  BY <1>2, <1>3
<1>5. config.networks # <<>> /\ config.networks[looked'] \in Network
  BY <1>1, <1>4
<1>6. \A n : Servable(n)' = Servable(n)
  BY <1>2 DEF Servable
<1> QED
  BY <1>1, <1>2, <1>3, <1>4, <1>5, <1>6 DEF BuildState

LEMMA AcceptStep == Inv /\ BuildState /\ AcceptSection => BuildState'
<1> SUFFICES ASSUME Inv, BuildState, AcceptSection
             PROVE  BuildState'
  OBVIOUS
<1> DEFINE n   == looked
           net == config.networks[n + 1]
<1>1. /\ config' = config /\ pc' = pc /\ pc = "building"
      /\ n \in Nat /\ looked' = n + 1
      /\ looked' \in 1 .. Len(config.networks) /\ config.networks # <<>>
      /\ net \in Network
      /\ ServedUpTo(n) /\ nets \in Seq(Network)
      /\ skipped \in Nat /\ config.skipped \in Nat
      /\ \A m : Servable(m)' = Servable(m)
  BY LookFacts DEF AcceptSection
<1>2. nets' = Append(nets, net) /\ skipped' = skipped /\ ~Contradicts(net)
  BY <1>1, ValidSays DEF AcceptSection
<1> HIDE DEF net
<1>3. /\ nets' \in Seq(Network) /\ Len(nets) \in Nat
      /\ Len(nets') = Len(nets) + 1 /\ nets'[Len(nets) + 1] = net
      /\ \A j \in 1 .. Len(nets) : nets'[j] = nets[j]
  BY <1>1, <1>2
<1>4. /\ Servable(n + 1) = Servable(n) \cup {n + 1}
      /\ Cardinality(Servable(n + 1)) = Cardinality(Servable(n)) + 1
  BY <1>1, <1>2, ServableAccepted DEF net
<1>5. ServedUpTo(looked)'
  <2>1. Len(nets') = Cardinality(Servable(n + 1))
    BY <1>1, <1>3, <1>4 DEF ServedUpTo
  <2>2. ASSUME NEW s \in Servable(n + 1)
        PROVE  nets'[Cardinality(Servable(s))] = config.networks[s]
    <3>1. CASE s = n + 1
      <4>1. Cardinality(Servable(s)) = Len(nets) + 1
        BY <1>3, <2>1, <3>1
      <4> QED  BY <1>3, <3>1, <4>1 DEF net
    <3>2. CASE s \in Servable(n)
      <4>1. Cardinality(Servable(s)) \in 1 .. Len(nets)
        BY <1>1, <3>2, ServablePlace DEF ServedUpTo
      <4>2. nets[Cardinality(Servable(s))] = config.networks[s]
        BY <1>1, <3>2 DEF ServedUpTo
      <4> QED  BY <1>3, <4>1, <4>2
    <3> QED  BY <1>4, <3>1, <3>2
  <2>3. Len(nets') + skipped' = n + 1 + config.skipped
    <3>1. Len(nets) + skipped = n + config.skipped
      BY <1>1 DEF ServedUpTo
    <3> QED  BY <1>1, <1>2, <1>3, <3>1
  <2> QED  BY <1>1, <2>1, <2>2, <2>3 DEF ServedUpTo
<1>6. ~config'.path => config'.networks = <<>>
  BY <1>1, Zenon DEF BuildState
<1>7. looked' \in 0 .. Len(config'.networks) /\ pc' = "building"
      /\ skipped' \in Nat /\ config'.networks # <<>>
  BY <1>1, <1>2
<1> QED
  BY <1>3, <1>5, <1>6, <1>7, Zenon DEF BuildState, SectionsAccounted

LEMMA RejectStep == Inv /\ BuildState /\ RejectSection => BuildState'
<1> SUFFICES ASSUME Inv, BuildState, RejectSection
             PROVE  BuildState'
  OBVIOUS
<1> DEFINE n   == looked
           net == config.networks[n + 1]
<1>1. /\ config' = config /\ pc' = pc /\ pc = "building"
      /\ n \in Nat /\ looked' = n + 1
      /\ looked' \in 1 .. Len(config.networks) /\ config.networks # <<>>
      /\ ServedUpTo(n) /\ nets \in Seq(Network)
      /\ skipped \in Nat /\ config.skipped \in Nat
      /\ \A m : Servable(m)' = Servable(m)
  BY LookFacts DEF RejectSection
<1>2. nets' = nets /\ skipped' = skipped + 1 /\ Contradicts(net)
  BY <1>1, ValidSays DEF RejectSection
<1>3. Servable(n + 1) = Servable(n)
  BY <1>1, <1>2, ServableRejected
<1>4. ServedUpTo(looked)'
  <2>1. /\ Len(nets) = Cardinality(Servable(n))
        /\ \A s \in Servable(n) :
             nets[Cardinality(Servable(s))] = config.networks[s]
        /\ Len(nets) + skipped = n + config.skipped /\ Len(nets) \in Nat
    BY <1>1 DEF ServedUpTo
  <2>2. Len(nets') + skipped' = n + 1 + config.skipped
    BY <1>1, <1>2, <2>1
  <2> QED  BY <1>1, <1>2, <1>3, <2>1, <2>2 DEF ServedUpTo
<1>5. ~config'.path => config'.networks = <<>>
  BY <1>1, Zenon DEF BuildState
<1>6. looked' \in 0 .. Len(config'.networks) /\ pc' = "building"
      /\ skipped' \in Nat /\ config'.networks # <<>> /\ nets' \in Seq(Network)
  BY <1>1, <1>2
<1> QED
  BY <1>4, <1>5, <1>6, Zenon DEF BuildState, SectionsAccounted

LEMMA EndsStep == Inv /\ BuildState /\ BuildEnds => BuildState'
<1> SUFFICES ASSUME Inv, BuildState, BuildEnds
             PROVE  BuildState'
  OBVIOUS
<1>1. /\ config' = config /\ text' = text /\ skipped' = skipped
      /\ pc = "building" /\ looked = Len(config.networks)
      /\ nets' = IF /\ config.networks = <<>>
                    /\ Usable(config.set) /\ Valid(Legacy)
                  THEN <<Legacy>> ELSE nets
      /\ pc' = IF nets' = <<>> THEN "done" ELSE "running"
  BY DEF BuildEnds, history
<1>2. ~config'.path => config'.networks = <<>>
  BY <1>1, Zenon DEF BuildState
<1>3. pc' # "building" /\ pc' # "build" /\ (pc' = "running" => nets' # <<>>)
  BY <1>1
<1>4. CASE config.networks # <<>>
  <2>1. nets' = nets /\ ServedUpTo(Len(config.networks)) /\ config.path
    BY <1>1, <1>4 DEF BuildState
  <2>2. ServedUpTo(Len(config.networks))'
    BY <1>1, <2>1 DEF ServedUpTo, Servable
  <2>3. Len(nets) + skipped = Cardinality(Sections(text, Len(text)))
    BY <2>1 DEF ServedUpTo, Inv, LoadMeansFile, ListsCut
  <2> QED
    BY <1>1, <1>2, <1>3, <1>4, <2>1, <2>2, <2>3
       DEF BuildState, SectionsAccounted
<1>5. CASE config.networks = <<>>
  <2>1. nets = <<>>
    BY <1>1, <1>5 DEF BuildState
  <2>2. nets' # <<>> => nets' = <<Legacy>> /\ ~Contradicts(Legacy)
    BY <1>1, <2>1, ValidSays
  <2>3. Legacy' = Legacy
    BY <1>1 DEF Legacy
  <2>4. Contradicts(Legacy)' <=> Contradicts(Legacy)
    BY <2>3 DEF Contradicts, Has
  <2> QED
    BY <1>1, <1>2, <1>3, <1>5, <2>2, <2>3, <2>4
       DEF BuildState, SectionsAccounted
<1> QED  BY <1>4, <1>5

(* No other step builds, and only one that keeps the list goes on running.  *)
LEMMA ElsewhereStep ==
  ASSUME Inv, Inv', BuildState, [Next]_vars, ~Build
  PROVE  BuildState'
<1>1. CASE Load /\ ~Close
  <2>1. pc' = "reading"
    BY <1>1 DEF Load, Open, ReadSection, SkipSection, ReadInSection,
       ReadOutside, Read, Inv, ReaderState
  <2>2. config'.path
    BY <2>1 DEF Inv, ReaderState
  <2> QED  BY <2>1, <2>2 DEF BuildState, SectionsAccounted
<1>2. CASE UNCHANGED vars
  <2>1. UNCHANGED <<pc, mode, config, nets, skipped, looked, text>>
    BY <1>2 DEF vars, served, history
  <2>2. \A n : ServedUpTo(n)' <=> ServedUpTo(n)
    BY <2>1 DEF ServedUpTo, Servable
  <2>3. Legacy' = Legacy
    BY <2>1 DEF Legacy
  <2>4. Contradicts(Legacy)' <=> Contradicts(Legacy)
    BY <2>3 DEF Contradicts, Has
  <2>5. SectionsAccounted'
    BY <2>1, <2>2, <2>3, <2>4
       DEF BuildState, SectionsAccounted
  <2> QED  BY <2>1, <2>2, <2>5, Zenon DEF BuildState
<1>3. CASE Close \/ Unreadable \/ NoFile \/ Begin \/ BeginUnusable \/ Resume
  <2>1. config' = config /\ pc' # "building"
    BY <1>3 DEF Close, Unreadable, NoFile, Begin, BeginUnusable, Resume, End
  <2>2. /\ pc' = "build" => mode' = "multi"
        /\ pc' = "running" => mode' # "multi"
    BY <1>3 DEF Close, Unreadable, NoFile, Begin, BeginUnusable, Resume, End
  <2> QED  BY <2>1, <2>2 DEF BuildState, SectionsAccounted
<1> QED  BY <1>1, <1>2, <1>3 DEF Next

(* Whatever the file: every section that can be served is, as it was read   *)
(* and in the order of the file, and every other one is counted.            *)
THEOREM SectionsCorrect == Spec => []SectionsAccounted
<1>1. Init => BuildState
  BY DEF Init, BuildState, SectionsAccounted
<1>2. Inv /\ Inv' /\ BuildState /\ [Next]_vars => BuildState'
  BY BeginsStep, AcceptStep, RejectStep, EndsStep, ElsewhereStep DEF Build
<1>3. BuildState => SectionsAccounted
  BY DEF BuildState
<1> QED  BY <1>1, <1>2, <1>3, Invariance, PTL DEF Spec
=============================================================================
