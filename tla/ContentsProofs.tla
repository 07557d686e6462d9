--------------------------- MODULE ContentsProofs ---------------------------
(***************************************************************************)
(* What the scripts of Contents come to, once they are put together, and   *)
(* what a plan keeps of its script.                                        *)
(***************************************************************************)
EXTENDS Contents, TLAPS, WellFoundedInduction

(* Induction over a set of naturals. *)
LEMMA SetInduction ==
    ASSUME NEW T, 0 \in T, \A n \in Nat : n \in T => n + 1 \in T
    PROVE  Nat \subseteq T
<1> DEFINE out == Nat \ T
<1> SUFFICES ASSUME out # {} PROVE FALSE
    OBVIOUS
<1>1. PICK x \in out : \A y \in out : ~ (<<y, x>> \in OpToRel(<, Nat))
    <2>1. out \subseteq Nat
        OBVIOUS
    <2> HIDE DEF out
    <2> QED BY <2>1, NatLessThanWellFounded, WFMin
<1>2. x \in Nat /\ x # 0 /\ x - 1 \in Nat /\ x - 1 < x /\ (x - 1) + 1 = x
    OBVIOUS
<1>3. x - 1 \notin T
    BY <1>2
<1>4. <<x - 1, x>> \in OpToRel(<, Nat)
    BY <1>2 DEF OpToRel
<1>5. x - 1 \in out
    BY <1>2, <1>3
<1> HIDE DEF out
<1> QED BY <1>1, <1>4, <1>5

(* g[i] is what is chosen among the first i elements of s. *)
Chooses(s, steps, n, g) ==
    g = [i \in 0..n |-> IF i = 0 THEN <<>>
                        ELSE IF s[i] \in steps THEN Append(g[i - 1], s[i]) ELSE g[i - 1]]

LEMMA ChoosesExtends ==
    ASSUME NEW s, NEW steps, NEW n \in Nat, NEW g, Chooses(s, steps, n, g)
    PROVE  \E h : Chooses(s, steps, n + 1, h)
<1> DEFINE last == IF s[n + 1] \in steps THEN Append(g[n], s[n + 1]) ELSE g[n]
           h == [i \in 0..(n + 1) |-> IF i = n + 1 THEN last ELSE g[i]]
           Upto(f, i) == IF i = 0 THEN <<>>
                         ELSE IF s[i] \in steps THEN Append(f[i - 1], s[i]) ELSE f[i - 1]
<1>1. ASSUME NEW i \in 0..n PROVE g[i] = Upto(g, i)
    BY DEF Chooses
<1>2. ASSUME NEW i \in 0..(n + 1) PROVE h[i] = Upto(h, i)
    <2>1. CASE i = n + 1
        <3>1. h[i] = last /\ i - 1 = n /\ h[i - 1] = g[n] /\ i # 0
            BY <2>1
        <3> QED BY <2>1, <3>1
    <2>2. CASE i \in 1..n
        <3>1. h[i] = g[i] /\ h[i - 1] = g[i - 1] /\ i # 0 /\ i \in 0..n
            BY <2>2
        <3> QED BY <3>1, <1>1
    <2>3. CASE i = 0
        <3>1. h[0] = g[0] /\ g[0] = <<>>
            BY <1>1
        <3> QED BY <2>3, <3>1
    <2> QED BY <2>1, <2>2, <2>3
<1>3. h = [i \in 0..(n + 1) |-> h[i]]
    OBVIOUS
<1> HIDE DEF h
<1>4. h = [i \in 0..(n + 1) |-> Upto(h, i)]
    BY <1>2, <1>3
<1>5. Chooses(s, steps, n + 1, h)
    BY <1>4 DEF Chooses
<1> QED BY <1>5

LEMMA ChoosesExists ==
    ASSUME NEW s, NEW steps
    PROVE  \A n \in Nat : \E g : Chooses(s, steps, n, g)
<1> DEFINE T == {n \in Nat : \E g : Chooses(s, steps, n, g)}
<1>1. 0 \in T
    <2> DEFINE g == [i \in 0..0 |-> <<>>]
    <2>1. Chooses(s, steps, 0, g)
        BY DEF Chooses
    <2> QED BY <2>1
<1>2. \A n \in Nat : n \in T => n + 1 \in T
    BY ChoosesExtends
<1>3. Nat \subseteq T
    <2> HIDE DEF T
    <2> QED BY <1>1, <1>2, SetInduction
<1> QED BY <1>3

LEMMA ChosenIs ==
    ASSUME NEW s, NEW steps, Len(s) \in Nat
    PROVE \E g : Chooses(s, steps, Len(s), g) /\ Chosen(s, steps) = g[Len(s)]
<1> DEFINE f == CHOOSE g : Chooses(s, steps, Len(s), g)
<1>1. Chosen(s, steps) = f[Len(s)]
   BY DEF Chosen, Chooses
<1>2. Chooses(s, steps, Len(s), f)
   BY ChoosesExists
<1> QED BY <1>1, <1>2

(* What comes before the element i of s. *)
Prior(s, i) == {s[j] : j \in 1..(i - 1)}

(* p is what steps keeps of the first n elements of s: each of its elements *)
(* stands in s after the same others.                                       *)
Follows(p, s, steps, n) ==
    /\ p \in Seq(steps)
    /\ \A i \in 1..Len(p) : \E m \in 1..n :
         p[i] = s[m] /\ Prior(p, i) = Prior(s, m) \cap steps
    /\ Prior(p, Len(p) + 1) = Prior(s, n + 1) \cap steps

LEMMA FollowsNext ==
    ASSUME NEW s, NEW steps, NEW n \in Nat, NEW p, NEW q, Follows(p, s, steps, n),
           q = IF s[n + 1] \in steps THEN Append(p, s[n + 1]) ELSE p
    PROVE  Follows(q, s, steps, n + 1)
<1>1. p \in Seq(steps) /\ Len(p) \in Nat
    BY DEF Follows
<1>2. Prior(s, n + 2) = Prior(s, n + 1) \cup {s[n + 1]}
    BY DEF Prior
<1>3. \A i \in 1..Len(p) : \E m \in 1..(n + 1) :
         p[i] = s[m] /\ Prior(p, i) = Prior(s, m) \cap steps
    <2> SUFFICES ASSUME NEW i \in 1..Len(p)
                 PROVE \E m \in 1..(n + 1) :
                          p[i] = s[m] /\ Prior(p, i) = Prior(s, m) \cap steps
        OBVIOUS
    <2>1. PICK m \in 1..n : p[i] = s[m] /\ Prior(p, i) = Prior(s, m) \cap steps
        BY DEF Follows
    <2> QED BY <2>1
<1>4. Prior(p, Len(p) + 1) = Prior(s, n + 1) \cap steps
    BY DEF Follows
<1>5. CASE s[n + 1] \in steps
    <2>1. q = Append(p, s[n + 1])
        BY <1>5
    <2>2. /\ q \in Seq(steps) /\ Len(q) = Len(p) + 1 /\ q[Len(p) + 1] = s[n + 1]
          /\ \A i \in 1..Len(p) : q[i] = p[i]
        BY <1>1, <1>5, <2>1
    <2>3. \A i \in 1..(Len(p) + 1) : Prior(q, i) = Prior(p, i)
        BY <1>1, <2>2 DEF Prior
    <2>4. Prior(q, Len(q) + 1) = Prior(p, Len(p) + 1) \cup {s[n + 1]}
        BY <1>1, <2>2 DEF Prior
    <2>5. Prior(q, Len(q) + 1) = Prior(s, (n + 1) + 1) \cap steps
        BY <1>2, <1>4, <1>5, <2>4
    <2>6. ASSUME NEW i \in 1..Len(q)
          PROVE \E m \in 1..(n + 1) :
                   q[i] = s[m] /\ Prior(q, i) = Prior(s, m) \cap steps
        <3>1. CASE i = Len(p) + 1
            <4>1. q[i] = s[n + 1] /\ Prior(q, i) = Prior(s, n + 1) \cap steps
                BY <1>1, <1>4, <2>2, <2>3, <3>1
            <4> QED BY <4>1
        <3>2. CASE i \in 1..Len(p)
            <4>1. q[i] = p[i] /\ Prior(q, i) = Prior(p, i)
                BY <1>1, <2>2, <2>3, <3>2
            <4> QED BY <1>3, <3>2, <4>1
        <3> QED BY <1>1, <2>2, <3>1, <3>2
    <2> QED BY <2>2, <2>5, <2>6 DEF Follows
<1>6. CASE s[n + 1] \notin steps
    <2>1. q = p
        BY <1>6
    <2>2. Prior(q, Len(q) + 1) = Prior(s, (n + 1) + 1) \cap steps
        BY <1>2, <1>4, <1>6, <2>1
    <2> QED BY <1>1, <1>3, <2>1, <2>2 DEF Follows
<1> QED BY <1>5, <1>6

LEMMA ChosenFollows ==
    ASSUME NEW s, NEW steps, Len(s) \in Nat
    PROVE  Follows(Chosen(s, steps), s, steps, Len(s))
<1>1. PICK g : Chooses(s, steps, Len(s), g) /\ Chosen(s, steps) = g[Len(s)]
    BY ChosenIs
<1> DEFINE T == {n \in Nat : n <= Len(s) => Follows(g[n], s, steps, n)}
<1>2. \A i \in 0..Len(s) :
        g[i] = IF i = 0 THEN <<>>
               ELSE IF s[i] \in steps THEN Append(g[i - 1], s[i]) ELSE g[i - 1]
    BY <1>1 DEF Chooses
<1>3. 0 \in T
    <2>1. g[0] = <<>>
        BY <1>2
    <2>2. Prior(<<>>, 1) = {} /\ Prior(s, 1) = {}
        BY DEF Prior
    <2>3. Follows(<<>>, s, steps, 0)
        BY <2>2 DEF Follows
    <2> QED BY <2>1, <2>3
<1>4. ASSUME NEW n \in Nat, n \in T PROVE n + 1 \in T
    <2> SUFFICES ASSUME n + 1 <= Len(s) PROVE Follows(g[n + 1], s, steps, n + 1)
        OBVIOUS
    <2>1. Follows(g[n], s, steps, n)
        BY <1>4
    <2>2. n + 1 \in 0..Len(s) /\ n + 1 # 0 /\ (n + 1) - 1 = n
        OBVIOUS
    <2>3. g[n + 1] = IF s[n + 1] \in steps THEN Append(g[n], s[n + 1]) ELSE g[n]
        BY <1>2, <2>2
    <2> QED BY <2>1, <2>3, FollowsNext
<1>5. Nat \subseteq T
    <2> HIDE DEF T
    <2> QED BY <1>3, <1>4, SetInduction
<1> QED BY <1>1, <1>5

(* A plan keeps the statements among steps; it has one if its script does. *)
LEMMA PlanType ==
    ASSUME NEW s, NEW steps, Len(s) \in Nat, NEW i \in 1..Len(s), s[i] \in steps
    PROVE  Plan(s, "none", steps) \in Seq(steps) \ {<<>>}
<1>1. Plan(s, "none", steps) = Chosen(s, steps)
    BY DEF Plan
<1> DEFINE p == Chosen(s, steps)
<1>2. Follows(p, s, steps, Len(s))
    BY ChosenFollows
<1> HIDE DEF p
<1>3. p \in Seq(steps) /\ s[i] \in Prior(p, Len(p) + 1)
    BY <1>2 DEF Follows, Prior
<1>4. p # <<>>
    BY <1>3 DEF Prior
<1> QED BY <1>1, <1>3, <1>4 DEF p

(* What comes before the first element with a name. *)
LEMMA BeforeIs ==
    ASSUME NEW s, Len(s) \in Nat, DOMAIN s = 1..Len(s), NEW name \in Names(s)
    PROVE  \E m \in 1..Len(s) :
             /\ s[m] = name /\ Len(Before(s, name)) = m - 1
             /\ \A i \in 1..(m - 1) : Before(s, name)[i] = s[i]
<1> DEFINE First(i) == s[i] = name /\ \A j \in 1..(i - 1) : s[j] # name
<1>1. \E i \in DOMAIN s : First(i)
    <2> DEFINE T == {i \in Nat : i \in DOMAIN s /\ s[i] = name}
    <2>1. T # {} /\ T \subseteq Nat
        BY DEF Names
    <2>2. PICK i \in T : \A j \in T : ~(<<j, i>> \in OpToRel(<, Nat))
        <3> HIDE DEF T
        <3> QED BY <2>1, NatLessThanWellFounded, WFMin
    <2>3. ASSUME NEW j \in 1..(i - 1), s[j] = name PROVE FALSE
        <3>1. j \in T /\ j \in Nat /\ i \in Nat /\ j < i
            BY <2>3
        <3>2. <<j, i>> \in OpToRel(<, Nat)
            BY <3>1 DEF OpToRel
        <3> HIDE DEF T
        <3> QED BY <2>2, <3>1, <3>2
    <2> QED BY <2>3
<1> DEFINE m == CHOOSE i \in DOMAIN s : First(i)
<1>2. m \in DOMAIN s /\ First(m)
    <2> HIDE DEF First
    <2> QED BY <1>1
<1>3. Before(s, name) = SubSeq(s, 1, m - 1)
    BY DEF Before
<1> HIDE DEF m
<1>4. /\ Len(SubSeq(s, 1, m - 1)) = m - 1
      /\ \A i \in 1..(m - 1) : SubSeq(s, 1, m - 1)[i] = s[i]
    BY <1>2
<1> QED BY <1>2, <1>3, <1>4
-----------------------------------------------------------------------------
(* The scripts, statement by statement. *)
LEMMA NewsCreateIs ==
    ASSUME NEW s, s = NewsCreate
    PROVE  /\ Len(s) = 5 /\ DOMAIN s = 1..5
           /\ s[1] = "title" /\ s[2] = "upload" /\ s[3] = "next" /\ s[4] = "insert"
           /\ s[5] = "detail"
BY DEF NewsCreate, NewsCreateAll, NewsCreateRow, NewsNext, NewsInsert, NewsDetail

LEMMA LumirCreateIs ==
    ASSUME NEW s, s = LumirCreate
    PROVE  /\ Len(s) = 6 /\ DOMAIN s = 1..6
           /\ s[1] = "title" /\ s[2] = "content" /\ s[3] = "upload" /\ s[4] = "next"
           /\ s[5] = "insert" /\ s[6] = "detail"
BY DEF LumirCreate, LumirCreateAll, LumirCreateRow, LumirNext, LumirInsert,
       LumirDetail

LEMMA VideoCreateIs ==
    ASSUME NEW s, s = VideoCreate
    PROVE  /\ Len(s) = 7 /\ DOMAIN s = 1..7
           /\ s[1] = "title" /\ s[2] = "json" /\ s[3] = "upload" /\ s[4] = "links"
           /\ s[5] = "next" /\ s[6] = "insert" /\ s[7] = "detail"
BY DEF VideoCreate, VideoCreateAll, VideoCreateRow, VideoNext, VideoInsert,
       VideoDetail

LEMMA BrochureCreateIs ==
    ASSUME NEW s, s = BrochureCreate
    PROVE  /\ Len(s) = 9 /\ DOMAIN s = 1..9
           /\ s[1] = "translations" /\ s[2] = "upload" /\ s[3] = "languageId"
           /\ s[4] = "title" /\ s[5] = "language" /\ s[6] = "twice" /\ s[7] = "next"
           /\ s[8] = "insert" /\ s[9] = "detail"
BY DEF BrochureCreate, BrochureCreateAll, BrochureCreateRow, BrochureNext,
       BrochureInsert, BrochureDetail

LEMMA DisclosureCreateIs ==
    ASSUME NEW s, s = DisclosureCreate
    PROVE  /\ Len(s) = 8 /\ DOMAIN s = 1..8
           /\ s[1] = "translations" /\ s[2] = "languageId" /\ s[3] = "title"
           /\ s[4] = "upload" /\ s[5] = "language" /\ s[6] = "twice"
           /\ s[7] = "next" /\ s[8] = "insert"
BY DEF DisclosureCreate, DisclosureCreateAll, DisclosureCreateRow, DisclosureNext,
       DisclosureInsert

LEMMA MeetingCreateIs ==
    ASSUME NEW s, s = MeetingCreate
    PROVE  /\ Len(s) = 11 /\ DOMAIN s = 1..11
           /\ s[1] = "translations" /\ s[2] = "title" /\ s[3] = "languageId"
           /\ s[4] = "location" /\ s[5] = "date" /\ s[6] = "votes"
           /\ s[7] = "upload" /\ s[8] = "language" /\ s[9] = "twice"
           /\ s[10] = "next" /\ s[11] = "insert"
BY DEF MeetingCreate, MeetingCreateAll, MeetingCreateRow, MeetingNext, MeetingInsert

LEMMA WikiCreateIs ==
    ASSUME NEW s, s = WikiCreate
    PROVE  /\ Len(s) = 5 /\ DOMAIN s = 1..5
           /\ s[1] = "name" /\ s[2] = "upload" /\ s[3] = "parent" /\ s[4] = "insert"
           /\ s[5] = "detail"
BY DEF WikiCreate, WikiCreateAll, WikiInsert, WikiDetail

LEMMA WikiCreateEmptyIs ==
    ASSUME NEW s, s = WikiCreateEmpty
    PROVE  /\ Len(s) = 5 /\ DOMAIN s = 1..5
           /\ s[1] = "name" /\ s[2] = "flag" /\ s[3] = "parent" /\ s[4] = "insert"
           /\ s[5] = "detail"
BY DEF WikiCreateEmpty, WikiCreateEmptyAll, WikiInsert, WikiDetail

LEMMA WikiMoveIs ==
    ASSUME NEW s, s = WikiMove
    PROVE  /\ Len(s) = 4 /\ DOMAIN s = 1..4
           /\ s[1] = "find" /\ s[2] = "descendant" /\ s[3] = "parent" /\ s[4] = "saveRest"
BY DEF WikiMove, WikiSetParent

LEMMA BrochureSamplesIs ==
    ASSUME NEW s, s = BrochureSamples
    PROVE  /\ Len(s) = 2 /\ DOMAIN s = 1..2
           /\ s[1] = "insertSample" /\ s[2] = "detail"
BY DEF BrochureSamples, BrochureDetail

LEMMA NewsEditIs ==
    ASSUME NEW s, s = NewsEdit
    PROVE  /\ Len(s) = 9 /\ DOMAIN s = 1..9
           /\ s[1] = "uuid" /\ s[2] = "title" /\ s[3] = "detail"
           /\ s[4] = "purge" /\ s[5] = "upload" /\ s[6] = "find"
           /\ s[7] = "saveFiles" /\ s[8] = "find" /\ s[9] = "saveRest"
BY DEF NewsEdit, NewsEditAll, NewsDetail, NewsSetFiles, NewsSetText,
       NewsUpdate

LEMMA LumirEditIs ==
    ASSUME NEW s, s = LumirEdit
    PROVE  /\ Len(s) = 9 /\ DOMAIN s = 1..9
           /\ s[1] = "title" /\ s[2] = "content" /\ s[3] = "detail"
           /\ s[4] = "purge" /\ s[5] = "upload" /\ s[6] = "find"
           /\ s[7] = "saveFiles" /\ s[8] = "find" /\ s[9] = "saveRest"
BY DEF LumirEdit, LumirEditAll, LumirDetail, LumirSetFiles, LumirSetText, LumirUpdate

LEMMA VideoEditIs ==
    ASSUME NEW s, s = VideoEdit
    PROVE  /\ Len(s) = 10 /\ DOMAIN s = 1..10
           /\ s[1] = "title" /\ s[2] = "json" /\ s[3] = "detail" /\ s[4] = "purge"
           /\ s[5] = "upload" /\ s[6] = "links" /\ s[7] = "find"
           /\ s[8] = "saveFiles" /\ s[9] = "find" /\ s[10] = "saveRest"
BY DEF VideoEdit, VideoEditAll, VideoDetail, VideoSetFiles, VideoSetText, VideoUpdate

LEMMA BrochureEditIs ==
    ASSUME NEW s, s = BrochureEdit
    PROVE  /\ Len(s) = 8 /\ DOMAIN s = 1..8
           /\ s[1] = "translations" /\ s[2] = "detail" /\ s[3] = "purge"
           /\ s[4] = "upload" /\ s[5] = "find" /\ s[6] = "saveFiles"
           /\ s[7] = "find" /\ s[8] = "saveRest"
BY DEF BrochureEdit, BrochureEditAll, BrochureDetail, BrochureSetFiles,
       BrochureSetText

LEMMA DisclosureEditIs ==
    ASSUME NEW s, s = DisclosureEdit
    PROVE  /\ Len(s) = 12 /\ DOMAIN s = 1..12
           /\ s[1] = "uuid" /\ s[2] = "translations" /\ s[3] = "languageId"
           /\ s[4] = "title" /\ s[5] = "detail" /\ s[6] = "purge"
           /\ s[7] = "upload" /\ s[8] = "find" /\ s[9] = "saveFiles"
           /\ s[10] = "find" /\ s[11] = "saveRest" /\ s[12] = "language"
BY DEF DisclosureEdit, DisclosureEditAll, DisclosureDetail,
       DisclosureSetFiles, DisclosureSetText, DisclosureUpdate

LEMMA PopupEditIs ==
    ASSUME NEW s, s = PopupEdit
    PROVE  /\ Len(s) = 13 /\ DOMAIN s = 1..13
           /\ s[1] = "uuid" /\ s[2] = "translations" /\ s[3] = "languageId"
           /\ s[4] = "title" /\ s[5] = "detail" /\ s[6] = "purge"
           /\ s[7] = "upload" /\ s[8] = "find" /\ s[9] = "saveFiles"
           /\ s[10] = "find" /\ s[11] = "saveRest" /\ s[12] = "language"
           /\ s[13] = "twice"
BY DEF PopupEdit, PopupEditAll, PopupDetail, PopupSetFiles, PopupSetText,
       PopupUpdate

LEMMA MeetingEditIs ==
    ASSUME NEW s, s = MeetingEdit
    PROVE  /\ Len(s) = 14 /\ DOMAIN s = 1..14
           /\ s[1] = "uuid" /\ s[2] = "translations" /\ s[3] = "title"
           /\ s[4] = "date" /\ s[5] = "votes" /\ s[6] = "detail"
           /\ s[7] = "purge" /\ s[8] = "upload" /\ s[9] = "find"
           /\ s[10] = "saveFiles" /\ s[11] = "find" /\ s[12] = "saveRest"
           /\ s[13] = "language" /\ s[14] = "vote"
BY DEF MeetingEdit, MeetingEditAll, MeetingDetail, MeetingSetFiles,
       MeetingSetText, MeetingSetVotes, MeetingFindVote, MeetingUpdate

LEMMA WikiEditIs ==
    ASSUME NEW s, s = WikiEdit
    PROVE  /\ Len(s) = 8 /\ DOMAIN s = 1..8
           /\ s[1] = "name" /\ s[2] = "detail" /\ s[3] = "purge" /\ s[4] = "upload"
           /\ s[5] = "find" /\ s[6] = "saveFiles" /\ s[7] = "find"
           /\ s[8] = "saveRest"
BY DEF WikiEdit, WikiEditAll, WikiDetail, WikiSetFiles, WikiUpdate

LEMMA NewsPublishIs ==
    ASSUME NEW s, s = NewsPublish
    PROVE  /\ Len(s) = 4 /\ DOMAIN s = 1..4
           /\ s[1] = "flag" /\ s[2] = "uuid" /\ s[3] = "find"
           /\ s[4] = "savePublic"
BY DEF NewsPublish, NewsSetPublic, NewsUpdate

LEMMA LumirPublishIs ==
    ASSUME NEW s, s = LumirPublish
    PROVE  /\ Len(s) = 3 /\ DOMAIN s = 1..3
           /\ s[1] = "flag" /\ s[2] = "find" /\ s[3] = "savePublic"
BY DEF LumirPublish, LumirSetPublic, LumirUpdate

LEMMA DisclosurePublishIs ==
    ASSUME NEW s, s = DisclosurePublish
    PROVE  /\ Len(s) = 3 /\ DOMAIN s = 1..3
           /\ s[1] = "uuid" /\ s[2] = "find" /\ s[3] = "savePublic"
BY DEF DisclosurePublish, DisclosureSetPublic, DisclosureUpdate

LEMMA PopupPublishIs ==
    ASSUME NEW s, s = PopupPublish
    PROVE  /\ Len(s) = 4 /\ DOMAIN s = 1..4
           /\ s[1] = "uuid" /\ s[2] = "flag" /\ s[3] = "find"
           /\ s[4] = "savePublic"
BY DEF PopupPublish, PopupSetPublic, PopupUpdate

LEMMA NewsRemoveIs ==
    ASSUME NEW s, s = NewsRemove
    PROVE  /\ Len(s) = 3 /\ DOMAIN s = 1..3
           /\ s[1] = "uuid" /\ s[2] = "find" /\ s[3] = "remove"
BY DEF NewsRemove, NewsSoftRemove

LEMMA LumirRemoveIs ==
    ASSUME NEW s, s = LumirRemove
    PROVE  /\ Len(s) = 2 /\ DOMAIN s = 1..2
           /\ s[1] = "find" /\ s[2] = "remove"
BY DEF LumirRemove, LumirSoftRemove

LEMMA WikiRemoveIs ==
    ASSUME NEW s, s = WikiRemove
    PROVE  /\ Len(s) = 4 /\ DOMAIN s = 1..4
           /\ s[1] = "detail" /\ s[2] = "purge" /\ s[3] = "find" /\ s[4] = "remove"
BY DEF WikiRemove, WikiDetail, WikiSoftRemove

LEMMA AnnouncementCreateIs ==
    ASSUME NEW s, s = AnnouncementCreate
    PROVE  /\ Len(s) = 1 /\ DOMAIN s = 1..1
           /\ s[1] = "insert"
BY DEF AnnouncementCreate

LEMMA AnnouncementPublishIs ==
    ASSUME NEW s, s = AnnouncementPublish
    PROVE  /\ Len(s) = 3 /\ DOMAIN s = 1..3
           /\ s[1] = "find" /\ s[2] = "incomplete" /\ s[3] = "savePublic"
BY DEF AnnouncementPublish

LEMMA AnnouncementRemoveIs ==
    ASSUME NEW s, s = AnnouncementRemove
    PROVE  /\ Len(s) = 3 /\ DOMAIN s = 1..3
           /\ s[1] = "find" /\ s[2] = "published" /\ s[3] = "remove"
BY DEF AnnouncementRemove

(* Kinds that do the same. *)
LEMMA SameScripts ==
    /\ IrCreate = DisclosureCreate
    /\ PopupCreate = DisclosureCreate
    /\ IrEdit = DisclosureEdit
    /\ VideoPublish = LumirPublish
    /\ BrochurePublish = LumirPublish
    /\ WikiPublish = LumirPublish
    /\ MeetingPublish = PopupPublish
    /\ IrPublish = DisclosurePublish
    /\ VideoRemove = LumirRemove
    /\ BrochureRemove = LumirRemove
    /\ BrochureRemoveSamples = LumirRemove
    /\ DisclosureRemove = NewsRemove
    /\ IrRemove = NewsRemove
    /\ PopupRemove = NewsRemove
    /\ MeetingRemove = NewsRemove
<1>1. IrCreate = DisclosureCreate
    BY DEF IrCreate, IrCreateAll, IrCreateRow, IrNext, IrInsert,
           DisclosureCreate, DisclosureCreateAll, DisclosureCreateRow,
           DisclosureNext, DisclosureInsert
<1>2. PopupCreate = DisclosureCreate
    BY DEF PopupCreate, PopupCreateAll, PopupCreateRow, PopupNext,
           PopupInsert, DisclosureCreate, DisclosureCreateAll,
           DisclosureCreateRow, DisclosureNext, DisclosureInsert
<1>3. IrEdit = DisclosureEdit
    BY DEF IrEdit, IrEditAll, IrDetail, IrSetFiles, IrSetText, IrUpdate,
           DisclosureEdit, DisclosureEditAll, DisclosureDetail,
           DisclosureSetFiles, DisclosureSetText, DisclosureUpdate
<1>4. VideoPublish = LumirPublish
    BY DEF VideoPublish, VideoSetPublic, VideoUpdate, LumirPublish,
           LumirSetPublic, LumirUpdate
<1>5. BrochurePublish = LumirPublish
    BY DEF BrochurePublish, BrochureSetPublic, BrochureUpdate, LumirPublish,
           LumirSetPublic, LumirUpdate
<1>6. WikiPublish = LumirPublish
    BY DEF WikiPublish, WikiSetPublic, WikiUpdate, LumirPublish, LumirSetPublic, LumirUpdate
<1>7. MeetingPublish = PopupPublish
    BY DEF MeetingPublish, MeetingSetPublic, MeetingUpdate, PopupPublish,
           PopupSetPublic, PopupUpdate
<1>8. IrPublish = DisclosurePublish
    BY DEF IrPublish, IrSetPublic, IrUpdate, DisclosurePublish,
           DisclosureSetPublic, DisclosureUpdate
<1>9. VideoRemove = LumirRemove
    BY DEF VideoRemove, VideoSoftRemove, LumirRemove, LumirSoftRemove
<1>10. BrochureRemove = LumirRemove
    BY DEF BrochureRemove, BrochureSoftRemove, LumirRemove, LumirSoftRemove
<1>11. DisclosureRemove = NewsRemove
    BY DEF DisclosureRemove, DisclosureSoftRemove, NewsRemove, NewsSoftRemove
<1>12. IrRemove = NewsRemove
    BY DEF IrRemove, IrSoftRemove, NewsRemove, NewsSoftRemove
<1>13. PopupRemove = NewsRemove
    BY DEF PopupRemove, PopupSoftRemove, NewsRemove, NewsSoftRemove
<1>14. MeetingRemove = NewsRemove
    BY DEF MeetingRemove, MeetingSoftRemove, NewsRemove, NewsSoftRemove
<1>15. BrochureRemoveSamples = LumirRemove
    BY DEF BrochureRemoveSamples, BrochureSoftRemove, LumirRemove, LumirSoftRemove
<1> QED BY <1>1, <1>2, <1>3, <1>4, <1>5, <1>6, <1>7, <1>8, <1>9,
            <1>10, <1>11, <1>12, <1>13, <1>14, <1>15

=============================================================================
