------------------------- MODULE AttachmentsProofs --------------------------
(***************************************************************************)
(* Proofs about Attachments, for any sets of contents, files and requests: *)
(* first that the scripts are in order, then what follows from it for the  *)
(* files.                                                                  *)
(***************************************************************************)
EXTENDS Attachments, ContentsProofs

(* What Ordered asks of a plan at its statement i. *)
PlanAt(k, op, s, i) ==
    /\ s[i] = "detail" => "purge" \notin Prior(s, i)
    /\ s[i] = "purge" => Prior(s, i) \cap {"purge", "saveFiles", "remove"} = {}
    /\ s[i] = "upload" => Prior(s, i) \cap {"upload", "insert", "saveFiles"} = {}
    /\ s[i] = "saveFiles" =>
         "purge" \in Prior(s, i) /\ Prior(s, i) \cap {"insert", "saveFiles"} = {}
    /\ s[i] \in Inserts => op \in Creating /\ Prior(s, i) \cap Writes = {}
    /\ s[i] = "refuse" /\ ~ (k = "video" /\ s = BadLinks) /\ "purge" \in Prior(s, i) =>
         Prior(s, i) \cap {"saveFiles", "remove"} # {}
Completes(all) ==
    /\ "upload" \in all => all \cap {"insert", "saveFiles"} # {}
    /\ "purge" \in all => all \cap {"saveFiles", "remove"} # {}

(* What this takes of a script: any of its checks may refuse. *)
OrderedAt(k, op, s, i) ==
    /\ PlanAt(k, op, s, i)
    /\ s[i] \notin Await /\ ~ (k = "video" /\ s = VideoEdit /\ s[i] = "links")
         /\ "purge" \in Prior(s, i) =>
         Prior(s, i) \cap {"saveFiles", "remove"} # {}
Orderly(k, op, s) ==
    /\ Len(s) \in Nat /\ DOMAIN s = 1..Len(s)
    /\ \E i \in 1..Len(s) : s[i] \in Steps
    /\ \A i \in 1..Len(s) : OrderedAt(k, op, s, i)
    /\ Completes(Prior(s, Len(s) + 1))

(* The plans of such a script are in order, whatever refuses it.           *)
LEMMA PlanOrderly ==
    ASSUME NEW k, NEW op, NEW s, Orderly(k, op, s), NEW flaw \in Flaws(s),
           NEW plan, plan = Plan(s, flaw, Steps)
    PROVE  /\ plan \in Seq(Steps \cup {"refuse"}) \ {<<>>}
           /\ \A i \in DOMAIN plan : PlanAt(k, op, plan, i)
           /\ plan[Len(plan)] # "refuse" => Completes(Prior(plan, Len(plan) + 1))
<1>1. /\ Len(s) \in Nat /\ DOMAIN s = 1..Len(s)
      /\ \E i \in 1..Len(s) : s[i] \in Steps
      /\ \A i \in 1..Len(s) : OrderedAt(k, op, s, i)
      /\ Completes(Prior(s, Len(s) + 1))
    BY DEF Orderly
<1>2. "refuse" \notin Steps
    BY DEF Steps
<1>3. ASSUME NEW p \in Seq(Steps), NEW i \in 1..Len(p), NEW m \in 1..Len(s), p[i] = s[m],
             Prior(p, i) = Prior(s, m) \cap Steps
      PROVE  PlanAt(k, op, p, i)
    <2>1. OrderedAt(k, op, s, m) /\ p[i] \in Steps
        BY <1>1
    <2> QED BY <1>2, <1>3, <2>1 DEF OrderedAt, PlanAt, Writes, Saves, Inserts, Steps
<1>4. CASE flaw = "none"
    <2>1. plan = Chosen(s, Steps)
        BY <1>4 DEF Plan
    <2>2. Follows(plan, s, Steps, Len(s))
        BY <1>1, <2>1, ChosenFollows
    <2>3. plan \in Seq(Steps) /\ Prior(plan, Len(plan) + 1) = Prior(s, Len(s) + 1) \cap Steps
        BY <2>2 DEF Follows
    <2>4. plan # <<>>
        <3>1. PICK i \in 1..Len(s) : s[i] \in Steps
            BY <1>1
        <3>2. s[i] \in Prior(plan, Len(plan) + 1)
            BY <1>1, <2>3, <3>1 DEF Prior
        <3> QED BY <2>3, <3>2 DEF Prior
    <2>5. plan \in Seq(Steps \cup {"refuse"})
        BY <2>3
    <2>6. \A i \in DOMAIN plan : PlanAt(k, op, plan, i)
        BY <1>3, <2>2, <2>3 DEF Follows
    <2>7. Completes(Prior(plan, Len(plan) + 1))
        BY <1>1, <2>3 DEF Completes, Steps
    <2> QED BY <2>4, <2>5, <2>6, <2>7
<1>5. CASE flaw # "none"
    <2>1. flaw \in Names(s) /\ flaw \notin Await
        BY <1>5 DEF Flaws
    <2> DEFINE b == Before(s, flaw)
               p == Chosen(b, Steps)
    <2>2. PICK m \in 1..Len(s) : s[m] = flaw /\ Len(b) = m - 1 /\ \A i \in 1..(m - 1) : b[i] = s[i]
        BY <1>1, <2>1, BeforeIs
    <2>3. Len(b) \in Nat /\ \A i \in 1..m : Prior(b, i) = Prior(s, i)
        BY <1>1, <2>2 DEF Prior
    <2>4. plan = p \o <<"refuse">>
        BY <1>5 DEF Plan
    <2>5. Follows(p, b, Steps, m - 1)
        BY <2>2, <2>3, ChosenFollows
    <2> HIDE DEF p, b
    <2>6. p \in Seq(Steps) /\ Len(p) \in Nat
        BY <2>5 DEF Follows
    <2>7. /\ plan \in Seq(Steps \cup {"refuse"}) /\ plan # <<>>
          /\ Len(plan) = Len(p) + 1 /\ plan[Len(p) + 1] = "refuse"
          /\ \A i \in 1..Len(p) : plan[i] = p[i]
        BY <2>4, <2>6
    <2>8. \A i \in 1..(Len(p) + 1) : Prior(plan, i) = Prior(p, i)
        BY <2>6, <2>7 DEF Prior
    <2>9. ASSUME NEW i \in 1..Len(p) PROVE PlanAt(k, op, plan, i)
        <3>1. PICK l \in 1..(m - 1) : p[i] = b[l] /\ Prior(p, i) = Prior(b, l) \cap Steps
            BY <2>5 DEF Follows
        <3>2. l \in 1..Len(s) /\ p[i] = s[l] /\ Prior(p, i) = Prior(s, l) \cap Steps
            BY <1>1, <2>2, <2>3, <3>1
        <3>3. PlanAt(k, op, p, i)
            BY <1>3, <2>6, <3>2
        <3>4. plan[i] = p[i] /\ Prior(plan, i) = Prior(p, i)
            BY <2>6, <2>7, <2>8
        <3>5. plan[i] # "refuse"
            BY <1>2, <2>6, <3>4
        <3> QED BY <3>3, <3>4, <3>5 DEF PlanAt
    <2>10. PlanAt(k, op, plan, Len(p) + 1)
        <3>1. Prior(plan, Len(p) + 1) = Prior(s, m) \cap Steps
            <4>1. Prior(p, Len(p) + 1) = Prior(b, (m - 1) + 1) \cap Steps
                BY <2>5 DEF Follows
            <4> QED BY <1>1, <2>3, <2>6, <2>8, <4>1
        <3>2. OrderedAt(k, op, s, m) /\ s[m] \notin Await
            BY <1>1, <2>1, <2>2
        <3>3. s = VideoEdit /\ s[m] = "links" => plan = BadLinks
            BY <2>2 DEF BadLinks
        <3> QED BY <2>7, <3>1, <3>2, <3>3 DEF OrderedAt, PlanAt, Inserts, Steps
    <2>11. DOMAIN plan = 1..(Len(p) + 1)
        BY <2>7
    <2>12. \A i \in DOMAIN plan : PlanAt(k, op, plan, i)
        BY <2>6, <2>9, <2>10, <2>11
    <2> QED BY <2>7, <2>12
<1> QED BY <1>4, <1>5

-----------------------------------------------------------------------------
(* The scripts are in order, one by one. *)
LEMMA NewsCreateOrderly ==
    ASSUME NEW k, NEW s, s = NewsCreate PROVE Orderly(k, "create", s)
<1>1. Len(s) = 5 /\ DOMAIN s = 1..5 /\ s[2] \in Steps
    BY NewsCreateIs DEF Steps
<1>2. \A i \in 1..5 : OrderedAt(k, "create", s, i)
    BY NewsCreateIs DEF OrderedAt, PlanAt, Prior, Inserts, Creating, Writes, Saves, Await
<1>3. Completes(Prior(s, 6))
    BY NewsCreateIs DEF Prior, Completes
<1> QED BY <1>1, <1>2, <1>3 DEF Orderly

LEMMA LumirCreateOrderly ==
    ASSUME NEW k, NEW s, s = LumirCreate PROVE Orderly(k, "create", s)
<1>1. Len(s) = 6 /\ DOMAIN s = 1..6 /\ s[3] \in Steps
    BY LumirCreateIs DEF Steps
<1>2. \A i \in 1..6 : OrderedAt(k, "create", s, i)
    BY LumirCreateIs DEF OrderedAt, PlanAt, Prior, Inserts, Creating, Writes, Saves, Await
<1>3. Completes(Prior(s, 7))
    BY LumirCreateIs DEF Prior, Completes
<1> QED BY <1>1, <1>2, <1>3 DEF Orderly

LEMMA VideoCreateOrderly ==
    ASSUME NEW k, NEW s, s = VideoCreate PROVE Orderly(k, "create", s)
<1>1. Len(s) = 7 /\ DOMAIN s = 1..7 /\ s[3] \in Steps
    BY VideoCreateIs DEF Steps
<1>2. \A i \in 1..7 : OrderedAt(k, "create", s, i)
    BY VideoCreateIs DEF OrderedAt, PlanAt, Prior, Inserts, Creating, Writes, Saves, Await
<1>3. Completes(Prior(s, 8))
    BY VideoCreateIs DEF Prior, Completes
<1> QED BY <1>1, <1>2, <1>3 DEF Orderly

LEMMA BrochureCreateOrderly ==
    ASSUME NEW k, NEW s, s = BrochureCreate PROVE Orderly(k, "create", s)
<1>1. Len(s) = 9 /\ DOMAIN s = 1..9 /\ s[2] \in Steps
    BY BrochureCreateIs DEF Steps
<1>2. \A i \in 1..9 : OrderedAt(k, "create", s, i)
    BY BrochureCreateIs DEF OrderedAt, PlanAt, Prior, Inserts, Creating, Writes, Saves, Await
<1>3. Completes(Prior(s, 10))
    BY BrochureCreateIs DEF Prior, Completes
<1> QED BY <1>1, <1>2, <1>3 DEF Orderly

LEMMA DisclosureCreateOrderly ==
    ASSUME NEW k, NEW s, s = DisclosureCreate PROVE Orderly(k, "create", s)
<1>1. Len(s) = 8 /\ DOMAIN s = 1..8 /\ s[4] \in Steps
    BY DisclosureCreateIs DEF Steps
<1>2. \A i \in 1..8 : OrderedAt(k, "create", s, i)
    BY DisclosureCreateIs DEF OrderedAt, PlanAt, Prior, Inserts, Creating, Writes, Saves, Await
<1>3. Completes(Prior(s, 9))
    BY DisclosureCreateIs DEF Prior, Completes
<1> QED BY <1>1, <1>2, <1>3 DEF Orderly

LEMMA MeetingCreateOrderly ==
    ASSUME NEW k, NEW s, s = MeetingCreate PROVE Orderly(k, "create", s)
<1>1. Len(s) = 11 /\ DOMAIN s = 1..11 /\ s[7] \in Steps
    BY MeetingCreateIs DEF Steps
<1>2. \A i \in 1..11 : OrderedAt(k, "create", s, i)
    BY MeetingCreateIs DEF OrderedAt, PlanAt, Prior, Inserts, Creating, Writes, Saves, Await
<1>3. Completes(Prior(s, 12))
    BY MeetingCreateIs DEF Prior, Completes
<1> QED BY <1>1, <1>2, <1>3 DEF Orderly

LEMMA WikiCreateOrderly ==
    ASSUME NEW k, NEW s, s = WikiCreate PROVE Orderly(k, "create", s)
<1>1. Len(s) = 5 /\ DOMAIN s = 1..5 /\ s[2] \in Steps
    BY WikiCreateIs DEF Steps
<1>2. \A i \in 1..5 : OrderedAt(k, "create", s, i)
    BY WikiCreateIs DEF OrderedAt, PlanAt, Prior, Inserts, Creating, Writes, Saves, Await
<1>3. Completes(Prior(s, 6))
    BY WikiCreateIs DEF Prior, Completes
<1> QED BY <1>1, <1>2, <1>3 DEF Orderly

LEMMA WikiCreateEmptyOrderly ==
    ASSUME NEW k, NEW s, s = WikiCreateEmpty PROVE Orderly(k, "empty", s)
<1>1. Len(s) = 5 /\ DOMAIN s = 1..5 /\ s[4] \in Steps
    BY WikiCreateEmptyIs DEF Steps
<1>2. \A i \in 1..5 : OrderedAt(k, "empty", s, i)
    BY WikiCreateEmptyIs DEF OrderedAt, PlanAt, Prior, Inserts, Creating, Writes, Saves, Await
<1>3. Completes(Prior(s, 6))
    BY WikiCreateEmptyIs DEF Prior, Completes
<1> QED BY <1>1, <1>2, <1>3 DEF Orderly

LEMMA WikiMoveOrderly ==
    ASSUME NEW k, NEW s, s = WikiMove PROVE Orderly(k, "move", s)
<1>1. Len(s) = 4 /\ DOMAIN s = 1..4 /\ s[1] \in Steps
    BY WikiMoveIs DEF Steps
<1>2. \A i \in 1..4 : OrderedAt(k, "move", s, i)
    BY WikiMoveIs DEF OrderedAt, PlanAt, Prior, Inserts, Creating, Writes, Saves, Await
<1>3. Completes(Prior(s, 5))
    BY WikiMoveIs DEF Prior, Completes
<1> QED BY <1>1, <1>2, <1>3 DEF Orderly

LEMMA BrochureSamplesOrderly ==
    ASSUME NEW k, NEW s, s = BrochureSamples PROVE Orderly(k, "sample", s)
<1>1. Len(s) = 2 /\ DOMAIN s = 1..2 /\ s[1] \in Steps
    BY BrochureSamplesIs DEF Steps
<1>2. \A i \in 1..2 : OrderedAt(k, "sample", s, i)
    BY BrochureSamplesIs DEF OrderedAt, PlanAt, Prior, Inserts, Creating, Writes, Saves, Await
<1>3. Completes(Prior(s, 3))
    BY BrochureSamplesIs DEF Prior, Completes
<1> QED BY <1>1, <1>2, <1>3 DEF Orderly

LEMMA NewsEditOrderly ==
    ASSUME NEW k, NEW s, s = NewsEdit PROVE Orderly(k, "edit", s)
<1>1. Len(s) = 9 /\ DOMAIN s = 1..9 /\ s[3] \in Steps
    BY NewsEditIs DEF Steps
<1>2. \A i \in 1..9 : OrderedAt(k, "edit", s, i)
    BY NewsEditIs DEF OrderedAt, PlanAt, Prior, Inserts, Creating, Writes, Saves, Await
<1>3. Completes(Prior(s, 10))
    BY NewsEditIs DEF Prior, Completes
<1> QED BY <1>1, <1>2, <1>3 DEF Orderly

LEMMA LumirEditOrderly ==
    ASSUME NEW k, NEW s, s = LumirEdit PROVE Orderly(k, "edit", s)
<1>1. Len(s) = 9 /\ DOMAIN s = 1..9 /\ s[3] \in Steps
    BY LumirEditIs DEF Steps
<1>2. \A i \in 1..9 : OrderedAt(k, "edit", s, i)
    BY LumirEditIs DEF OrderedAt, PlanAt, Prior, Inserts, Creating, Writes, Saves, Await
<1>3. Completes(Prior(s, 10))
    BY LumirEditIs DEF Prior, Completes
<1> QED BY <1>1, <1>2, <1>3 DEF Orderly

LEMMA VideoEditOrderly ==
    ASSUME NEW k, NEW s, s = VideoEdit, k = "video" PROVE Orderly(k, "edit", s)
<1>1. Len(s) = 10 /\ DOMAIN s = 1..10 /\ s[3] \in Steps
    BY VideoEditIs DEF Steps
<1>2. \A i \in 1..10 : OrderedAt(k, "edit", s, i)
    BY VideoEditIs DEF OrderedAt, PlanAt, Prior, Inserts, Creating, Writes, Saves, Await
<1>3. Completes(Prior(s, 11))
    BY VideoEditIs DEF Prior, Completes
<1> QED BY <1>1, <1>2, <1>3 DEF Orderly

LEMMA BrochureEditOrderly ==
    ASSUME NEW k, NEW s, s = BrochureEdit PROVE Orderly(k, "edit", s)
<1>1. Len(s) = 8 /\ DOMAIN s = 1..8 /\ s[2] \in Steps
    BY BrochureEditIs DEF Steps
<1>2. \A i \in 1..8 : OrderedAt(k, "edit", s, i)
    BY BrochureEditIs DEF OrderedAt, PlanAt, Prior, Inserts, Creating, Writes, Saves, Await
<1>3. Completes(Prior(s, 9))
    BY BrochureEditIs DEF Prior, Completes
<1> QED BY <1>1, <1>2, <1>3 DEF Orderly

LEMMA DisclosureEditOrderly ==
    ASSUME NEW k, NEW s, s = DisclosureEdit PROVE Orderly(k, "edit", s)
<1>1. Len(s) = 12 /\ DOMAIN s = 1..12 /\ s[5] \in Steps
    BY DisclosureEditIs DEF Steps
<1>2. \A i \in 1..12 : OrderedAt(k, "edit", s, i)
    BY DisclosureEditIs DEF OrderedAt, PlanAt, Prior, Inserts, Creating, Writes, Saves, Await
<1>3. Completes(Prior(s, 13))
    BY DisclosureEditIs DEF Prior, Completes
<1> QED BY <1>1, <1>2, <1>3 DEF Orderly

LEMMA PopupEditOrderly ==
    ASSUME NEW k, NEW s, s = PopupEdit PROVE Orderly(k, "edit", s)
<1>1. Len(s) = 13 /\ DOMAIN s = 1..13 /\ s[5] \in Steps
    BY PopupEditIs DEF Steps
<1>2. \A i \in 1..13 : OrderedAt(k, "edit", s, i)
    BY PopupEditIs DEF OrderedAt, PlanAt, Prior, Inserts, Creating, Writes, Saves, Await
<1>3. Completes(Prior(s, 14))
    BY PopupEditIs DEF Prior, Completes
<1> QED BY <1>1, <1>2, <1>3 DEF Orderly

LEMMA MeetingEditOrderly ==
    ASSUME NEW k, NEW s, s = MeetingEdit PROVE Orderly(k, "edit", s)
<1>1. Len(s) = 14 /\ DOMAIN s = 1..14 /\ s[6] \in Steps
    BY MeetingEditIs DEF Steps
<1>2. \A i \in 1..14 : OrderedAt(k, "edit", s, i)
    BY MeetingEditIs DEF OrderedAt, PlanAt, Prior, Inserts, Creating, Writes, Saves, Await
<1>3. Completes(Prior(s, 15))
    BY MeetingEditIs DEF Prior, Completes
<1> QED BY <1>1, <1>2, <1>3 DEF Orderly

LEMMA WikiEditOrderly ==
    ASSUME NEW k, NEW s, s = WikiEdit PROVE Orderly(k, "edit", s)
<1>1. Len(s) = 8 /\ DOMAIN s = 1..8 /\ s[2] \in Steps
    BY WikiEditIs DEF Steps
<1>2. \A i \in 1..8 : OrderedAt(k, "edit", s, i)
    BY WikiEditIs DEF OrderedAt, PlanAt, Prior, Inserts, Creating, Writes, Saves, Await
<1>3. Completes(Prior(s, 9))
    BY WikiEditIs DEF Prior, Completes
<1> QED BY <1>1, <1>2, <1>3 DEF Orderly

LEMMA NewsPublishOrderly ==
    ASSUME NEW k, NEW s, s = NewsPublish PROVE Orderly(k, "publish", s)
<1>1. Len(s) = 4 /\ DOMAIN s = 1..4 /\ s[3] \in Steps
    BY NewsPublishIs DEF Steps
<1>2. \A i \in 1..4 : OrderedAt(k, "publish", s, i)
    BY NewsPublishIs DEF OrderedAt, PlanAt, Prior, Inserts, Creating, Writes, Saves, Await
<1>3. Completes(Prior(s, 5))
    BY NewsPublishIs DEF Prior, Completes
<1> QED BY <1>1, <1>2, <1>3 DEF Orderly

LEMMA LumirPublishOrderly ==
    ASSUME NEW k, NEW s, s = LumirPublish PROVE Orderly(k, "publish", s)
<1>1. Len(s) = 3 /\ DOMAIN s = 1..3 /\ s[2] \in Steps
    BY LumirPublishIs DEF Steps
<1>2. \A i \in 1..3 : OrderedAt(k, "publish", s, i)
    BY LumirPublishIs DEF OrderedAt, PlanAt, Prior, Inserts, Creating, Writes, Saves, Await
<1>3. Completes(Prior(s, 4))
    BY LumirPublishIs DEF Prior, Completes
<1> QED BY <1>1, <1>2, <1>3 DEF Orderly

LEMMA DisclosurePublishOrderly ==
    ASSUME NEW k, NEW s, s = DisclosurePublish PROVE Orderly(k, "publish", s)
<1>1. Len(s) = 3 /\ DOMAIN s = 1..3 /\ s[2] \in Steps
    BY DisclosurePublishIs DEF Steps
<1>2. \A i \in 1..3 : OrderedAt(k, "publish", s, i)
    BY DisclosurePublishIs DEF OrderedAt, PlanAt, Prior, Inserts, Creating, Writes, Saves, Await
<1>3. Completes(Prior(s, 4))
    BY DisclosurePublishIs DEF Prior, Completes
<1> QED BY <1>1, <1>2, <1>3 DEF Orderly

LEMMA PopupPublishOrderly ==
    ASSUME NEW k, NEW s, s = PopupPublish PROVE Orderly(k, "publish", s)
<1>1. Len(s) = 4 /\ DOMAIN s = 1..4 /\ s[3] \in Steps
    BY PopupPublishIs DEF Steps
<1>2. \A i \in 1..4 : OrderedAt(k, "publish", s, i)
    BY PopupPublishIs DEF OrderedAt, PlanAt, Prior, Inserts, Creating, Writes, Saves, Await
<1>3. Completes(Prior(s, 5))
    BY PopupPublishIs DEF Prior, Completes
<1> QED BY <1>1, <1>2, <1>3 DEF Orderly

LEMMA NewsRemoveOrderly ==
    ASSUME NEW k, NEW s, s = NewsRemove PROVE Orderly(k, "remove", s)
<1>1. Len(s) = 3 /\ DOMAIN s = 1..3 /\ s[2] \in Steps
    BY NewsRemoveIs DEF Steps
<1>2. \A i \in 1..3 : OrderedAt(k, "remove", s, i)
    BY NewsRemoveIs DEF OrderedAt, PlanAt, Prior, Inserts, Creating, Writes, Saves, Await
<1>3. Completes(Prior(s, 4))
    BY NewsRemoveIs DEF Prior, Completes
<1> QED BY <1>1, <1>2, <1>3 DEF Orderly

LEMMA LumirRemoveOrderly ==
    ASSUME NEW k, NEW op, NEW s, s = LumirRemove PROVE Orderly(k, op, s)
<1>1. Len(s) = 2 /\ DOMAIN s = 1..2 /\ s[1] \in Steps
    BY LumirRemoveIs DEF Steps
<1>2. \A i \in 1..2 : OrderedAt(k, op, s, i)
    BY LumirRemoveIs DEF OrderedAt, PlanAt, Prior, Inserts, Creating, Writes, Saves, Await
<1>3. Completes(Prior(s, 3))
    BY LumirRemoveIs DEF Prior, Completes
<1> QED BY <1>1, <1>2, <1>3 DEF Orderly

LEMMA WikiRemoveOrderly ==
    ASSUME NEW k, NEW s, s = WikiRemove PROVE Orderly(k, "remove", s)
<1>1. Len(s) = 4 /\ DOMAIN s = 1..4 /\ s[1] \in Steps
    BY WikiRemoveIs DEF Steps
<1>2. \A i \in 1..4 : OrderedAt(k, "remove", s, i)
    BY WikiRemoveIs DEF OrderedAt, PlanAt, Prior, Inserts, Creating, Writes, Saves, Await
<1>3. Completes(Prior(s, 5))
    BY WikiRemoveIs DEF Prior, Completes
<1> QED BY <1>1, <1>2, <1>3 DEF Orderly

LEMMA ScriptsOrderly ==
    \A k \in StoredKinds : \A op \in DOMAIN Script[k] : Orderly(k, op, Script[k][op])
<1>1. \A op \in DOMAIN Script["news"] : Orderly("news", op, Script["news"][op])
    <2>1. Orderly("news", "create", NewsCreate)
        BY NewsCreateOrderly
    <2>2. Orderly("news", "edit", NewsEdit)
        BY NewsEditOrderly
    <2>3. Orderly("news", "publish", NewsPublish)
        BY NewsPublishOrderly
    <2>4. Orderly("news", "remove", NewsRemove)
        BY NewsRemoveOrderly
    <2> QED BY <2>1, <2>2, <2>3, <2>4 DEF Script
<1>2. \A op \in DOMAIN Script["lumir"] : Orderly("lumir", op, Script["lumir"][op])
    <2>1. Orderly("lumir", "create", LumirCreate)
        BY LumirCreateOrderly
    <2>2. Orderly("lumir", "edit", LumirEdit)
        BY LumirEditOrderly
    <2>3. Orderly("lumir", "publish", LumirPublish)
        BY LumirPublishOrderly
    <2>4. Orderly("lumir", "remove", LumirRemove)
        BY LumirRemoveOrderly
    <2> QED BY <2>1, <2>2, <2>3, <2>4 DEF Script
<1>3. \A op \in DOMAIN Script["video"] : Orderly("video", op, Script["video"][op])
    <2>1. Orderly("video", "create", VideoCreate)
        BY VideoCreateOrderly
    <2>2. Orderly("video", "edit", VideoEdit)
        BY VideoEditOrderly
    <2>3. Orderly("video", "publish", VideoPublish)
        BY LumirPublishOrderly, SameScripts
    <2>4. Orderly("video", "remove", VideoRemove)
        BY LumirRemoveOrderly, SameScripts
    <2> QED BY <2>1, <2>2, <2>3, <2>4 DEF Script
<1>4. \A op \in DOMAIN Script["brochure"] : Orderly("brochure", op, Script["brochure"][op])
    <2>1. Orderly("brochure", "create", BrochureCreate)
        BY BrochureCreateOrderly
    <2>2. Orderly("brochure", "edit", BrochureEdit)
        BY BrochureEditOrderly
    <2>3. Orderly("brochure", "publish", BrochurePublish)
        BY LumirPublishOrderly, SameScripts
    <2>4. Orderly("brochure", "remove", BrochureRemove)
        BY LumirRemoveOrderly, SameScripts
    <2>5. Orderly("brochure", "sample", BrochureSamples)
        BY BrochureSamplesOrderly
    <2>6. Orderly("brochure", "removeSample", BrochureRemoveSamples)
        BY LumirRemoveOrderly, SameScripts
    <2> QED BY <2>1, <2>2, <2>3, <2>4, <2>5, <2>6 DEF Script
<1>5. \A op \in DOMAIN Script["disclosure"] : Orderly("disclosure", op, Script["disclosure"][op])
    <2>1. Orderly("disclosure", "create", DisclosureCreate)
        BY DisclosureCreateOrderly
    <2>2. Orderly("disclosure", "edit", DisclosureEdit)
        BY DisclosureEditOrderly
    <2>3. Orderly("disclosure", "publish", DisclosurePublish)
        BY DisclosurePublishOrderly
    <2>4. Orderly("disclosure", "remove", DisclosureRemove)
        BY NewsRemoveOrderly, SameScripts
    <2> QED BY <2>1, <2>2, <2>3, <2>4 DEF Script
<1>6. \A op \in DOMAIN Script["ir"] : Orderly("ir", op, Script["ir"][op])
    <2>1. Orderly("ir", "create", IrCreate)
        BY DisclosureCreateOrderly, SameScripts
    <2>2. Orderly("ir", "edit", IrEdit)
        BY DisclosureEditOrderly, SameScripts
    <2>3. Orderly("ir", "publish", IrPublish)
        BY DisclosurePublishOrderly, SameScripts
    <2>4. Orderly("ir", "remove", IrRemove)
        BY NewsRemoveOrderly, SameScripts
    <2> QED BY <2>1, <2>2, <2>3, <2>4 DEF Script
<1>7. \A op \in DOMAIN Script["popup"] : Orderly("popup", op, Script["popup"][op])
    <2>1. Orderly("popup", "create", PopupCreate)
        BY DisclosureCreateOrderly, SameScripts
    <2>2. Orderly("popup", "edit", PopupEdit)
        BY PopupEditOrderly
    <2>3. Orderly("popup", "publish", PopupPublish)
        BY PopupPublishOrderly
    <2>4. Orderly("popup", "remove", PopupRemove)
        BY NewsRemoveOrderly, SameScripts
    <2> QED BY <2>1, <2>2, <2>3, <2>4 DEF Script
<1>8. \A op \in DOMAIN Script["meeting"] : Orderly("meeting", op, Script["meeting"][op])
    <2>1. Orderly("meeting", "create", MeetingCreate)
        BY MeetingCreateOrderly
    <2>2. Orderly("meeting", "edit", MeetingEdit)
        BY MeetingEditOrderly
    <2>3. Orderly("meeting", "publish", MeetingPublish)
        BY PopupPublishOrderly, SameScripts
    <2>4. Orderly("meeting", "remove", MeetingRemove)
        BY NewsRemoveOrderly, SameScripts
    <2> QED BY <2>1, <2>2, <2>3, <2>4 DEF Script
<1>9. \A op \in DOMAIN Script["wiki"] : Orderly("wiki", op, Script["wiki"][op])
    <2>1. Orderly("wiki", "create", WikiCreate)
        BY WikiCreateOrderly
    <2>2. Orderly("wiki", "edit", WikiEdit)
        BY WikiEditOrderly
    <2>3. Orderly("wiki", "publish", WikiPublish)
        BY LumirPublishOrderly, SameScripts
    <2>4. Orderly("wiki", "remove", WikiRemove)
        BY WikiRemoveOrderly
    <2>5. Orderly("wiki", "empty", WikiCreateEmpty)
        BY WikiCreateEmptyOrderly
    <2>6. Orderly("wiki", "move", WikiMove)
        BY WikiMoveOrderly
    <2> QED BY <2>1, <2>2, <2>3, <2>4, <2>5, <2>6 DEF Script
<1> QED BY <1>1, <1>2, <1>3, <1>4, <1>5, <1>6, <1>7, <1>8, <1>9 DEF StoredKinds

(* The scripts keep the order that the machine relies on. *)
LEMMA OrderedScripts == \A k \in StoredKinds : Ordered(k)
<1> SUFFICES ASSUME NEW k \in StoredKinds, NEW op \in DOMAIN Plans[k], NEW plan \in Plans[k][op]
             PROVE  /\ plan \in Seq(Steps \cup {"refuse"}) \ {<<>>}
                    /\ \A i \in DOMAIN plan : PlanAt(k, op, plan, i)
                    /\ plan[Len(plan)] # "refuse" =>
                         LET Has(name) == \E i \in DOMAIN plan : plan[i] = name
                         IN  /\ Has("upload") => Has("insert") \/ Has("saveFiles")
                             /\ Has("purge") => Has("saveFiles") \/ Has("remove")
    BY DEF Ordered, PlanAt, Prior
<1>1. op \in DOMAIN Script[k]
    BY DEF Plans
<1>2. PICK flaw \in Flaws(Script[k][op]) : plan = Plan(Script[k][op], flaw, Steps)
    BY DEF Plans
<1>3. /\ plan \in Seq(Steps \cup {"refuse"}) \ {<<>>}
      /\ \A i \in DOMAIN plan : PlanAt(k, op, plan, i)
      /\ plan[Len(plan)] # "refuse" => Completes(Prior(plan, Len(plan) + 1))
    BY <1>1, <1>2, ScriptsOrderly, PlanOrderly
<1>4. Prior(plan, Len(plan) + 1) = {plan[i] : i \in DOMAIN plan}
    BY <1>3 DEF Prior
<1> QED BY <1>3, <1>4 DEF Completes

LEMMA TypedOrder == ASSUME TypeOK PROVE Ordered(system.kind)
BY OrderedScripts, KindsAssumption DEF TypeOK
-----------------------------------------------------------------------------
(* A request runs a script of its kind. *)
Scripted ==
    \A e \in Editor : Busy(e) =>
        \E op \in DOMAIN Plans[system.kind] : request[e].plan \in Plans[system.kind][op]

AbsentEmpty == \A c \in Content : row[c].at = "absent" => row[c].files = {}

(* Nobody else knows a row that is still to be inserted. *)
CreatesAlone ==
    \A e \in Editor : Busy(e) /\ Pending(request[e]) \cap Inserts # {} =>
        /\ row[request[e].item].at = "absent"
        /\ \A d \in Editor : Busy(d) /\ request[d].item = request[e].item => d = e

UploadsOnce ==
    \A e \in Editor : Busy(e) /\ "upload" \notin Done(request[e]) => request[e].up = {}

PurgedGone ==
    \A e \in Editor : Busy(e) /\ "purge" \in Done(request[e]) =>
        request[e].seen \cap store = {}

(* What is uploaded stays stored and unknown to all others until the row   *)
(* is written.                                                             *)
LooseStored == \A e \in Editor : Busy(e) => Loose(request[e]) \subseteq store
LoosePrivate ==
    \A e \in Editor : Busy(e) =>
        /\ \A c \in Content : Loose(request[e]) \cap row[c].files = {}
        /\ \A d \in Editor : Busy(d) =>
             /\ Loose(request[e]) \cap (request[d].seen \cup request[d].copy) = {}
             /\ d # e => Loose(request[e]) \cap request[d].up = {}

(* No file belongs to two contents. *)
Apart ==
    /\ \A c, d \in Content : c # d => row[c].files \cap row[d].files = {}
    /\ \A e \in Editor, c \in Content : Busy(e) /\ request[e].item # c =>
         Held(request[e]) \cap row[c].files = {}
    /\ \A d, e \in Editor : Busy(d) /\ Busy(e) /\ request[d].item # request[e].item =>
         Held(request[d]) \cap Held(request[e]) = {}

(* NothingLeaks and NamedFilesStored, file by file. *)
Kept ==
    \A f \in store :
        \/ f \in lost
        \/ \E c \in Content : f \in row[c].files
        \/ \E e \in Editor : Busy(e) /\ f \in Loose(request[e])
Covered(c, f) ==
    \/ f \in store
    \/ \E e \in Editor : /\ Busy(e) /\ request[e].item = c
                         /\ Mid(request[e]) /\ f \in request[e].seen
Stored ==
    \A c \in Content : row[c].at = "live" /\ c \notin torn =>
        \A f \in row[c].files : Covered(c, f)

FilesInv ==
    /\ TypeOK /\ Scripted /\ AbsentEmpty /\ CreatesAlone /\ UploadsOnce /\ PurgedGone
    /\ LooseStored /\ LoosePrivate /\ Apart /\ Kept /\ Stored
-----------------------------------------------------------------------------
LEMMA RequestType ==
    ASSUME TypeOK, NEW e \in Editor, Busy(e)
    PROVE  request[e] \in Request /\ request[e].n \in DOMAIN request[e].plan
BY DEF TypeOK, Busy, Idle

(* What Ordered says of a request at its next statement. *)
LEMMA ScriptFacts ==
    ASSUME TypeOK, Scripted, NEW e \in Editor, Busy(e),
           NEW r, r = request[e]
    PROVE  /\ r.plan \in Seq(Steps \cup {"refuse"})
           /\ r.n \in 1..Len(r.plan)
           /\ At(e, "detail") => "purge" \notin Done(r)
           /\ At(e, "purge") => Done(r) \cap {"purge", "saveFiles", "remove"} = {}
           /\ At(e, "upload") => Done(r) \cap {"upload", "insert", "saveFiles"} = {}
           /\ At(e, "saveFiles") =>
                "purge" \in Done(r) /\ Done(r) \cap {"insert", "saveFiles"} = {}
           /\ r.plan[r.n] \in Inserts => Done(r) \cap Writes = {}
           /\ At(e, "refuse") /\ ~ (system.kind = "video" /\ r.plan = BadLinks)
             /\ "purge" \in Done(r) =>
                Done(r) \cap {"saveFiles", "remove"} # {}
           /\ \A i \in DOMAIN r.plan : r.plan[i] \in Inserts =>
                {r.plan[j] : j \in 1..(i - 1)} \cap Writes = {}
           /\ (\E i \in DOMAIN r.plan : r.plan[i] = "upload") =>
                \/ \E i \in DOMAIN r.plan : r.plan[i] \in {"insert", "saveFiles"}
                \/ r.plan[Len(r.plan)] = "refuse"
           /\ (\E i \in DOMAIN r.plan : r.plan[i] = "purge") =>
                \/ \E i \in DOMAIN r.plan : r.plan[i] \in {"saveFiles", "remove"}
                \/ r.plan[Len(r.plan)] = "refuse"
<1>1. PICK op \in DOMAIN Plans[system.kind] : r.plan \in Plans[system.kind][op]
    BY DEF Scripted
<1>2. r.n \in DOMAIN r.plan
    BY RequestType
<1> DEFINE plan == r.plan
           Earlier(i) == {plan[j] : j \in 1..(i - 1)}
           Has(name) == \E i \in DOMAIN plan : plan[i] = name
<1>3. /\ plan \in Seq(Steps \cup {"refuse"}) \ {<<>>}
      /\ \A i \in DOMAIN plan :
           /\ plan[i] = "detail" => "purge" \notin Earlier(i)
           /\ plan[i] = "purge" => Earlier(i) \cap {"purge", "saveFiles", "remove"} = {}
           /\ plan[i] = "upload" => Earlier(i) \cap {"upload", "insert", "saveFiles"} = {}
           /\ plan[i] = "saveFiles" =>
                "purge" \in Earlier(i) /\ Earlier(i) \cap {"insert", "saveFiles"} = {}
           /\ plan[i] \in Inserts => op \in Creating /\ Earlier(i) \cap Writes = {}
           /\ plan[i] = "refuse" /\ ~ (system.kind = "video" /\ plan = BadLinks)
                /\ "purge" \in Earlier(i) =>
                Earlier(i) \cap {"saveFiles", "remove"} # {}
      /\ plan[Len(plan)] # "refuse" =>
           /\ Has("upload") => Has("insert") \/ Has("saveFiles")
           /\ Has("purge") => Has("saveFiles") \/ Has("remove")
    BY <1>1, TypedOrder DEF Ordered
<1>4. Done(r) = Earlier(r.n)
    BY DEF Done
<1>5. DOMAIN plan = 1..Len(plan)
    BY <1>3
<1> HIDE DEF Earlier
<1>6. At(e, "detail") <=> plan[r.n] = "detail"
    BY DEF At
<1>7. /\ At(e, "purge") <=> plan[r.n] = "purge"
      /\ At(e, "upload") <=> plan[r.n] = "upload"
      /\ At(e, "saveFiles") <=> plan[r.n] = "saveFiles"
      /\ At(e, "refuse") <=> plan[r.n] = "refuse"
    BY DEF At
<1>8. \A i \in DOMAIN plan : plan[i] \in Inserts => Earlier(i) \cap Writes = {}
    BY <1>3
<1> QED BY <1>2, <1>3, <1>4, <1>5, <1>6, <1>7, <1>8 DEF Earlier

(* What a request that goes on has done, and what is left. *)
LEMMA GoesOnward ==
    ASSUME TypeOK, Scripted, NEW e \in Editor, Busy(e), NEW r, r = request[e],
           NEW m \in Request, m.plan = r.plan, m.n = r.n, m.item = r.item, Goes(e, m)
    PROVE  /\ request' \in [Editor -> Request \cup {Idle}]
           /\ \A d \in Editor : d # e => request'[d] = request[d]
           /\ ~Busy(e)' /\ "upload" \in Done(r) \cup {r.plan[r.n]} =>
                \/ (Done(r) \cup {r.plan[r.n]}) \cap {"insert", "saveFiles"} # {}
                \/ r.plan[r.n] = "refuse"
           /\ ~Busy(e)' /\ "purge" \in Done(r) \cup {r.plan[r.n]} =>
                \/ (Done(r) \cup {r.plan[r.n]}) \cap {"saveFiles", "remove"} # {}
                \/ r.plan[r.n] = "refuse"
           /\ Busy(e)' =>
                /\ request'[e].plan = r.plan /\ request'[e].item = r.item
                /\ request'[e].n \in DOMAIN r.plan
                /\ request'[e].seen = m.seen /\ request'[e].copy = m.copy
                /\ request'[e].up = m.up
                /\ Done(request'[e]) = Done(r) \cup {r.plan[r.n]}
                /\ Pending(request'[e]) \subseteq Pending(r)
                /\ Pending(request'[e]) \cap Inserts # {} => r.plan[r.n] \notin Writes
<1> DEFINE q == [m EXCEPT !.n = m.n + 1]
<1>1. r.plan \in Seq(Steps \cup {"refuse"}) /\ r.n \in 1..Len(r.plan) /\ r.n \in Nat
    BY ScriptFacts
<1>2. request' = [request EXCEPT ![e] = IF r.n = Len(r.plan) THEN Idle ELSE q]
    BY DEF Goes
<1>3. /\ q \in Request /\ q.plan = r.plan /\ q.item = r.item /\ q.n = r.n + 1
      /\ q.seen = m.seen /\ q.copy = m.copy /\ q.up = m.up
    BY <1>1 DEF Request
<1>4. request \in [Editor -> Request \cup {Idle}]
    BY DEF TypeOK
<1>5. request' \in [Editor -> Request \cup {Idle}]
    BY <1>2, <1>3, <1>4
<1>6. \A d \in Editor : d # e => request'[d] = request[d]
    BY <1>2, <1>4
<1>7. CASE r.n = Len(r.plan)
    <2>1. request'[e] = Idle
        BY <1>2, <1>4, <1>7
    <2>2. Done(r) \cup {r.plan[r.n]} = {r.plan[i] : i \in DOMAIN r.plan}
        BY <1>1, <1>7 DEF Done
    <2>3. (\E i \in DOMAIN r.plan : r.plan[i] = "upload") =>
             \/ \E i \in DOMAIN r.plan : r.plan[i] \in {"insert", "saveFiles"}
             \/ r.plan[Len(r.plan)] = "refuse"
        BY ScriptFacts
    <2>5. (\E i \in DOMAIN r.plan : r.plan[i] = "purge") =>
             \/ \E i \in DOMAIN r.plan : r.plan[i] \in {"saveFiles", "remove"}
             \/ r.plan[Len(r.plan)] = "refuse"
        BY ScriptFacts
    <2>4. ~Busy(e)'
        BY <2>1 DEF Busy, Idle
    <2> QED BY <1>5, <1>6, <1>7, <2>2, <2>3, <2>4, <2>5
<1>8. CASE r.n # Len(r.plan)
    <2>1. request'[e] = q
        BY <1>2, <1>4, <1>8
    <2>2. q.n \in 1..Len(r.plan) /\ DOMAIN r.plan = 1..Len(r.plan) /\ r.plan # <<>>
        BY <1>1, <1>3, <1>8
    <2>3. Done(q) = Done(r) \cup {r.plan[r.n]}
        BY <1>1, <1>3 DEF Done
    <2>4. Pending(q) \subseteq Pending(r)
        BY <1>1, <1>3 DEF Pending
    <2>5. ASSUME Pending(q) \cap Inserts # {} PROVE r.plan[r.n] \notin Writes
        <3>1. PICK i \in (r.n + 1)..Len(r.plan) : r.plan[i] \in Inserts
            BY <1>3, <2>5 DEF Pending
        <3>2. i \in DOMAIN r.plan /\ r.n \in 1..(i - 1)
            BY <1>1, <2>2, <3>1
        <3>3. {r.plan[j] : j \in 1..(i - 1)} \cap Writes = {}
            BY <3>1, <3>2, ScriptFacts
        <3> QED BY <3>2, <3>3
    <2>6. Busy(e)'
        BY <1>3, <2>1, <2>2 DEF Busy
    <2> QED BY <1>3, <1>5, <1>6, <2>1, <2>2, <2>3, <2>4, <2>5, <2>6
<1> QED BY <1>7, <1>8

LEMMA FreshIs ==
    ASSUME NEW f \in Fresh
    PROVE  /\ f \in File /\ f \notin store /\ f \notin lost
           /\ \A c \in Content : f \notin row[c].files
           /\ \A e \in Editor : Busy(e) => f \notin Held(request[e])
<1>1. f \in File /\ f \notin store /\ f \notin lost /\ f \notin InUse
    BY DEF Fresh
<1>2. ASSUME NEW c \in Content PROVE f \notin row[c].files
    BY <1>1 DEF InUse
<1>3. ASSUME NEW e \in Editor, Busy(e) PROVE f \notin Held(request[e])
    BY <1>1, <1>3 DEF InUse
<1> QED BY <1>1, <1>2, <1>3
-----------------------------------------------------------------------------
(* A step of the request e on its content: it deletes the files gone,      *)
(* which it has seen, uploads new ones, and may give its row a file sample *)
(* that is not stored.  Everything the invariant needs to know of it.      *)
Change(e, c, gone, new, sample) ==
    LET r == request[e]
        q == request'[e]
    IN  /\ Busy(e) /\ c = r.item /\ c \in Content
        /\ gone \subseteq r.seen /\ new \subseteq Fresh /\ sample \subseteq Fresh
        /\ new = {} \/ sample = {}
        /\ store' = (store \ gone) \cup new
        /\ system' = system
        /\ row' \in [Content -> Row]
        /\ \A d \in Content : d # c => row'[d] = row[d]
        /\ request' \in [Editor -> Request \cup {Idle}]
        /\ \A d \in Editor : d # e => request'[d] = request[d]
        /\ torn' \subseteq Content /\ \A d \in Content : d # c => (d \in torn' <=> d \in torn)
        /\ lost \subseteq lost' /\ lost' \subseteq File
        /\ row'[c].at = "absent" => row'[c].files = {}
        /\ row'[c].files \subseteq row[c].files \cup r.copy \cup r.up \cup sample

(* What it has in memory afterwards, unless it ends. *)
Memory(e, c, new, sample) ==
    LET r == request[e]
        q == request'[e]
    IN  Busy(e)' =>
        /\ q.plan = r.plan /\ q.item = c /\ q.n \in DOMAIN q.plan
        /\ q.seen \subseteq r.seen \cup row[c].files
        /\ q.copy \subseteq r.copy \cup row[c].files
        /\ q.up \subseteq r.up \cup new
        /\ Loose(q) \subseteq Loose(r) \cup new
        /\ Loose(q) = {} \/ row'[c].files \subseteq row[c].files \cup r.copy \cup sample
        /\ "upload" \notin Done(q) => q.up = {}
        /\ "purge" \in Done(q) => q.seen \cap store' = {}
        /\ Pending(q) \cap Inserts # {} =>
             row'[c].at = "absent" /\ Pending(r) \cap Inserts # {}

(* Where the files go that its row named or that it had uploaded, and what *)
(* its row names afterwards.                                               *)
Accounts(e, c, new) ==
    LET r == request[e]
        q == request'[e]
        Has(f) == f \in lost' \/ f \in row'[c].files \/ (Busy(e)' /\ f \in Loose(q))
    IN  /\ \A f \in row[c].files \cup Loose(r) \cup new : f \in store' => Has(f)
        /\ row'[c].at = "live" /\ c \notin torn' => \A f \in row'[c].files : Covered(c, f)'

(* Such a step keeps the invariant. *)
LEMMA ChangeKeeps ==
    ASSUME FilesInv, NEW e \in Editor, NEW c, NEW gone, NEW new, NEW sample,
           Change(e, c, gone, new, sample), Memory(e, c, new, sample), Accounts(e, c, new)
    PROVE  FilesInv'
<1> DEFINE r == request[e]
           q == request'[e]
<1> USE DEF FilesInv
<1>1. r \in Request /\ r.n \in DOMAIN r.plan
    BY RequestType DEF Change
<1>2. \A f \in new \cup sample :
         /\ f \in File /\ f \notin store
         /\ \A d \in Content : f \notin row[d].files
         /\ \A d \in Editor : Busy(d) => f \notin Held(request[d])
    BY FreshIs DEF Change
<1>3. \A d \in Editor : d # e => request'[d] = request[d] /\ (Busy(d)' <=> Busy(d))
    BY DEF Change, Busy
<1>4. \A d \in Content : d # c => row'[d] = row[d]
    BY DEF Change
<1>5. TypeOK'
    <2>1. store' \subseteq File
        BY <1>2 DEF Change, TypeOK
    <2>2. \A d \in Editor : Busy(d)' => request'[d].n \in DOMAIN request'[d].plan
        BY <1>3 DEF Memory, TypeOK
    <2> QED BY <2>1, <2>2 DEF Change, TypeOK
<1>6. Scripted'
    <2> SUFFICES ASSUME NEW d \in Editor, Busy(d)'
                 PROVE  (\E op \in DOMAIN Plans[system.kind] :
                            request[d].plan \in Plans[system.kind][op])'
        BY DEF Scripted
    <2>1. request'[d].plan = request[d].plan /\ Busy(d) /\ system' = system
        BY <1>3 DEF Change, Memory
    <2> QED BY <2>1 DEF Scripted
<1>7. AbsentEmpty'
    BY <1>4 DEF AbsentEmpty, Change
<1>8. CreatesAlone'
    <2> SUFFICES ASSUME NEW d \in Editor, Busy(d)', (Pending(request[d]) \cap Inserts # {})'
                 PROVE  /\ row'[request'[d].item].at = "absent"
                        /\ \A b \in Editor : Busy(b)' /\ request'[b].item = request'[d].item
                             => b = d
        BY DEF CreatesAlone
    <2>1. \A b \in Editor : Busy(b)' => Busy(b) /\ request'[b].item = request[b].item
        BY <1>3 DEF Change, Memory
    <2>2. Pending(request[d]) \cap Inserts # {}
        BY <1>3 DEF Memory
    <2>3. \A b \in Editor : Busy(b)' /\ request'[b].item = request'[d].item => b = d
        BY <2>1, <2>2 DEF CreatesAlone
    <2>4. CASE d = e
        BY <2>3, <2>4 DEF Memory
    <2>5. CASE d # e
        <3>1. request[d].item # c /\ request[d].item \in Content
            BY <2>1, <2>2, <2>5, RequestType DEF CreatesAlone, Change, Request
        <3> QED BY <1>4, <2>1, <2>2, <2>3, <3>1 DEF CreatesAlone
    <2> QED BY <2>4, <2>5
<1>9. UploadsOnce'
    BY <1>3 DEF UploadsOnce, Memory
<1>10. PurgedGone'
    <2> SUFFICES ASSUME NEW d \in Editor, d # e, Busy(d), "purge" \in Done(request[d])
                 PROVE  request[d].seen \cap store' = {}
        BY <1>3 DEF PurgedGone, Memory
    <2>1. request[d].seen \cap store = {}
        BY DEF PurgedGone
    <2> QED BY <1>2, <2>1 DEF Change, Held
<1>11. r.item = c /\ r.seen \cup r.copy \cup r.up = Held(r) /\ Loose(r) \subseteq r.up
    BY DEF Change, Held, Loose
<1>12. Busy(e)' => q.item = c /\ Held(q) \subseteq Held(r) \cup row[c].files \cup new
    BY <1>11 DEF Memory, Held
<1>13. row'[c].files \subseteq row[c].files \cup Held(r) \cup sample
    BY <1>11 DEF Change
<1>14. \A d \in Editor : Busy(d) => request[d].item \in Content
    BY RequestType DEF Request
<1>15. LooseStored'
    <2> SUFFICES ASSUME NEW d \in Editor, Busy(d)' PROVE Loose(request'[d]) \subseteq store'
        BY DEF LooseStored
    <2>1. \A b \in Editor : Busy(b) =>
            Loose(request[b]) \subseteq store /\ Loose(request[b]) \cap r.seen = {}
        BY DEF LooseStored, LoosePrivate, Change
    <2>2. CASE d = e
        BY <2>1, <2>2 DEF Memory, Change
    <2>3. CASE d # e
        BY <1>3, <2>1, <2>3 DEF Change
    <2> QED BY <2>2, <2>3
<1>16. LoosePrivate'
    <2>1. \A b, d \in Editor, x \in Content : Busy(b) /\ Busy(d) =>
            /\ Loose(request[b]) \cap row[x].files = {}
            /\ Loose(request[b]) \cap (request[d].seen \cup request[d].copy) = {}
            /\ d # b => Loose(request[b]) \cap request[d].up = {}
            /\ Loose(request[b]) \subseteq Held(request[b])
        BY DEF LoosePrivate, Loose, Held
    <2>2. ASSUME NEW b \in Editor, Busy(b)', NEW x \in Content
          PROVE  Loose(request'[b]) \cap row'[x].files = {}
        <3>1. CASE b = e /\ x = c
            <4>1. CASE Loose(q) = {}
                BY <3>1, <4>1
            <4>2. CASE row'[c].files \subseteq row[c].files \cup r.copy \cup sample
                <5>1. Loose(q) \subseteq Loose(r) \cup new
                    BY <2>2, <3>1 DEF Memory
                <5>2. Loose(r) \cap (row[c].files \cup r.copy \cup sample) = {}
                    BY <1>2, <2>1 DEF Change
                <5>3. new \cap (row[c].files \cup r.copy \cup sample) = {}
                    BY <1>2, <1>11 DEF Change
                <5> QED BY <3>1, <4>2, <5>1, <5>2, <5>3
            <4> QED BY <2>2, <3>1, <4>1, <4>2 DEF Memory
        <3>2. CASE b = e /\ x # c
            <4>1. Loose(q) \subseteq Loose(r) \cup new
                BY <2>2, <3>2 DEF Memory
            <4> QED BY <1>2, <1>4, <2>1, <3>2, <4>1 DEF Change
        <3>3. CASE b # e
            <4>1. Loose(request'[b]) = Loose(request[b]) /\ Busy(b)
                BY <1>3, <2>2, <3>3
            <4>2. Loose(request[b]) \cap (row[c].files \cup Held(r) \cup sample) = {}
                BY <1>2, <1>11, <2>1, <3>3, <4>1 DEF Change
            <4> QED BY <1>4, <1>13, <2>1, <4>1, <4>2
        <3> QED BY <3>1, <3>2, <3>3
    <2>3. ASSUME NEW b \in Editor, Busy(b)', NEW d \in Editor, Busy(d)'
          PROVE  /\ Loose(request'[b]) \cap (request'[d].seen \cup request'[d].copy) = {}
                 /\ d # b => Loose(request'[b]) \cap request'[d].up = {}
        <3>1. \A a \in Editor : Busy(a)' => Busy(a)
            BY <1>3 DEF Change
        <3>2. CASE b = e /\ d = e
            <4>1. Loose(q) \subseteq Loose(r) \cup new
                BY <2>3, <3>2 DEF Memory
            <4>2. q.seen \cup q.copy \subseteq r.seen \cup r.copy \cup row[c].files
                BY <2>3, <3>2 DEF Memory
            <4>3. Loose(r) \cap (r.seen \cup r.copy \cup row[c].files) = {}
                BY <2>1 DEF Change
            <4>4. new \cap (r.seen \cup r.copy \cup row[c].files) = {}
                BY <1>2, <1>11 DEF Change
            <4> QED BY <3>2, <4>1, <4>2, <4>3, <4>4
        <3>3. CASE b = e /\ d # e
            <4>1. Loose(q) \subseteq Loose(r) \cup new
                BY <2>3, <3>3 DEF Memory
            <4>2. request'[d] = request[d] /\ Busy(d)
                BY <1>3, <2>3, <3>3
            <4>3. \A f \in new : f \notin Held(request[d])
                BY <1>2, <4>2
            <4> QED BY <2>1, <3>3, <4>1, <4>2, <4>3 DEF Change, Held
        <3>4. CASE b # e /\ d = e
            <4>1. Loose(request'[b]) = Loose(request[b]) /\ Busy(b)
                BY <1>3, <2>3, <3>4
            <4>2. Held(q) \subseteq Held(r) \cup row[c].files \cup new
                BY <1>12, <2>3, <3>4
            <4>3. Loose(request[b]) \cap (Held(r) \cup row[c].files \cup new) = {}
                BY <1>2, <1>11, <2>1, <3>4, <4>1 DEF Change
            <4> QED BY <3>4, <4>1, <4>2, <4>3 DEF Held
        <3>5. CASE b # e /\ d # e
            <4>1. Busy(b) /\ Busy(d) /\ request'[b] = request[b] /\ request'[d] = request[d]
                BY <1>3, <2>3, <3>5
            <4> QED BY <2>1, <4>1 DEF Change
        <3> QED BY <3>2, <3>3, <3>4, <3>5
    <2> QED BY <2>2, <2>3 DEF LoosePrivate
<1>17. Apart'
    <2>1. \A x \in Content : x # c =>
             (row[c].files \cup Held(r) \cup new \cup sample) \cap row[x].files = {}
        BY <1>2, <1>11 DEF Apart, Change
    <2>2. \A d \in Editor : Busy(d) /\ request[d].item # c =>
             (row[c].files \cup Held(r) \cup new \cup sample) \cap Held(request[d]) = {}
        BY <1>2, <1>11 DEF Apart, Change
    <2>3. ASSUME NEW x \in Content, NEW y \in Content, x # y
          PROVE  row'[x].files \cap row'[y].files = {}
        <3>1. CASE x # c /\ y # c
            BY <1>4, <2>3, <3>1 DEF Apart
        <3>2. CASE x = c
            BY <1>4, <1>13, <2>1, <2>3, <3>2
        <3>3. CASE y = c
            BY <1>4, <1>13, <2>1, <2>3, <3>3
        <3> QED BY <3>1, <3>2, <3>3
    <2>4. ASSUME NEW d \in Editor, NEW x \in Content, Busy(d)', request'[d].item # x
          PROVE  Held(request'[d]) \cap row'[x].files = {}
        <3>1. CASE d = e
            BY <1>4, <1>12, <2>1, <2>4, <3>1
        <3>2. CASE d # e /\ x = c
            BY <1>3, <1>13, <2>2, <2>4, <3>2
        <3>3. CASE d # e /\ x # c
            BY <1>3, <1>4, <2>4, <3>3 DEF Apart
        <3> QED BY <3>1, <3>2, <3>3
    <2>5. ASSUME NEW d \in Editor, NEW b \in Editor, Busy(d)', Busy(b)',
                 request'[d].item # request'[b].item
          PROVE  Held(request'[d]) \cap Held(request'[b]) = {}
        <3>1. CASE d = e
            BY <1>3, <1>12, <2>2, <2>5, <3>1
        <3>2. CASE b = e
            BY <1>3, <1>12, <2>2, <2>5, <3>2
        <3>3. CASE d # e /\ b # e
            BY <1>3, <2>5, <3>3 DEF Apart
        <3> QED BY <3>1, <3>2, <3>3
    <2> QED BY <2>3, <2>4, <2>5 DEF Apart
<1>18. Kept'
    <2> SUFFICES ASSUME NEW f \in store'
                 PROVE  \/ f \in lost'
                        \/ \E x \in Content : f \in row'[x].files
                        \/ \E d \in Editor : Busy(d)' /\ f \in Loose(request'[d])
        BY DEF Kept
    <2>1. f \in new \/ f \in store
        BY DEF Change
    <2>2. CASE f \in row[c].files \cup Loose(r) \cup new
        BY <2>2 DEF Accounts, Change
    <2>3. CASE f \in lost
        BY <2>3 DEF Change
    <2>4. CASE \E x \in Content : x # c /\ f \in row[x].files
        BY <1>4, <2>4
    <2>5. CASE \E d \in Editor : d # e /\ Busy(d) /\ f \in Loose(request[d])
        BY <1>3, <2>5
    <2> QED BY <2>1, <2>2, <2>3, <2>4, <2>5 DEF Kept
<1>19. Stored'
    <2> SUFFICES ASSUME NEW x \in Content, row'[x].at = "live", x \notin torn',
                        NEW f \in row'[x].files
                 PROVE  Covered(x, f)'
        BY DEF Stored
    <2>1. CASE x = c
        BY <2>1 DEF Accounts
    <2>2. CASE x # c
        <3>1. row'[x] = row[x] /\ x \notin torn
            BY <1>4, <2>2 DEF Change
        <3>2. Covered(x, f)
            BY <3>1 DEF Stored
        <3>3. CASE f \in store
            <4>1. f \notin r.seen
                BY <1>11, <2>2, <3>1 DEF Apart, Held, Change
            <4> QED BY <3>3, <4>1 DEF Change, Covered
        <3>4. CASE \E d \in Editor : /\ Busy(d) /\ request[d].item = x
                                     /\ Mid(request[d]) /\ f \in request[d].seen
            BY <1>3, <2>2, <3>4 DEF Covered, Change
        <3> QED BY <3>2, <3>3, <3>4 DEF Covered
    <2> QED BY <2>1, <2>2
<1> QED BY <1>5, <1>6, <1>7, <1>8, <1>9, <1>10, <1>15, <1>16, <1>17, <1>18, <1>19
-----------------------------------------------------------------------------
(* The memory of a request that goes on, when its statement treats the row *)
(* and the storage as its script says.                                     *)
LEMMA GoesMemory ==
    ASSUME FilesInv, NEW e \in Editor, Busy(e), NEW r, r = request[e],
           NEW m \in Request, m.plan = r.plan, m.n = r.n, m.item = r.item, Goes(e, m),
           NEW new, new \subseteq Fresh, NEW sample,
           m.seen \subseteq r.seen \cup row[r.item].files,
           m.copy \subseteq r.copy \cup row[r.item].files,
           m.up \subseteq r.up \cup new,
           m.up = r.up \/ r.plan[r.n] = "upload",
           store' \subseteq store \cup new,
           \/ m.seen = r.seen /\ (r.plan[r.n] = "purge" => r.seen \cap store' = {})
           \/ r.plan[r.n] = "detail",
           row'[r.item] = row[r.item] \/ r.plan[r.n] \in Writes,
           \/ r.plan[r.n] \in {"insert", "saveFiles"}
           \/ row'[r.item].files \subseteq row[r.item].files \cup r.copy \cup sample
    PROVE  Memory(e, r.item, new, sample)
<1> DEFINE q == request'[e]
           step == r.plan[r.n]
<1> SUFFICES ASSUME Busy(e)'
             PROVE  /\ q.plan = r.plan /\ q.item = r.item /\ q.n \in DOMAIN q.plan
                    /\ q.seen \subseteq r.seen \cup row[r.item].files
                    /\ q.copy \subseteq r.copy \cup row[r.item].files
                    /\ q.up \subseteq r.up \cup new
                    /\ Loose(q) \subseteq Loose(r) \cup new
                    /\ \/ Loose(q) = {}
                       \/ row'[r.item].files \subseteq row[r.item].files \cup r.copy \cup sample
                    /\ "upload" \notin Done(q) => q.up = {}
                    /\ "purge" \in Done(q) => q.seen \cap store' = {}
                    /\ Pending(q) \cap Inserts # {} =>
                         row'[r.item].at = "absent" /\ Pending(r) \cap Inserts # {}
    BY DEF Memory
<1> USE DEF FilesInv
<1>1. /\ q.plan = r.plan /\ q.item = r.item /\ q.n \in DOMAIN r.plan
      /\ q.seen = m.seen /\ q.copy = m.copy /\ q.up = m.up
      /\ Done(q) = Done(r) \cup {step}
      /\ Pending(q) \subseteq Pending(r)
      /\ Pending(q) \cap Inserts # {} => step \notin Writes
    BY GoesOnward
<1>2. Loose(q) \subseteq Loose(r) \cup new
    BY <1>1 DEF Loose
<1>3. \/ Loose(q) = {}
      \/ row'[r.item].files \subseteq row[r.item].files \cup r.copy \cup sample
    BY <1>1 DEF Loose
<1>4. "upload" \notin Done(q) => q.up = {}
    BY <1>1 DEF UploadsOnce
<1>5. "purge" \in Done(q) => q.seen \cap store' = {}
    <2>1. CASE step = "detail"
        <3>1. "purge" \notin Done(r)
            BY <2>1, ScriptFacts DEF At
        <3> QED BY <1>1, <2>1, <3>1
    <2>2. CASE m.seen = r.seen /\ step = "purge" /\ r.seen \cap store' = {}
        BY <1>1, <2>2
    <2>3. CASE m.seen = r.seen /\ step # "purge"
        <3>1. \A f \in new : f \notin r.seen
            BY FreshIs DEF Held
        <3>2. "purge" \in Done(r) => r.seen \cap store = {}
            BY DEF PurgedGone
        <3> QED BY <1>1, <2>3, <3>1, <3>2
    <2> QED BY <2>1, <2>2, <2>3
<1>6. Pending(q) \cap Inserts # {} =>
         row'[r.item].at = "absent" /\ Pending(r) \cap Inserts # {}
    BY <1>1 DEF CreatesAlone
<1> QED BY <1>1, <1>2, <1>3, <1>4, <1>5, <1>6

(* A request does not forget what it has uploaded before a row names it. *)
LEMMA GoesLoose ==
    ASSUME FilesInv, NEW e \in Editor, Busy(e), NEW r, r = request[e],
           NEW m \in Request, m.plan = r.plan, m.n = r.n, m.item = r.item, Goes(e, m),
           m.up = r.up, r.plan[r.n] \notin {"insert", "saveFiles", "refuse"},
           NEW f \in Loose(r)
    PROVE  Busy(e)' /\ f \in Loose(request'[e])
<1> USE DEF FilesInv
<1>1. f \in r.up /\ Done(r) \cap {"insert", "saveFiles"} = {}
    BY DEF Loose
<1>2. "upload" \in Done(r)
    BY <1>1 DEF UploadsOnce
<1>3. Busy(e)'
    BY <1>1, <1>2, GoesOnward
<1>4. request'[e].up = r.up /\ Done(request'[e]) = Done(r) \cup {r.plan[r.n]}
    BY <1>3, GoesOnward
<1> QED BY <1>1, <1>3, <1>4 DEF Loose

(* A request stays between its purge and its save until it saves. *)
LEMMA GoesMid ==
    ASSUME FilesInv, NEW e \in Editor, Busy(e), NEW r, r = request[e],
           NEW m \in Request, m.plan = r.plan, m.n = r.n, m.item = r.item, Goes(e, m),
           m.seen = r.seen, r.plan[r.n] \notin {"saveFiles", "remove", "refuse"},
           Mid(r) \/ r.plan[r.n] = "purge"
    PROVE  Busy(e)' /\ Mid(request'[e]) /\ request'[e].seen = r.seen
<1> USE DEF FilesInv
<1>1. Done(r) \cap {"saveFiles", "remove"} = {} /\ "purge" \in Done(r) \cup {r.plan[r.n]}
    BY ScriptFacts DEF Mid, At
<1>2. Busy(e)'
    BY <1>1, GoesOnward
<1>3. /\ Done(request'[e]) = Done(r) \cup {r.plan[r.n]}
      /\ request'[e].seen = m.seen
    BY <1>2, GoesOnward
<1> QED BY <1>1, <1>2, <1>3 DEF Mid

(* A file stays covered when e keeps it stored or keeps covering it. *)
LEMMA StillCovered ==
    ASSUME NEW e \in Editor, NEW c \in Content, NEW f, Covered(c, f),
           \A d \in Editor : d # e => request'[d] = request[d],
           f \in store => f \in store' \/ (/\ Busy(e)' /\ request'[e].item = c
                                           /\ Mid(request'[e]) /\ f \in request'[e].seen),
           Busy(e) /\ request[e].item = c /\ Mid(request[e]) /\ f \in request[e].seen =>
              \/ f \in store'
              \/ /\ Busy(e)' /\ request'[e].item = c
                 /\ Mid(request'[e]) /\ f \in request'[e].seen
    PROVE  Covered(c, f)'
<1>1. CASE f \in store
    BY <1>1 DEF Covered
<1>2. CASE \E d \in Editor : Busy(d) /\ request[d].item = c
                             /\ Mid(request[d]) /\ f \in request[d].seen
    <2>1. PICK d \in Editor : Busy(d) /\ request[d].item = c
                              /\ Mid(request[d]) /\ f \in request[d].seen
        BY <1>2
    <2>2. CASE d = e
        BY <2>1, <2>2 DEF Covered
    <2>3. CASE d # e
        <3>1. request'[d] = request[d] /\ Busy(d)'
            BY <2>1, <2>3 DEF Busy
        <3> QED BY <2>1, <3>1 DEF Covered
    <2> QED BY <2>2, <2>3
<1> QED BY <1>1, <1>2 DEF Covered

LEMMA BusyFacts ==
    ASSUME TypeOK, NEW e \in Editor, Busy(e)
    PROVE  /\ request[e] \in Request /\ request[e].item \in Content
           /\ row[request[e].item] \in Row
           /\ request[e].seen \subseteq File /\ request[e].copy \subseteq File
           /\ request[e].up \subseteq File /\ request[e].plan \in AllPlans
           /\ request[e].n \in Nat \ {0}
<1>1. request[e] \in Request
    BY RequestType
<1> QED BY <1>1 DEF Request, TypeOK
-----------------------------------------------------------------------------
(* The statements that only read: the row stays as it is, and so does what *)
(* covers its files.                                                       *)
LEMMA ReadKeeps ==
    ASSUME FilesInv, NEW e \in Editor, Busy(e), NEW r, r = request[e],
           NEW m \in Request, m.plan = r.plan, m.n = r.n, m.item = r.item, m.up = r.up,
           \/ m.copy = r.copy /\ m.seen = row[r.item].files /\ r.plan[r.n] = "detail"
           \/ m.copy = row[r.item].files /\ m.seen = r.seen /\ r.plan[r.n] = "find",
           Goes(e, m), UNCHANGED <<system, row, store, torn, lost>>
    PROVE  FilesInv'
<1> USE DEF FilesInv
<1> DEFINE c == r.item
<1>1. /\ r \in Request /\ c \in Content
      /\ request' \in [Editor -> Request \cup {Idle}]
      /\ \A d \in Editor : d # e => request'[d] = request[d]
    BY BusyFacts, GoesOnward
<1>2. Change(e, c, {}, {}, {})
    BY <1>1 DEF Change, TypeOK, AbsentEmpty
<1>3. Memory(e, c, {}, {})
    BY GoesMemory
<1>4. Accounts(e, c, {})
    <2>1. ASSUME NEW f \in row[c].files \cup Loose(r) \cup {}, f \in store'
          PROVE  f \in lost' \/ f \in row'[c].files \/ (Busy(e)' /\ f \in Loose(request'[e]))
        BY <2>1, GoesLoose
    <2>2. ASSUME row'[c].at = "live", c \notin torn', NEW f \in row'[c].files
          PROVE  Covered(c, f)'
        <3>1. Covered(c, f)
            BY <1>1, <2>2 DEF Stored
        <3>2. Mid(r) /\ f \in r.seen =>
                Busy(e)' /\ request'[e].item = c /\ Mid(request'[e]) /\ f \in request'[e].seen
            <4>1. CASE r.plan[r.n] = "detail"
                <5>1. ~Mid(r)
                    BY <4>1, ScriptFacts DEF At, Mid
                <5> QED BY <5>1
            <4>2. CASE r.plan[r.n] # "detail"
                BY <4>2, GoesMid, GoesOnward
            <4> QED BY <4>1, <4>2
        <3> QED BY <1>1, <3>1, <3>2, StillCovered
    <2> QED BY <2>1, <2>2 DEF Accounts
<1> QED BY <1>2, <1>3, <1>4, ChangeKeeps

LEMMA DetailStep ==
    ASSUME FilesInv, NEW e \in Editor, Detail(e) PROVE FilesInv'
<1> DEFINE r == request[e]
           m == [request[e] EXCEPT !.seen = row[request[e].item].files]
<1>1. /\ Busy(e) /\ r.plan[r.n] = "detail" /\ Goes(e, m)
      /\ UNCHANGED <<system, row, store, torn, lost>>
    BY DEF Detail, At
<1>2. /\ m \in Request /\ m.plan = r.plan /\ m.n = r.n /\ m.item = r.item /\ m.up = r.up
      /\ m.copy = r.copy /\ m.seen = row[r.item].files
    BY <1>1, BusyFacts DEF FilesInv, Request, Row
<1> HIDE DEF m
<1> QED BY <1>1, <1>2, ReadKeeps

LEMMA FindStep ==
    ASSUME FilesInv, NEW e \in Editor, Find(e) PROVE FilesInv'
<1> DEFINE r == request[e]
           m == [request[e] EXCEPT !.copy = row[request[e].item].files]
<1>1. /\ Busy(e) /\ r.plan[r.n] = "find" /\ Goes(e, m)
      /\ UNCHANGED <<system, row, store, torn, lost>>
    BY DEF Find, At
<1>2. /\ m \in Request /\ m.plan = r.plan /\ m.n = r.n /\ m.item = r.item /\ m.up = r.up
      /\ m.copy = row[r.item].files /\ m.seen = r.seen
    BY <1>1, BusyFacts DEF FilesInv, Request, Row
<1> HIDE DEF m
<1> QED BY <1>1, <1>2, ReadKeeps

(* The purged files are gone from the storage; the request covers them. *)
LEMMA PurgeStep ==
    ASSUME FilesInv, NEW e \in Editor, Purge(e) PROVE FilesInv'
<1> USE DEF FilesInv
<1> SUFFICES ASSUME NEW r, r = request[e], NEW c, c = r.item PROVE FilesInv'
    OBVIOUS
<1>1. /\ Busy(e) /\ r.plan[r.n] = "purge" /\ Goes(e, r) /\ store' = store \ r.seen
      /\ UNCHANGED <<system, row, torn, lost>>
    BY DEF Purge, At
<1>2. /\ r \in Request /\ c \in Content
      /\ request' \in [Editor -> Request \cup {Idle}]
      /\ \A d \in Editor : d # e => request'[d] = request[d]
    BY <1>1, BusyFacts, GoesOnward
<1>3. Change(e, c, r.seen, {}, {})
    BY <1>1, <1>2 DEF Change, TypeOK, AbsentEmpty
<1>4. Memory(e, c, {}, {})
    BY <1>1, <1>2, GoesMemory
<1>5. Busy(e)' /\ Mid(request'[e]) /\ request'[e].seen = r.seen /\ request'[e].item = c
    BY <1>1, <1>2, GoesMid, GoesOnward
<1>6. Accounts(e, c, {})
    <2>1. ASSUME NEW f \in row[c].files \cup Loose(r) \cup {}, f \in store'
          PROVE  f \in lost' \/ f \in row'[c].files \/ (Busy(e)' /\ f \in Loose(request'[e]))
        BY <1>1, <1>2, <2>1, GoesLoose
    <2>2. ASSUME row'[c].at = "live", c \notin torn', NEW f \in row'[c].files
          PROVE  Covered(c, f)'
        <3>1. Covered(c, f)
            BY <1>1, <1>2, <2>2 DEF Stored
        <3> QED BY <1>1, <1>2, <1>5, <3>1, StillCovered
    <2> QED BY <2>1, <2>2 DEF Accounts
<1> QED BY <1>3, <1>4, <1>6, ChangeKeeps

(* The uploaded files are held by the request until a row names them. *)
LEMMA UploadStep ==
    ASSUME FilesInv, NEW e \in Editor, Upload(e) PROVE FilesInv'
<1> USE DEF FilesInv
<1> SUFFICES ASSUME NEW r, r = request[e], NEW c, c = r.item PROVE FilesInv'
    OBVIOUS
<1>1. PICK new \in SUBSET Fresh :
          store' = store \cup new /\ Goes(e, [request[e] EXCEPT !.up = new])
    BY DEF Upload
<1> DEFINE m == [request[e] EXCEPT !.up = new]
<1>2. /\ Busy(e) /\ r.plan[r.n] = "upload" /\ Goes(e, m)
      /\ UNCHANGED <<system, row, torn, lost>>
    BY <1>1 DEF Upload, At
<1>3. /\ m \in Request /\ m.plan = r.plan /\ m.n = r.n /\ m.item = r.item /\ m.up = new
      /\ m.copy = r.copy /\ m.seen = r.seen
    BY <1>1, <1>2, BusyFacts, FreshIs DEF Request
<1> HIDE DEF m
<1>4. /\ r \in Request /\ c \in Content
      /\ request' \in [Editor -> Request \cup {Idle}]
      /\ \A d \in Editor : d # e => request'[d] = request[d]
    BY <1>2, <1>3, BusyFacts, GoesOnward
<1>5. Change(e, c, {}, new, {})
    BY <1>1, <1>2, <1>4 DEF Change, TypeOK, AbsentEmpty
<1>6. Memory(e, c, new, {})
    BY <1>1, <1>2, <1>3, GoesMemory
<1>7. Done(r) \cap {"upload", "insert", "saveFiles"} = {} /\ Loose(r) = {}
    BY <1>2, ScriptFacts DEF At, UploadsOnce, Loose
<1>8. Busy(e)'
    BY <1>2, <1>3, <1>7, GoesOnward
<1>9. /\ request'[e].up = new /\ Done(request'[e]) = Done(r) \cup {"upload"}
      /\ request'[e].seen = r.seen /\ request'[e].item = c
    BY <1>2, <1>3, <1>8, GoesOnward
<1>10. Loose(request'[e]) = new
    BY <1>7, <1>9 DEF Loose
<1>11. Accounts(e, c, new)
    <2>1. ASSUME row'[c].at = "live", c \notin torn', NEW f \in row'[c].files
          PROVE  Covered(c, f)'
        <3>1. Covered(c, f)
            BY <1>2, <1>4, <2>1 DEF Stored
        <3>2. Mid(r) => Mid(request'[e])
            BY <1>9 DEF Mid
        <3> QED BY <1>1, <1>4, <1>8, <1>9, <3>1, <3>2, StillCovered
    <2> QED BY <1>2, <1>7, <1>8, <1>10, <2>1 DEF Accounts
<1> QED BY <1>5, <1>6, <1>11, ChangeKeeps

(* An inserted row names what the request had uploaded. *)
LEMMA InsertStep ==
    ASSUME FilesInv, NEW e \in Editor, Insert(e) PROVE FilesInv'
<1> USE DEF FilesInv
<1> SUFFICES ASSUME NEW r, r = request[e], NEW c, c = r.item PROVE FilesInv'
    OBVIOUS
<1>1. /\ Busy(e) /\ r.plan[r.n] = "insert" /\ Goes(e, r)
      /\ row' = [row EXCEPT ![c] = [at |-> "live", files |-> r.up]]
      /\ UNCHANGED <<system, store, torn, lost>>
    BY DEF Insert, At
<1>2. /\ r \in Request /\ c \in Content /\ r.up \subseteq File
      /\ request' \in [Editor -> Request \cup {Idle}]
      /\ \A d \in Editor : d # e => request'[d] = request[d]
    BY <1>1, BusyFacts, GoesOnward
<1>3. row'[c] = [at |-> "live", files |-> r.up] /\ row' \in [Content -> Row]
    BY <1>1, <1>2 DEF TypeOK, Row
<1>4. row[c].files = {}
    <2>1. r.plan[r.n] \in Pending(r) \cap Inserts
        BY <1>1, ScriptFacts DEF Pending, Inserts
    <2> QED BY <1>1, <1>2, <2>1 DEF CreatesAlone, AbsentEmpty
<1>5. Loose(r) = r.up /\ r.up \subseteq store
    <2>1. Done(r) \cap Writes = {}
        BY <1>1, ScriptFacts DEF Inserts
    <2> QED BY <1>1, <2>1 DEF Loose, Writes, Inserts, LooseStored
<1>6. Change(e, c, {}, {}, {})
    BY <1>1, <1>2, <1>3 DEF Change, TypeOK
<1>7. Memory(e, c, {}, {})
    BY <1>1, <1>2, GoesMemory DEF Writes, Inserts
<1>8. Accounts(e, c, {})
    BY <1>1, <1>3, <1>4, <1>5 DEF Accounts, Covered
<1> QED BY <1>6, <1>7, <1>8, ChangeKeeps

(* A sample row names a file that is not stored, and counts as torn. *)
LEMMA InsertSampleStep ==
    ASSUME FilesInv, NEW e \in Editor, InsertSample(e) PROVE FilesInv'
<1> USE DEF FilesInv
<1> SUFFICES ASSUME NEW r, r = request[e], NEW c, c = r.item PROVE FilesInv'
    OBVIOUS
<1>1. PICK s \in Fresh : row' = [row EXCEPT ![c] = [at |-> "live", files |-> {s}]]
    BY DEF InsertSample
<1>2. /\ Busy(e) /\ r.plan[r.n] = "insertSample" /\ Goes(e, r) /\ torn' = torn \cup {c}
      /\ UNCHANGED <<system, store, lost>>
    BY DEF InsertSample, At
<1>3. /\ r \in Request /\ c \in Content
      /\ request' \in [Editor -> Request \cup {Idle}]
      /\ \A d \in Editor : d # e => request'[d] = request[d]
    BY <1>2, BusyFacts, GoesOnward
<1>4. row'[c] = [at |-> "live", files |-> {s}] /\ row' \in [Content -> Row]
    BY <1>1, <1>3, FreshIs DEF TypeOK, Row
<1>5. row[c].files = {}
    <2>1. r.plan[r.n] \in Pending(r) \cap Inserts
        BY <1>2, ScriptFacts DEF Pending, Inserts
    <2> QED BY <1>2, <1>3, <2>1 DEF CreatesAlone, AbsentEmpty
<1>6. Change(e, c, {}, {}, {s})
    BY <1>1, <1>2, <1>3, <1>4 DEF Change, TypeOK
<1>7. Memory(e, c, {}, {s})
    <2>1. r.plan[r.n] \in Writes /\ r.plan[r.n] # "purge"
        BY <1>2 DEF Writes, Inserts
    <2>2. row'[c].files \subseteq row[c].files \cup r.copy \cup {s}
        BY <1>4
    <2>3. store' \subseteq store \cup {} /\ {} \subseteq Fresh
        BY <1>2
    <2> QED BY <1>2, <1>3, <2>1, <2>2, <2>3, GoesMemory
<1>8. Accounts(e, c, {})
    <2>1. ASSUME NEW f \in Loose(r) PROVE Busy(e)' /\ f \in Loose(request'[e])
        BY <1>2, <1>3, GoesLoose
    <2> QED BY <1>2, <1>5, <2>1 DEF Accounts
<1> QED BY <1>6, <1>7, <1>8, ChangeKeeps

(* The row names the uploaded files; the ones it named are purged or lost. *)
LEMMA SaveFilesStep ==
    ASSUME FilesInv, NEW e \in Editor, SaveFiles(e) PROVE FilesInv'
<1> USE DEF FilesInv
<1> SUFFICES ASSUME NEW r, r = request[e], NEW c, c = r.item PROVE FilesInv'
    OBVIOUS
<1>1. /\ Busy(e) /\ r.plan[r.n] = "saveFiles" /\ Goes(e, r)
      /\ row' = [row EXCEPT ![c] = [at |-> "live", files |-> r.up]]
      /\ torn' = torn \ {c} /\ lost' = lost \cup (row[c].files \ r.seen)
      /\ UNCHANGED <<system, store>>
    BY DEF SaveFiles, At
<1>2. /\ r \in Request /\ c \in Content /\ r.up \subseteq File /\ row[c] \in Row
      /\ request' \in [Editor -> Request \cup {Idle}]
      /\ \A d \in Editor : d # e => request'[d] = request[d]
    BY <1>1, BusyFacts, GoesOnward
<1>3. row'[c] = [at |-> "live", files |-> r.up] /\ row' \in [Content -> Row]
    BY <1>1, <1>2 DEF TypeOK, Row
<1>4. /\ Loose(r) = r.up /\ r.up \subseteq store
      /\ r.seen \cap store = {}
    <2>1. "purge" \in Done(r) /\ Done(r) \cap {"insert", "saveFiles"} = {}
        BY <1>1, ScriptFacts DEF At
    <2> QED BY <1>1, <2>1 DEF Loose, LooseStored, PurgedGone
<1>5. lost' \subseteq File
    BY <1>1, <1>2 DEF TypeOK, Row
<1>6. Change(e, c, {}, {}, {})
    BY <1>1, <1>2, <1>3, <1>5 DEF Change, TypeOK
<1>7. Memory(e, c, {}, {})
    BY <1>1, <1>2, GoesMemory DEF Writes
<1>8. Accounts(e, c, {})
    BY <1>1, <1>3, <1>4 DEF Accounts, Covered
<1> QED BY <1>6, <1>7, <1>8, ChangeKeeps

(* A copy that is not stale changes nothing in what the row names. *)
LEMMA SaveBackStep ==
    ASSUME FilesInv, NEW e \in Editor, SaveBack(e) PROVE FilesInv'
<1> USE DEF FilesInv
<1> SUFFICES ASSUME NEW r, r = request[e], NEW c, c = r.item PROVE FilesInv'
    OBVIOUS
<1> DEFINE stale == row[c].files # r.copy \/ row[c].at # "live"
<1>1. /\ Busy(e) /\ r.plan[r.n] \in Saves /\ Goes(e, r)
      /\ row' = [row EXCEPT ![c] = [at |-> "live", files |-> r.copy]]
      /\ torn' = IF stale THEN torn \cup {c} ELSE torn
      /\ lost' = lost \cup (row[c].files \ r.copy)
      /\ UNCHANGED <<system, store>>
    BY DEF SaveBack, At
<1>2. /\ r \in Request /\ c \in Content /\ r.copy \subseteq File /\ row[c] \in Row
      /\ request' \in [Editor -> Request \cup {Idle}]
      /\ \A d \in Editor : d # e => request'[d] = request[d]
    BY <1>1, BusyFacts, GoesOnward
<1>3. row'[c] = [at |-> "live", files |-> r.copy] /\ row' \in [Content -> Row]
    BY <1>1, <1>2 DEF TypeOK, Row
<1>4. lost' \subseteq File /\ torn' \subseteq Content
    BY <1>1, <1>2 DEF TypeOK, Row
<1>5. r.plan[r.n] \notin {"insert", "saveFiles", "remove", "refuse", "purge", "detail"}
    BY <1>1 DEF Saves
<1>6. Change(e, c, {}, {}, {})
    BY <1>1, <1>2, <1>3, <1>4 DEF Change
<1>7. Memory(e, c, {}, {})
    BY <1>1, <1>2, <1>3, <1>5, GoesMemory DEF Writes
<1>8. Accounts(e, c, {})
    <2>1. ASSUME NEW f \in Loose(r) PROVE Busy(e)' /\ f \in Loose(request'[e])
        BY <1>1, <1>2, <1>5, GoesLoose
    <2>2. ASSUME row'[c].at = "live", c \notin torn', NEW f \in row'[c].files
          PROVE  Covered(c, f)'
        <3>1. row[c].files = r.copy /\ row[c].at = "live" /\ c \notin torn
            BY <1>1, <2>2
        <3>2. Covered(c, f)
            BY <1>2, <1>3, <2>2, <3>1 DEF Stored
        <3>3. Mid(r) => Busy(e)' /\ request'[e].item = c /\ Mid(request'[e])
                        /\ request'[e].seen = r.seen
            BY <1>1, <1>2, <1>5, GoesMid, GoesOnward
        <3>4. Mid(r) /\ f \in r.seen =>
                Busy(e)' /\ request'[e].item = c /\ Mid(request'[e]) /\ f \in request'[e].seen
            BY <3>3
        <3>5. store' = store /\ c \in Content
            BY <1>1, <1>2
        <3> QED BY <1>2, <3>2, <3>4, <3>5, StillCovered
    <2> QED BY <1>1, <1>3, <2>1, <2>2 DEF Accounts
<1> QED BY <1>6, <1>7, <1>8, ChangeKeeps

LEMMA RemoveStep ==
    ASSUME FilesInv, NEW e \in Editor, Remove(e) PROVE FilesInv'
<1> USE DEF FilesInv
<1> SUFFICES ASSUME NEW r, r = request[e], NEW c, c = r.item PROVE FilesInv'
    OBVIOUS
<1>1. /\ Busy(e) /\ r.plan[r.n] = "remove" /\ Goes(e, r)
      /\ row' = [row EXCEPT ![c].at = "deleted"]
      /\ UNCHANGED <<system, store, torn, lost>>
    BY DEF Remove, At
<1>2. /\ r \in Request /\ c \in Content /\ row[c] \in Row
      /\ request' \in [Editor -> Request \cup {Idle}]
      /\ \A d \in Editor : d # e => request'[d] = request[d]
    BY <1>1, BusyFacts, GoesOnward
<1>3. row'[c].at = "deleted" /\ row'[c].files = row[c].files /\ row' \in [Content -> Row]
    BY <1>1, <1>2 DEF TypeOK, Row
<1>4. Change(e, c, {}, {}, {})
    BY <1>1, <1>2, <1>3 DEF Change, TypeOK
<1>5. Memory(e, c, {}, {})
    BY <1>1, <1>2, <1>3, GoesMemory DEF Writes
<1>6. Accounts(e, c, {})
    <2>1. ASSUME NEW f \in Loose(r) PROVE Busy(e)' /\ f \in Loose(request'[e])
        BY <1>1, <1>2, GoesLoose
    <2> QED BY <1>3, <2>1 DEF Accounts
<1> QED BY <1>4, <1>5, <1>6, ChangeKeeps

(* A request that stops: what it leaves in the storage is lost, and the    *)
(* row it may leave naming a purged file is torn.                          *)
LEMMA StopsKeeps ==
    ASSUME FilesInv, NEW e \in Editor, Busy(e), NEW r, r = request[e],
           NEW gone, NEW new, gone \subseteq r.seen, new \subseteq Fresh,
           request' = [request EXCEPT ![e] = Idle],
           store' = (store \ gone) \cup new,
           lost' = lost \cup Loose(r) \cup new,
           UNCHANGED <<system, row>>,
           torn' = torn \/ torn' = torn \cup {r.item},
           row[r.item].at = "live" /\ r.item \notin torn' =>
              \A f \in row[r.item].files : f \notin gone /\ ~ (Mid(r) /\ f \in r.seen)
    PROVE  FilesInv'
<1> USE DEF FilesInv
<1> DEFINE c == r.item
<1>1. /\ c \in Content /\ r.up \subseteq File /\ Loose(r) \subseteq File
    BY BusyFacts DEF Loose
<1>2. /\ request' \in [Editor -> Request \cup {Idle}] /\ request'[e] = Idle
      /\ \A d \in Editor : d # e => request'[d] = request[d]
    BY DEF TypeOK
<1>3. ~Busy(e)'
    BY <1>2 DEF Busy, Idle
<1>4. new \subseteq File
    BY FreshIs
<1>5. Change(e, c, gone, new, {})
    BY <1>1, <1>2, <1>4 DEF Change, TypeOK, AbsentEmpty
<1>6. Memory(e, c, new, {})
    BY <1>3 DEF Memory
<1>7. Accounts(e, c, new)
    <2>1. ASSUME row'[c].at = "live", c \notin torn', NEW f \in row'[c].files
          PROVE  Covered(c, f)'
        <3>1. Covered(c, f) /\ f \notin gone /\ ~ (Mid(r) /\ f \in r.seen)
            BY <1>1, <2>1 DEF Stored
        <3>2. f \in store => f \in store'
            BY <3>1
        <3> HIDE DEF c
        <3> QED BY <1>1, <1>2, <3>1, <3>2, StillCovered DEF c
    <2> QED BY <1>3, <2>1 DEF Accounts
<1> QED BY <1>5, <1>6, <1>7, ChangeKeeps

LEMMA NotFoundStep ==
    ASSUME FilesInv, NEW e \in Editor, NotFound(e) PROVE FilesInv'
<1> SUFFICES ASSUME NEW r, r = request[e], NEW none, none = {} PROVE FilesInv'
    OBVIOUS
<1>1. /\ Busy(e) /\ row[r.item].at # "live" /\ UNCHANGED <<system, row, store, torn>>
      /\ request' = [request EXCEPT ![e] = Idle] /\ lost' = lost \cup Loose(r)
    BY DEF NotFound, Stops, At
<1>2. /\ store' = (store \ none) \cup none /\ lost' = lost \cup Loose(r) \cup none
      /\ none \subseteq r.seen /\ none \subseteq Fresh
    BY <1>1
<1> QED BY <1>1, <1>2, StopsKeeps

LEMMA PurgeMissingStep ==
    ASSUME FilesInv, NEW e \in Editor, PurgeMissing(e) PROVE FilesInv'
<1> SUFFICES ASSUME NEW r, r = request[e], NEW none, none = {} PROVE FilesInv'
    OBVIOUS
<1>1. /\ Busy(e) /\ At(e, "purge") /\ UNCHANGED <<system, row>>
      /\ store' = store \ r.seen
      /\ torn' = IF row[r.item].files \cap r.seen # {} THEN torn \cup {r.item} ELSE torn
      /\ request' = [request EXCEPT ![e] = Idle] /\ lost' = lost \cup Loose(r)
    BY DEF PurgeMissing, Stops, At
<1>2. row[r.item].at = "live" /\ r.item \notin torn' =>
         \A f \in row[r.item].files : f \notin r.seen
    BY <1>1
<1>3. /\ store' = (store \ r.seen) \cup none /\ lost' = lost \cup Loose(r) \cup none
      /\ none \subseteq r.seen /\ none \subseteq Fresh
    BY <1>1
<1> QED BY <1>1, <1>2, <1>3, StopsKeeps

LEMMA RefuseStep ==
    ASSUME FilesInv, NEW e \in Editor, Refuse(e) PROVE FilesInv'
<1> SUFFICES ASSUME NEW r, r = request[e], NEW none, none = {} PROVE FilesInv'
    OBVIOUS
<1>1. /\ Busy(e) /\ UNCHANGED <<system, row, store>>
      /\ torn' = IF Tears(r) THEN torn \cup {r.item} ELSE torn
      /\ request' = [request EXCEPT ![e] = Idle] /\ lost' = lost \cup Loose(r)
    BY DEF Refuse, Stops, At
<1>2. row[r.item].at = "live" /\ r.item \notin torn' =>
         \A f \in row[r.item].files : ~ (Mid(r) /\ f \in r.seen)
    BY <1>1 DEF Tears
<1>3. /\ store' = (store \ none) \cup none /\ lost' = lost \cup Loose(r) \cup none
      /\ none \subseteq r.seen /\ none \subseteq Fresh
    BY <1>1
<1> QED BY <1>1, <1>2, <1>3, StopsKeeps

LEMMA FailStep ==
    ASSUME FilesInv, NEW e \in Editor, Fail(e) PROVE FilesInv'
<1> SUFFICES ASSUME NEW r, r = request[e] PROVE FilesInv'
    OBVIOUS
<1>1. PICK gone \in SUBSET (IF At(e, "purge") THEN r.seen ELSE {}),
           new \in SUBSET (IF At(e, "upload") THEN Fresh ELSE {}) :
        /\ store' = (store \ gone) \cup new
        /\ torn' = IF Tears(r) \/ row[r.item].files \cap gone # {}
                   THEN torn \cup {r.item} ELSE torn
        /\ lost' = lost \cup Loose(r) \cup new
    BY DEF Fail
<1>2. /\ Busy(e) /\ UNCHANGED <<system, row>>
      /\ request' = [request EXCEPT ![e] = Idle]
      /\ gone \subseteq r.seen /\ new \subseteq Fresh
    BY DEF Fail
<1>3. row[r.item].at = "live" /\ r.item \notin torn' =>
         \A f \in row[r.item].files : f \notin gone /\ ~ (Mid(r) /\ f \in r.seen)
    BY <1>1 DEF Tears
<1> QED BY <1>1, <1>2, <1>3, StopsKeeps

(* A request that arrives holds nothing, and nobody else knows the row it  *)
(* is going to insert.                                                     *)
LEMMA StartStep ==
    ASSUME FilesInv, NEW e \in Editor, NEW c \in Content, Start(e, c)
    PROVE  FilesInv'
<1> USE DEF FilesInv
<1>1. PICK op \in DOMAIN Plans[system.kind] :
        /\ IF op \in Creating
           THEN row[c].at = "absent" /\ On(c) = {}
           ELSE row[c].at # "absent"
        /\ \E plan \in Plans[system.kind][op] :
             request' = [request EXCEPT ![e] =
                [item |-> c, plan |-> plan, n |-> 1, seen |-> {}, copy |-> {}, up |-> {}]]
    BY DEF Start
<1>2. PICK plan \in Plans[system.kind][op] :
        request' = [request EXCEPT ![e] =
           [item |-> c, plan |-> plan, n |-> 1, seen |-> {}, copy |-> {}, up |-> {}]]
    BY <1>1
<1>3. ~Busy(e) /\ UNCHANGED <<system, row, store, torn, lost>>
    BY DEF Start
<1>4. SUFFICES ASSUME NEW q,
                      q = [item |-> c, plan |-> plan, n |-> 1,
                           seen |-> {}, copy |-> {}, up |-> {}]
               PROVE  FilesInv'
    OBVIOUS
<1>5. /\ plan \in Seq(Steps \cup {"refuse"}) \ {<<>>}
      /\ \A i \in DOMAIN plan : plan[i] \in Inserts => op \in Creating
    BY <1>1, TypedOrder DEF Ordered
<1>6. plan \in AllPlans
    BY <1>1, KindsAssumption DEF AllPlans, TypeOK
<1>7. q \in Request /\ 1 \in DOMAIN plan
    BY <1>4, <1>5, <1>6 DEF Request
<1>8. /\ Done(q) = {} /\ Held(q) = {} /\ Loose(q) = {} /\ ~Mid(q)
      /\ Pending(q) \cap Inserts # {} => op \in Creating
    <2>1. Done(q) = {}
        BY <1>4 DEF Done
    <2>2. Pending(q) \cap Inserts # {} => op \in Creating
        BY <1>4, <1>5 DEF Pending
    <2> QED BY <1>4, <2>1, <2>2 DEF Held, Loose, Mid
<1>9. /\ request' \in [Editor -> Request \cup {Idle}] /\ request'[e] = q
      /\ \A d \in Editor : d # e => request'[d] = request[d] /\ (Busy(d)' <=> Busy(d))
    BY <1>2, <1>4, <1>7 DEF TypeOK, Busy
<1>10. TypeOK'
    BY <1>3, <1>4, <1>7, <1>9 DEF TypeOK
<1>11. Scripted'
    <2> SUFFICES ASSUME NEW d \in Editor, Busy(d)'
                 PROVE  \E o \in DOMAIN Plans[system.kind] :
                            request'[d].plan \in Plans[system.kind][o]
        BY <1>3 DEF Scripted
    <2>1. CASE d = e
        BY <1>1, <1>4, <1>9, <2>1
    <2>2. CASE d # e
        BY <1>9, <2>2 DEF Scripted
    <2> QED BY <2>1, <2>2
<1>12. AbsentEmpty'
    BY <1>3 DEF AbsentEmpty
<1>13. CreatesAlone'
    <2> SUFFICES ASSUME NEW d \in Editor, Busy(d)', Pending(request'[d]) \cap Inserts # {}
                 PROVE  /\ row[request'[d].item].at = "absent"
                        /\ \A b \in Editor : Busy(b)' /\ request'[b].item = request'[d].item
                             => b = d
        BY <1>3 DEF CreatesAlone
    <2>1. CASE d = e
        <3>1. row[c].at = "absent" /\ On(c) = {}
            BY <1>1, <1>8, <1>9, <2>1
        <3>2. \A b \in Editor : b # e /\ Busy(b)' => request'[b].item # c
            BY <1>9, <3>1 DEF On
        <3> QED BY <1>4, <1>9, <2>1, <3>1, <3>2
    <2>2. CASE d # e
        <3>1. Busy(d) /\ row[request[d].item].at = "absent"
            BY <1>9, <2>2 DEF CreatesAlone
        <3>2. request[d].item # c
            BY <1>1, <3>1 DEF On
        <3>3. \A b \in Editor : Busy(b) /\ request[b].item = request[d].item => b = d
            BY <1>9, <2>2 DEF CreatesAlone
        <3> QED BY <1>4, <1>9, <2>2, <3>1, <3>2, <3>3
    <2> QED BY <2>1, <2>2
<1>14. UploadsOnce'
    BY <1>4, <1>9 DEF UploadsOnce
<1>15. PurgedGone'
    BY <1>3, <1>4, <1>9 DEF PurgedGone
<1>16. LooseStored'
    <2> SUFFICES ASSUME NEW d \in Editor, Busy(d)' PROVE Loose(request'[d]) \subseteq store
        BY <1>3 DEF LooseStored
    <2> QED BY <1>8, <1>9 DEF LooseStored
<1>17. LoosePrivate'
    <2> SUFFICES ASSUME NEW d \in Editor, Busy(d)'
                 PROVE  /\ \A x \in Content : Loose(request'[d]) \cap row[x].files = {}
                        /\ \A b \in Editor : Busy(b)' =>
                             /\ Loose(request'[d]) \cap (request'[b].seen \cup request'[b].copy) = {}
                             /\ b # d => Loose(request'[d]) \cap request'[b].up = {}
        BY <1>3 DEF LoosePrivate
    <2>1. CASE d = e
        BY <1>8, <1>9, <2>1
    <2>2. CASE d # e
        <3>1. Busy(d) /\ request'[d] = request[d]
            BY <1>9, <2>2
        <3>2. \A x \in Content : Loose(request[d]) \cap row[x].files = {}
            BY <3>1 DEF LoosePrivate
        <3>3. ASSUME NEW b \in Editor, Busy(b)'
              PROVE  /\ Loose(request[d]) \cap (request'[b].seen \cup request'[b].copy) = {}
                     /\ b # d => Loose(request[d]) \cap request'[b].up = {}
            <4>1. CASE b = e
                BY <1>4, <1>9, <4>1
            <4>2. CASE b # e
                BY <1>9, <3>1, <3>3, <4>2 DEF LoosePrivate
            <4> QED BY <4>1, <4>2
        <3> QED BY <3>1, <3>2, <3>3
    <2> QED BY <2>1, <2>2
<1>18. Apart'
    <2>1. ASSUME NEW d \in Editor, NEW x \in Content, Busy(d)', request'[d].item # x
          PROVE  Held(request'[d]) \cap row[x].files = {}
        BY <1>8, <1>9, <2>1 DEF Apart
    <2>2. ASSUME NEW d \in Editor, NEW b \in Editor, Busy(d)', Busy(b)',
                 request'[d].item # request'[b].item
          PROVE  Held(request'[d]) \cap Held(request'[b]) = {}
        BY <1>8, <1>9, <2>2 DEF Apart
    <2> QED BY <1>3, <2>1, <2>2 DEF Apart
<1>19. Kept'
    BY <1>3, <1>9 DEF Kept
<1>20. Stored'
    <2> SUFFICES ASSUME NEW x \in Content, row[x].at = "live", x \notin torn,
                        NEW f \in row[x].files
                 PROVE  Covered(x, f)'
        BY <1>3 DEF Stored
    <2>1. Covered(x, f)
        BY DEF Stored
    <2> QED BY <1>3, <1>9, <2>1, StillCovered
<1> QED BY <1>10, <1>11, <1>12, <1>13, <1>14, <1>15, <1>16, <1>17, <1>18, <1>19, <1>20
-----------------------------------------------------------------------------
LEMMA FilesInit ==
    ASSUME Init PROVE FilesInv
<1>1. \A e \in Editor : request[e] = Idle
    BY DEF Init
<1>2. \A e \in Editor : ~Busy(e)
    BY <1>1 DEF Busy, Idle
<1>3. TypeOK
    BY <1>2 DEF Init, TypeOK, Row
<1>4. /\ \A c \in Content : row[c] = [at |-> "absent", files |-> {}]
      /\ store = {}
    BY DEF Init
<1> QED BY <1>2, <1>3, <1>4 DEF FilesInv, Scripted, AbsentEmpty, CreatesAlone, UploadsOnce,
            PurgedGone, LooseStored, LoosePrivate, Apart, Kept, Stored

(* Every step of every request keeps the invariant. *)
LEMMA FilesStep ==
    ASSUME FilesInv, [Next]_vars PROVE FilesInv'
<1>1. CASE UNCHANGED vars
    <2>1. \A e \in Editor : Busy(e)' <=> Busy(e)
        BY <1>1 DEF vars, Busy
    <2> QED BY <1>1, <2>1 DEF vars, FilesInv, TypeOK, Scripted, AbsentEmpty, CreatesAlone,
                UploadsOnce, PurgedGone, LooseStored, LoosePrivate, Apart, Kept, Stored,
                Covered, Busy
<1>2. ASSUME NEW e \in Editor, Step(e) PROVE FilesInv'
    <2>1. CASE \E c \in Content : Start(e, c)
        BY <2>1, StartStep
    <2>2. CASE NotFound(e)
        BY <2>2, NotFoundStep
    <2>3. CASE Detail(e)
        BY <2>3, DetailStep
    <2>4. CASE Purge(e)
        BY <2>4, PurgeStep
    <2>5. CASE PurgeMissing(e)
        BY <2>5, PurgeMissingStep
    <2>6. CASE Upload(e)
        BY <2>6, UploadStep
    <2>7. CASE Insert(e)
        BY <2>7, InsertStep
    <2>8. CASE InsertSample(e)
        BY <2>8, InsertSampleStep
    <2>9. CASE Find(e)
        BY <2>9, FindStep
    <2>10. CASE SaveFiles(e)
        BY <2>10, SaveFilesStep
    <2>11. CASE SaveBack(e)
        BY <2>11, SaveBackStep
    <2>12. CASE Remove(e)
        BY <2>12, RemoveStep
    <2>13. CASE Refuse(e)
        BY <2>13, RefuseStep
    <2>14. CASE Fail(e)
        BY <2>14, FailStep
    <2> QED BY <1>2, <2>1, <2>2, <2>3, <2>4, <2>5, <2>6, <2>7, <2>8, <2>9, <2>10,
               <2>11, <2>12, <2>13, <2>14 DEF Step
<1> QED BY <1>1, <1>2 DEF Next

(* Whatever the requests and their failures,  *)
(* the invariant holds for good.                                           *)
THEOREM FilesInductive == Spec => []FilesInv
<1>1. Init => FilesInv
    BY FilesInit
<1>2. FilesInv /\ [Next]_vars => FilesInv'
    BY FilesStep
<1> QED BY <1>1, <1>2, PTL DEF Spec

(* Rows, storage and requests keep their types. *)
THEOREM TypeCorrect == Spec => []TypeOK
<1>1. FilesInv => TypeOK
    BY DEF FilesInv
<1> QED BY <1>1, FilesInductive, PTL

(* Every file a live content names is stored or about to be replaced,      *)
(* unless a failure or a stale save tore the content.                      *)
THEOREM FilesAreStored == Spec => []NamedFilesStored
<1>1. ASSUME FilesInv, NEW c \in Content, row[c].at = "live", c \notin torn,
             NEW f \in row[c].files
      PROVE  f \in store \cup (UNION {request[e].seen : e \in {d \in On(c) : Mid(request[d])}})
    <2>1. Covered(c, f)
        BY <1>1 DEF FilesInv, Stored
    <2> QED BY <2>1 DEF Covered, On
<1>2. FilesInv => NamedFilesStored
    BY <1>1 DEF NamedFilesStored
<1> QED BY <1>2, FilesInductive, PTL

(* A stored file is named by a row, held by a request that will name it,   *)
(* or among those a failure, a refusal or a stale save left behind.        *)
THEOREM FilesAreReachable == Spec => []NothingLeaks
<1>1. ASSUME FilesInv, NEW f \in store
      PROVE  f \in lost \cup (UNION {row[c].files : c \in Content})
                         \cup (UNION {Loose(request[e]) : e \in {d \in Editor : Busy(d)}})
    BY <1>1 DEF FilesInv, Kept
<1>2. FilesInv => NothingLeaks
    BY <1>1 DEF NothingLeaks
<1> QED BY <1>2, FilesInductive, PTL

(* A refusal finds the files of its row in the storage, except on the      *)
(* links of a video gallery.                                               *)
THEOREM RefusalsAreEarly == Spec => []RefusedBeforePurge
<1>1. ASSUME FilesInv, NEW e \in Editor, At(e, "refuse"),
             ~ (system.kind = "video" /\ request[e].plan = BadLinks)
      PROVE  ~Tears(request[e])
    <2>1. Busy(e)
        BY <1>1 DEF At
    <2>2. "purge" \in Done(request[e]) => Done(request[e]) \cap {"saveFiles", "remove"} # {}
        BY <1>1, <2>1, ScriptFacts DEF FilesInv
    <2> QED BY <2>2 DEF Tears, Mid
<1>2. FilesInv => RefusedBeforePurge
    BY <1>1 DEF RefusedBeforePurge
<1> QED BY <1>2, FilesInductive, PTL
=============================================================================
