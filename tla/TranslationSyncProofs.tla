----------------------- MODULE TranslationSyncProofs ------------------------
(***************************************************************************)
(* Proofs about TranslationSync, for any sets of items, languages, texts,  *)
(* concurrent requests and overlapping runs of the job, and all kinds.     *)
(***************************************************************************)
EXTENDS TranslationSync, TLAPS

(* Where a request that creates an item may stand. *)
Making == {"given", "rest", "sample"}
USE DEF Making

(***************************************************************************)
(* The inductive invariant.  Rows are never removed, so what a request or  *)
(* a run holds in memory still exists; a run holds marked rows only, and   *)
(* never the Korean one; the row an edit found was live.                   *)
(***************************************************************************)
HeldRows ==
    /\ \A e \in Editor : req[e].pc = "loaded" =>
          item[req[e].item] # "absent" /\ DOMAIN req[e].copy \subseteq Present(req[e].item)
    /\ \A e \in Editor : req[e].pc = "found" /\ req[e].row # Absent =>
          req[e].row.status = "live" /\ req[e].in \in Present(req[e].of)
    /\ \A j \in Job : job[j].pc = "save" => \A l \in DOMAIN job[j].rows :
          l # ko /\ l \in Present(job[j].item) /\ job[j].rows[l].synced

(* The languages a request has left to do are ones it was given texts for. *)
HeldLists ==
    \A e \in Editor :
        /\ req[e].pc \in {"given", "sample", "edit", "found"} => req[e].todo \subseteq DOMAIN req[e].given
        /\ req[e].pc = "found" => req[e].lang \in req[e].todo

(* The Korean row, in the table or in memory, and every text that may be   *)
(* written to a marked row are texts of the source, but for the rows of a  *)
(* sample that have kept the sample's text in their language.              *)
Sourced(c, l, r) ==
    /\ l = ko => r.text \in source[c]
    /\ r.synced => r.text \in source[c] \cup sample[c][l]

SourceInTable == \A c \in Content : \A l \in Present(c) : Sourced(c, l, tr[c][l])
SourceInMemory ==
    /\ \A e \in Editor : req[e].pc = "loaded" =>
          \A l \in DOMAIN req[e].copy : Sourced(req[e].item, l, req[e].copy[l])
    /\ \A e \in Editor : req[e].pc \in Making =>
          /\ req[e].base \in source[req[e].item]
          /\ ko \in DOMAIN req[e].given => req[e].given[ko] \in source[req[e].item]
          /\ req[e].pc = "sample" => \A l \in DOMAIN req[e].given :
                req[e].given[l] \in sample[req[e].item][l]
    /\ \A j \in Job : job[j].pc \in {"find", "save"} => job[j].base \in source[job[j].item]

(* A creation has inserted every row that is not on its lists any more. *)
CreationCovers ==
    \A e \in Editor :
        /\ req[e].pc = "given" => DOMAIN req[e].given \subseteq Present(req[e].item) \cup req[e].todo
        /\ req[e].pc = "rest" => Lang = Present(req[e].item) \cup req[e].todo
        /\ req[e].pc = "sample" => Sampled(req[e].item) \subseteq Present(req[e].item) \cup req[e].todo

(* Only brochures are samples, and a sample has rows in the languages of   *)
(* its own texts only: what writes to an item that does not exist yet, or  *)
(* adds a language, is no request on a sample.                             *)
Samples ==
    /\ \A c \in Content : item[c] = "absent" => Present(c) = {} /\ Sampled(c) = {}
    /\ \A c \in Content : Sampled(c) # {} => kind = "brochure" /\ Present(c) \subseteq Sampled(c)
    /\ \A e \in Editor :
          /\ req[e].pc \in Making \cup {"loaded", "edit", "found"} => item[req[e].item] # "absent"
          /\ req[e].pc \in {"given", "rest"} => Sampled(req[e].item) = {}
          /\ req[e].pc = "found" /\ req[e].row = Absent => kind # "brochure"

IInv == TypeOK /\ HeldLists /\ HeldRows /\ SourceInTable /\ SourceInMemory
          /\ CreationCovers /\ Samples /\ CompleteUnlessInterrupted
-----------------------------------------------------------------------------
(* What a request is, from where it stands. *)
LEMMA RequestAt ==
    ASSUME ShapeOK, NEW e \in Editor
    PROVE  /\ req[e].pc \in {"given", "rest", "sample"} => req[e] \in Creating
           /\ req[e].pc = "loaded" => req[e] \in Loaded
           /\ req[e].pc = "edit" => req[e] \in Editing
           /\ req[e].pc = "found" => req[e] \in Found
<1> USE DEF Idle, Creating, Loaded, Editing, Found
<1>1. req[e] \in {Idle} \cup Request
    BY DEF ShapeOK
<1> QED BY <1>1 DEF Request

(* What a run of the job is, from where it stands. *)
LEMMA RunAt ==
    ASSUME ShapeOK, NEW j \in Job
    PROVE  /\ job[j].pc = "next" => job[j] \in Starting
           /\ job[j].pc = "find" => job[j] \in Reading
           /\ job[j].pc = "save" => job[j] \in Saving
<1> USE DEF Idle, Starting, Reading, Saving
<1>1. job[j] \in {Idle} \cup JobState
    BY DEF ShapeOK
<1> QED BY <1>1 DEF JobState

(* The texts of a request are texts of languages. *)
LEMMA GivenType ==
    ASSUME NEW f \in Given
    PROVE  DOMAIN f \in Subsets(Lang) /\ \A l \in DOMAIN f : f[l] \in Text
BY DEF Given, Subsets

(* The copy of translations is a function from languages to rows. *)
LEMMA CopyType ==
    ASSUME NEW f \in Copy
    PROVE  DOMAIN f \subseteq Lang /\ \A l \in DOMAIN f : f[l] \in Row
BY DEF Copy

(* Rows of some of the languages form a copy. *)
LEMMA RowsAreCopy ==
    ASSUME NEW S \in SUBSET Lang, NEW f, f = [l \in S |-> f[l]], \A l \in S : f[l] \in Row
    PROVE  f \in Copy
<1>1. f \in [S -> Row]
    OBVIOUS
<1> QED BY <1>1 DEF Copy

(* A row is not the absent one, and a present entry is a row. *)
LEMMA RowsArePresent ==
    /\ \A r \in Row : r # Absent
    /\ ShapeOK => \A c \in Content, l \in Lang :
          /\ tr[c][l] \in Row \cup {Absent}
          /\ l \in Present(c) => tr[c][l] \in Row
          /\ l \in LiveLangs(c) => l \in Present(c) /\ tr[c][l].status = "live"
<1>1. \A r \in Row : r # Absent
    BY DEF Row, Absent
<1>2. ASSUME ShapeOK, NEW c \in Content, NEW l \in Lang
      PROVE  /\ tr[c][l] \in Row \cup {Absent}
             /\ l \in Present(c) => tr[c][l] \in Row
             /\ l \in LiveLangs(c) => l \in Present(c) /\ tr[c][l].status = "live"
    <2>1. tr[c][l] \in Row \cup {Absent}
        BY <1>2 DEF ShapeOK
    <2>2. l \in LiveLangs(c) => tr[c][l] # Absent
        BY DEF LiveLangs, Absent
    <2> QED BY <2>1, <2>2 DEF Present, LiveLangs
<1> QED BY <1>1, <1>2

(* One entry of the table of requests, or of runs, is replaced. *)
LEMMA BecomeType ==
    ASSUME ShapeOK, NEW e \in Editor, NEW r \in {Idle} \cup Request, Become(e, r)
    PROVE  req' \in [Editor -> {Idle} \cup Request]
BY DEF ShapeOK, Become

(* The same for runs of the job.                                           *)
LEMMA TurnType ==
    ASSUME ShapeOK, NEW j \in Job, NEW s \in {Idle} \cup JobState, Turn(j, s)
    PROVE  job' \in [Job -> {Idle} \cup JobState]
BY DEF ShapeOK, Turn

(* Both ways to create an item begin alike.                                *)
Created(e, c, f, t, w) ==
    /\ Become(e, [pc |-> w, item |-> c, given |-> f, todo |-> DOMAIN f, base |-> t])
    /\ source' = [source EXCEPT ![c] = @ \cup {t}]
    /\ ko \in DOMAIN f => f[ko] = t
    /\ w = "given" => sample' = sample
    /\ w = "sample" => /\ kind = "brochure"
                       /\ sample' = [sample EXCEPT ![c] = [l \in Lang |->
                            IF l \in DOMAIN f THEN @[l] \cup {f[l]} ELSE @[l]]]

LEMMA Creation ==
    ASSUME ShapeOK, NEW e \in Editor, NEW c \in Content, CreateItem(e, c) \/ CreateSample(e, c)
    PROVE  \E f \in Given, t \in Text, w \in {"given", "sample"} : Created(e, c, f, t, w)
<1>1. CASE CreateItem(e, c)
    <2>1. PICK f \in Given : \E l \in DOMAIN f :
              /\ ko \in DOMAIN f => l = ko
              /\ Become(e, [pc |-> "given", item |-> c, given |-> f, todo |-> DOMAIN f, base |-> f[l]])
              /\ source' = [source EXCEPT ![c] = @ \cup {f[l]}]
        BY <1>1 DEF CreateItem
    <2>2. PICK l \in DOMAIN f :
              /\ ko \in DOMAIN f => l = ko
              /\ Become(e, [pc |-> "given", item |-> c, given |-> f, todo |-> DOMAIN f, base |-> f[l]])
              /\ source' = [source EXCEPT ![c] = @ \cup {f[l]}]
        BY <2>1
    <2>3. f[l] \in Text /\ sample' = sample
        BY <1>1, <2>2, GivenType DEF CreateItem
    <2>4. Created(e, c, f, f[l], "given")
        BY <2>2, <2>3 DEF Created
    <2> QED BY <2>3, <2>4
<1>2. CASE CreateSample(e, c)
    <2>1. PICK f \in Given :
              /\ ko \in DOMAIN f
              /\ Become(e, [pc |-> "sample", item |-> c, given |-> f, todo |-> DOMAIN f, base |-> f[ko]])
              /\ source' = [source EXCEPT ![c] = @ \cup {f[ko]}]
              /\ sample' = [sample EXCEPT ![c] = [l \in Lang |->
                               IF l \in DOMAIN f THEN @[l] \cup {f[l]} ELSE @[l]]]
        BY <1>2 DEF CreateSample
    <2>2. f[ko] \in Text /\ kind = "brochure"
        BY <1>2, <2>1, GivenType DEF CreateSample
    <2>3. Created(e, c, f, f[ko], "sample")
        BY <2>1, <2>2 DEF Created
    <2> QED BY <2>2, <2>3
<1> QED BY <1>1, <1>2

(* Types, when an item is created. *)
LEMMA CreateTypes ==
    ASSUME ShapeOK, NEW e \in Editor, NEW c \in Content, CreateItem(e, c) \/ CreateSample(e, c)
    PROVE  ShapeOK'
<1>1. PICK f \in Given, t \in Text, w \in {"given", "sample"} : Created(e, c, f, t, w)
    BY Creation
<1>2. DOMAIN f \in Subsets(Lang)
    BY GivenType
<1>3. [pc |-> w, item |-> c, given |-> f, todo |-> DOMAIN f, base |-> t] \in Creating
    BY <1>2 DEF Creating
<1>4. req' \in [Editor -> {Idle} \cup Request]
    BY <1>1, <1>3, BecomeType DEF Created, Request
<1>5. item' \in [Content -> {"absent", "live", "deleted"}]
    BY DEF ShapeOK, CreateItem, CreateSample
<1>6. source' \in [Content -> SUBSET Text]
    BY <1>1 DEF Created, ShapeOK
<1>7. changes' \in 0..MaxChanges
    BY ChangesAssumption DEF ShapeOK, CreateItem, CreateSample, Changed
<1> QED BY <1>4, <1>5, <1>6, <1>7 DEF ShapeOK, CreateItem, CreateSample

(* What is left of a creation after some rows is a creation, or nothing. *)
LEMMA AfterRowsType ==
    ASSUME NEW q \in Creating, NEW B \in Subsets(q.todo)
    PROVE  /\ AfterRows(q, B) \in {Idle} \cup Creating
           /\ AfterRows(q, B).pc \in Making => AfterRows(q, B).item = q.item
<1> DEFINE left == [q EXCEPT !.todo = @ \ B]
           rest == [q EXCEPT !.pc = "rest", !.todo = Lang \ DOMAIN q.given]
<1>1. q.todo # B => left \in Creating /\ left.item = q.item
    BY DEF Creating, Subsets
<1>2. DOMAIN q.given # Lang => rest \in Creating /\ rest.item = q.item
    <2>1. DOMAIN q.given \subseteq Lang
        BY GivenType DEF Creating, Subsets
    <2> QED BY <2>1 DEF Creating, Subsets
<1>3. Idle.pc = "idle"
    BY DEF Idle
<1> QED BY <1>1, <1>2, <1>3 DEF AfterRows

(* The rows a creation inserts. *)
LEMMA NewRows ==
    ASSUME NEW q, NEW l, q.pc \in Making
    PROVE  /\ NewRow(q, l) # Absent
           /\ NewRow(q, l).text = IF q.pc = "rest" THEN q.base ELSE q.given[l]
           /\ NewRow(q, l).synced => q.pc # "given"
           /\ (q.pc = "rest" => q.base \in Text) /\ (q.pc # "rest" => q.given[l] \in Text)
                 => NewRow(q, l) \in Row
<1>1. ASSUME NEW t, NEW s, NewRow(q, l) = Written(t, s)
      PROVE  /\ NewRow(q, l) # Absent /\ NewRow(q, l).text = t
             /\ NewRow(q, l).synced => s
             /\ t \in Text /\ s \in BOOLEAN => NewRow(q, l) \in Row
    <2>1. NewRow(q, l) = [status |-> "live", text |-> t, synced |-> s]
        BY <1>1 DEF Written
    <2>2. NewRow(q, l) # Absent
        BY <2>1 DEF Absent
    <2>3. t \in Text /\ s \in BOOLEAN => NewRow(q, l) \in Row
        BY <2>1 DEF Row
    <2> QED BY <2>1, <2>2, <2>3
<1>2. CASE q.pc = "given"
    <2>1. NewRow(q, l) = Written(q.given[l], FALSE)
        BY <1>2 DEF NewRow
    <2>2. ~ NewRow(q, l).synced
        BY <1>1, <2>1
    <2> QED BY <1>1, <1>2, <2>1, <2>2
<1>3. CASE q.pc = "sample"
    <2>1. NewRow(q, l) = Written(q.given[l], TRUE)
        BY <1>3 DEF NewRow
    <2> QED BY <1>1, <1>3, <2>1
<1>4. CASE q.pc = "rest"
    <2>1. NewRow(q, l) = Written(q.base, TRUE)
        BY <1>4 DEF NewRow
    <2> QED BY <1>1, <1>4, <2>1
<1> QED BY <1>2, <1>3, <1>4

(* Types, when rows of a creation are inserted. *)
LEMMA InsertTypes ==
    ASSUME ShapeOK, HeldLists, NEW e \in Editor, InsertRows(e)
    PROVE  ShapeOK'
<1> DEFINE q == req[e]
           With(B) == [tr EXCEPT ![q.item] = [l \in Lang |->
                                   IF l \in B THEN NewRow(q, l) ELSE @[l]]]
<1>1. q \in Creating /\ q.item \in Content /\ q.base \in Text /\ q.given \in Given
      /\ q.todo \subseteq Lang /\ q.pc \in Making
      /\ (q.pc \in {"given", "sample"} => q.todo \subseteq DOMAIN q.given)
    BY RequestAt DEF InsertRows, Creating, Subsets, HeldLists
<1>2. PICK B \in Subsets(q.todo) :
         \/ tr' = With(B) /\ Become(e, AfterRows(q, B)) /\ UNCHANGED interrupted
         \/ Become(e, Idle) /\ interrupted' = interrupted \cup {q.item} /\ UNCHANGED tr
    BY DEF InsertRows
<1>4. With(B) \in [Content -> [Lang -> Row \cup {Absent}]]
    <2>1. B \subseteq q.todo
        BY DEF Subsets
    <2>2. \A l \in B : NewRow(q, l) \in Row
        BY <1>1, <2>1, GivenType, NewRows
    <2> HIDE DEF q
    <2> QED BY <1>1, <2>2 DEF ShapeOK
<1>5. req' \in [Editor -> {Idle} \cup Request]
    <2>1. AfterRows(q, B) \in {Idle} \cup Creating
        BY <1>1, AfterRowsType
    <2> QED BY <1>2, <2>1, BecomeType DEF Request
<1>6. tr' \in [Content -> [Lang -> Row \cup {Absent}]] /\ interrupted' \in SUBSET Content
    BY <1>1, <1>2, <1>4 DEF ShapeOK
<1> QED BY <1>5, <1>6 DEF ShapeOK, InsertRows

(* Types, when an item is loaded, with its translations or without. *)
LEMMA LoadTypes ==
    ASSUME ShapeOK, NEW e \in Editor, NEW op \in Op, NEW c \in Content, LoadItem(e, op, c)
    PROVE  ShapeOK'
<1> DEFINE none == [l \in {} |-> Absent]
           copy == IF Cascades(op) THEN Snapshot(c) ELSE none
           r == [pc |-> "loaded", op |-> op, item |-> c, copy |-> copy]
<1>1. Snapshot(c) \in Copy
    <2>1. LiveLangs(c) \in SUBSET Lang
        BY DEF LiveLangs
    <2>2. Snapshot(c) = [l \in LiveLangs(c) |-> Snapshot(c)[l]]
        BY DEF Snapshot
    <2>3. \A l \in LiveLangs(c) : Snapshot(c)[l] \in Row
        BY RowsArePresent, <2>1 DEF Snapshot
    <2> QED BY <2>1, <2>2, <2>3, RowsAreCopy
<1>2. none \in Copy
    <2>1. none = [l \in {} |-> none[l]]
        OBVIOUS
    <2> HIDE DEF none
    <2> QED BY <2>1, RowsAreCopy
<1>3. copy \in Copy
    BY <1>1, <1>2
<1> HIDE DEF copy
<1>4. r \in Loaded
    BY <1>3 DEF Loaded
<1>5. Become(e, r)
    BY DEF LoadItem, copy
<1> HIDE DEF r
<1>6. req' \in [Editor -> {Idle} \cup Request]
    BY <1>4, <1>5, BecomeType DEF Request
<1>7. changes' \in 0..MaxChanges
    BY ChangesAssumption DEF ShapeOK, LoadItem, Changed
<1> QED BY <1>6, <1>7 DEF ShapeOK, LoadItem

(* Types, when a request saves or removes the item it has loaded. *)
LEMMA SaveTypes ==
    ASSUME ShapeOK, HeldRows, NEW e \in Editor,
           SaveFails(e) \/ SaveItem(e) \/ SoftRemoveItem(e)
    PROVE  ShapeOK'
<1> DEFINE q == req[e]
<1>1. q \in Loaded /\ q.item \in Content /\ q.copy \in Copy
    BY RequestAt DEF SaveFails, SaveItem, SoftRemoveItem, Loaded
<1>2. DOMAIN q.copy \subseteq Lang /\ \A l \in DOMAIN q.copy : q.copy[l] \in Row
    BY <1>1, CopyType
<1>3. CASE SaveFails(e)
    <2>1. req' \in [Editor -> {Idle} \cup Request]
        BY <1>3, BecomeType DEF SaveFails
    <2> QED BY <1>3, <2>1 DEF SaveFails, ShapeOK
<1>4. CASE SaveItem(e)
    <2>1. tr' = [tr EXCEPT ![q.item] = [l \in Lang |->
                   IF l \in DOMAIN q.copy THEN q.copy[l] ELSE @[l]]]
        BY <1>4 DEF SaveItem
    <2>2. tr' \in [Content -> [Lang -> Row \cup {Absent}]]
        BY <1>1, <1>2, <2>1 DEF ShapeOK
    <2>3. item' \in [Content -> {"absent", "live", "deleted"}]
        BY <1>1, <1>4 DEF SaveItem, ShapeOK
    <2>4. req' \in [Editor -> {Idle} \cup Request]
        <3>1. CASE q.op = "edit"
            <4>1. PICK f \in Given : Become(e, [pc |-> "edit", item |-> q.item,
                                                given |-> f, todo |-> DOMAIN f])
                BY <1>4, <3>1 DEF SaveItem
            <4>2. [pc |-> "edit", item |-> q.item, given |-> f, todo |-> DOMAIN f] \in Editing
                BY <1>1, GivenType DEF Editing
            <4> QED BY <4>1, <4>2, BecomeType DEF Request
        <3>2. CASE q.op # "edit"
            BY <1>4, <3>2, BecomeType DEF SaveItem
        <3> QED BY <3>1, <3>2
    <2> QED BY <1>4, <2>2, <2>3, <2>4 DEF SaveItem, ShapeOK
<1>5. CASE SoftRemoveItem(e)
    <2>1. tr' = [tr EXCEPT ![q.item] = [l \in Lang |->
                   IF l \in DOMAIN q.copy THEN [@[l] EXCEPT !.status = "deleted"] ELSE @[l]]]
        BY <1>5 DEF SoftRemoveItem
    <2>2. \A l \in DOMAIN q.copy : [tr[q.item][l] EXCEPT !.status = "deleted"] \in Row
        <3>1. \A l \in DOMAIN q.copy : tr[q.item][l] \in Row
            BY <1>1, <1>2, <1>5, RowsArePresent DEF HeldRows, SoftRemoveItem
        <3> QED BY <3>1 DEF Row
    <2>3. tr' \in [Content -> [Lang -> Row \cup {Absent}]]
        <3> HIDE DEF q
        <3> QED BY <1>1, <1>2, <2>1, <2>2 DEF ShapeOK
    <2>4. item' \in [Content -> {"absent", "live", "deleted"}]
        BY <1>1, <1>5 DEF SoftRemoveItem, ShapeOK
    <2>5. req' \in [Editor -> {Idle} \cup Request]
        BY <1>5, BecomeType DEF SoftRemoveItem
    <2> QED BY <1>5, <2>3, <2>4, <2>5 DEF SoftRemoveItem, ShapeOK
<1> QED BY <1>3, <1>4, <1>5

(* What is left of an edit is an edit, or nothing. *)
LEMMA AfterEditType ==
    ASSUME NEW q \in Editing \cup Found, NEW l \in Lang, l \in q.todo
    PROVE  /\ AfterEdit(q, l) \in {Idle} \cup Request
           /\ AfterEdit(q, l).pc \in {"idle", "edit"}
<1> DEFINE left == [pc |-> "edit", item |-> q.item, given |-> q.given, todo |-> q.todo \ {l}]
<1>1. q.todo # {l} => left \in Editing
    BY DEF Editing, Found, Subsets
<1>2. Idle.pc = "idle"
    BY DEF Idle
<1> QED BY <1>1, <1>2 DEF AfterEdit, Request

(* Types, when an edit looks for the row of a language, or for one that is *)
(* named by its identifier.                                                *)
LEMMA FindTypes ==
    ASSUME ShapeOK, NEW e \in Editor, NEW l \in Lang,
           FindRow(e, l) \/ \E d \in Content, k \in Lang : FindNamed(e, l, d, k)
    PROVE  ShapeOK'
<1> DEFINE q == req[e]
           found(c, m, r) == [pc |-> "found", item |-> q.item, given |-> q.given, todo |-> q.todo,
                              lang |-> l, of |-> c, in |-> m, row |-> r]
<1>1. q \in Editing /\ l \in q.todo /\ q.item \in Content
    BY RequestAt DEF FindRow, FindNamed, Editing
<1>2. \A c \in Content, m \in Lang, r \in Row \cup {Absent} : found(c, m, r) \in Found
    BY <1>1 DEF Editing, Found
<1>3. AfterEdit(q, l) \in {Idle} \cup Request
    BY <1>1, AfterEditType
<1>4. \A c \in Content, m \in Lang : tr[c][m] \in Row \cup {Absent}
    BY RowsArePresent
<1>5. \/ \E c \in Content, m \in Lang, r \in Row \cup {Absent} : Become(e, found(c, m, r))
      \/ Become(e, AfterEdit(q, l))
      \/ Become(e, Idle)
    <2>1. CASE FindRow(e, l)
        BY <1>1, <1>4, <2>1 DEF FindRow
    <2>2. ASSUME NEW d \in Content, NEW k \in Lang, FindNamed(e, l, d, k)
          PROVE  Become(e, found(d, k, tr[d][k])) \/ Become(e, Idle)
        BY <2>2 DEF FindNamed
    <2> QED BY <1>4, <2>1, <2>2
<1> HIDE DEF found
<1>6. req' \in [Editor -> {Idle} \cup Request]
    BY <1>1, <1>2, <1>3, <1>5, BecomeType DEF Request
<1> QED BY <1>6 DEF FindRow, FindNamed, ShapeOK

(* Types, when an edit writes the row it found or adds the language. *)
LEMMA EditTypes ==
    ASSUME ShapeOK, HeldLists, HeldRows, NEW e \in Editor, WriteRow(e) \/ AddRow(e)
    PROVE  ShapeOK'
<1> DEFINE q == req[e]
           c == q.of
           l == q.in
           t == q.given[q.lang]
           row == [Written(t, FALSE) EXCEPT !.status =
                     IF EditReads THEN @ ELSE tr[c][l].status]
<1>1. q \in Found /\ c \in Content /\ l \in Lang /\ q.given \in Given
      /\ q.item \in Content /\ q.lang \in Lang
    BY RequestAt DEF WriteRow, AddRow, Found
<1>2. q.lang \in q.todo /\ q.lang \in DOMAIN q.given
    BY DEF HeldLists, WriteRow, AddRow
<1>3. t \in Text
    BY <1>1, <1>2, GivenType
<1>4. \A d \in Content : [source EXCEPT ![d] = @ \cup {t}] \in [Content -> SUBSET Text]
    BY <1>3 DEF ShapeOK
<1>5. AfterEdit(q, q.lang) \in {Idle} \cup Request
    BY <1>1, <1>2, AfterEditType
<1>6. CASE WriteRow(e)
    <2>1. tr[c][l] \in Row
        BY <1>1, <1>6, RowsArePresent DEF WriteRow, HeldRows
    <2>2. row \in Row
        BY <1>3, <2>1 DEF Written, Row
    <2>3. /\ tr' = [tr EXCEPT ![c][l] = row]
          /\ source' \in {[source EXCEPT ![c] = @ \cup {t}], source}
          /\ Become(e, AfterEdit(q, q.lang))
        BY <1>6 DEF WriteRow
    <2> HIDE DEF row
    <2>4. tr' \in [Content -> [Lang -> Row \cup {Absent}]]
        BY <1>1, <2>2, <2>3 DEF ShapeOK
    <2>5. source' \in [Content -> SUBSET Text]
        BY <1>1, <1>4, <2>3 DEF ShapeOK
    <2>6. req' \in [Editor -> {Idle} \cup Request]
        BY <1>5, <2>3, BecomeType
    <2> QED BY <1>6, <2>4, <2>5, <2>6 DEF WriteRow, ShapeOK
<1>7. CASE AddRow(e)
    <2> DEFINE i == q.item
               k == q.lang
    <2>1. /\ tr' \in {tr, [tr EXCEPT ![i][k] = Written(t, FALSE)]}
          /\ source' \in {[source EXCEPT ![i] = @ \cup {t}], source}
          /\ Become(e, AfterEdit(q, q.lang)) \/ Become(e, Idle)
        BY <1>7 DEF AddRow
    <2>2. Written(t, FALSE) \in Row
        BY <1>3 DEF Written, Row
    <2>3. tr' \in [Content -> [Lang -> Row \cup {Absent}]]
        <3>1. [tr EXCEPT ![i][k] = Written(t, FALSE)] \in [Content -> [Lang -> Row \cup {Absent}]]
            <4>1. i \in Content /\ k \in Lang
                BY <1>1
            <4> HIDE DEF i, k, t
            <4> QED BY <2>2, <4>1 DEF ShapeOK
        <3> QED BY <2>1, <3>1 DEF ShapeOK
    <2>4. source' \in [Content -> SUBSET Text]
        BY <1>1, <1>4, <2>1 DEF ShapeOK
    <2>5. req' \in [Editor -> {Idle} \cup Request]
        BY <1>5, <2>1, BecomeType
    <2> QED BY <1>7, <2>3, <2>4, <2>5 DEF AddRow, ShapeOK
<1> QED BY <1>6, <1>7

(* Types, when an edit updates a row it names by its identifier. *)
LEMMA NamedTypes ==
    ASSUME ShapeOK, HeldLists, NEW e \in Editor,
           NEW l \in Lang, NEW d \in Content, NEW k \in Lang, WriteNamed(e, l, d, k)
    PROVE  ShapeOK'
<1> DEFINE q == req[e]
           t == q.given[l]
           row == [tr[d][k] EXCEPT !.text = t, !.synced = FALSE]
<1>1. q \in Editing /\ q.given \in Given /\ l \in q.todo /\ l \in DOMAIN q.given
    BY RequestAt DEF WriteNamed, Editing, HeldLists
<1>2. t \in Text
    BY <1>1, GivenType
<1>3. AfterEdit(q, l) \in {Idle} \cup Request
    BY <1>1, AfterEditType
<1>4. k \in Present(d) => row \in Row
    <2>1. k \in Present(d) => tr[d][k] \in Row
        BY RowsArePresent
    <2> QED BY <1>2, <2>1 DEF Row
<1>5. \/ k \in Present(d) /\ tr' = [tr EXCEPT ![d][k] = row]
         /\ source' \in {[source EXCEPT ![d] = @ \cup {t}], source}
      \/ UNCHANGED <<tr, source>>
    BY DEF WriteNamed
<1> HIDE DEF row
<1>6. tr' \in [Content -> [Lang -> Row \cup {Absent}]]
    <2>1. CASE k \in Present(d) /\ tr' = [tr EXCEPT ![d][k] = row]
        <3>1. row \in Row
            BY <1>4, <2>1
        <3> QED BY <2>1, <3>1 DEF ShapeOK
    <2>2. CASE UNCHANGED tr
        BY <2>2 DEF ShapeOK
    <2> QED BY <1>5, <2>1, <2>2
<1>7. source' \in [Content -> SUBSET Text]
    BY <1>2, <1>5 DEF ShapeOK
<1>8. req' \in [Editor -> {Idle} \cup Request]
    BY <1>3, BecomeType DEF WriteNamed
<1> QED BY <1>6, <1>7, <1>8 DEF WriteNamed, ShapeOK

(* Types, when a run of the job takes a step. *)
LEMMA JobTypes ==
    ASSUME ShapeOK, NEW j \in Job, JobStart(j) \/ JobProgress(j) \/ JobFails(j)
    PROVE  ShapeOK'
<1> DEFINE s == job[j]
           next(T) == [pc |-> "next", todo |-> T]
<1>0. \A T \in SUBSET Content : next(T) \in JobState
    BY DEF JobState, Starting
<1>1. CASE JobStart(j)
    <2> DEFINE all == {c \in Content : item[c] = "live"}
    <2>1. Turn(j, next(all)) /\ all \in SUBSET Content
        BY <1>1 DEF JobStart
    <2>2. next(all) \in JobState
        BY <1>0, <2>1
    <2> HIDE DEF next
    <2>3. job' \in [Job -> {Idle} \cup JobState]
        BY <2>1, <2>2, TurnType
    <2> QED BY <1>1, <2>3 DEF JobStart, ShapeOK
<1>2. ASSUME NEW c \in Content, JobReadKorean(j, c) PROVE ShapeOK'
    <2> DEFINE rest == s.todo \ {c}
               find == [pc |-> "find", todo |-> rest, item |-> c, base |-> tr[c][ko].text]
    <2>1. rest \in SUBSET Content
        BY <1>2, RunAt DEF JobReadKorean, Starting
    <2>2. ko \in LiveLangs(c) => find \in JobState
        <3>1. ko \in LiveLangs(c) => tr[c][ko] \in Row
            BY RowsArePresent, KoreanAssumption
        <3>2. ko \in LiveLangs(c) => tr[c][ko].text \in Text
            BY <3>1 DEF Row
        <3> QED BY <2>1, <3>2 DEF JobState, Reading
    <2>3. Turn(j, IF ko \in LiveLangs(c) THEN find ELSE next(rest))
        BY <1>2 DEF JobReadKorean
    <2>4. next(rest) \in JobState
        BY <1>0, <2>1
    <2> HIDE DEF next, find
    <2>5. job' \in [Job -> {Idle} \cup JobState]
        BY <2>2, <2>3, <2>4, TurnType
    <2> QED BY <1>2, <2>5 DEF JobReadKorean, ShapeOK
<1>3. CASE JobFindSynced(j)
    <2> DEFINE marked == {l \in LiveLangs(s.item) \ {ko} : tr[s.item][l].synced}
               rows == [l \in marked |-> tr[s.item][l]]
               save == [pc |-> "save", todo |-> s.todo, item |-> s.item, base |-> s.base,
                        rows |-> rows]
    <2>1. s \in Reading /\ s.todo \in SUBSET Content /\ s.item \in Content /\ s.base \in Text
        BY <1>3, RunAt DEF JobFindSynced, Reading
    <2>2. rows \in Copy
        <3>1. marked \in SUBSET Lang
            BY DEF LiveLangs
        <3>2. \A l \in marked : tr[s.item][l] \in Row
            BY <2>1, <3>1, RowsArePresent
        <3>3. rows = [l \in marked |-> rows[l]] /\ \A l \in marked : rows[l] = tr[s.item][l]
            OBVIOUS
        <3> HIDE DEF rows, marked
        <3> QED BY <3>1, <3>2, <3>3, RowsAreCopy
    <2>3. Turn(j, IF marked = {} THEN next(s.todo) ELSE save)
        BY <1>3 DEF JobFindSynced
    <2> HIDE DEF rows, marked
    <2>4. save \in JobState
        BY <2>1, <2>2 DEF JobState, Saving
    <2>5. next(s.todo) \in JobState
        BY <1>0, <2>1
    <2> HIDE DEF next, save
    <2>6. job' \in [Job -> {Idle} \cup JobState]
        BY <2>3, <2>4, <2>5, TurnType
    <2> QED BY <1>3, <2>6 DEF JobFindSynced, ShapeOK
<1>4. ASSUME NEW l \in Lang, JobSave(j, l) PROVE ShapeOK'
    <2> DEFINE rest == DOMAIN s.rows \ {l}
               rows == [k \in rest |-> s.rows[k]]
               save == [s EXCEPT !.rows = rows]
    <2>1. s \in Saving /\ s.todo \in SUBSET Content /\ s.item \in Content /\ s.base \in Text
          /\ s.rows \in Copy
        BY <1>4, RunAt DEF JobSave, Saving
    <2>2. DOMAIN s.rows \subseteq Lang /\ \A k \in DOMAIN s.rows : s.rows[k] \in Row
        BY <2>1, CopyType
    <2>3. rows \in Copy
        <3>1. rest \in SUBSET Lang /\ \A k \in rest : s.rows[k] \in Row
            BY <2>2
        <3>2. rows = [k \in rest |-> rows[k]] /\ \A k \in rest : rows[k] = s.rows[k]
            OBVIOUS
        <3> HIDE DEF rows, rest
        <3> QED BY <3>1, <3>2, RowsAreCopy
    <2>4. /\ l \in DOMAIN s.rows
          /\ tr' = [tr EXCEPT ![s.item][l] = [s.rows[l] EXCEPT !.text = s.base]]
          /\ Turn(j, IF rest = {} THEN next(s.todo) ELSE save)
        BY <1>4 DEF JobSave
    <2>5. [s.rows[l] EXCEPT !.text = s.base] \in Row
        BY <2>1, <2>2, <2>4 DEF Row
    <2>6. tr' \in [Content -> [Lang -> Row \cup {Absent}]]
        BY <2>1, <2>4, <2>5 DEF ShapeOK
    <2> HIDE DEF rows
    <2>7. save \in JobState
        BY <2>1, <2>3 DEF JobState, Saving
    <2>8. next(s.todo) \in JobState
        BY <1>0, <2>1
    <2> HIDE DEF next, save
    <2>9. job' \in [Job -> {Idle} \cup JobState]
        BY <2>4, <2>7, <2>8, TurnType
    <2> QED BY <1>4, <2>6, <2>9 DEF JobSave, ShapeOK
<1>5. CASE JobEnd(j)
    <2>1. job' \in [Job -> {Idle} \cup JobState]
        BY <1>5, TurnType DEF JobEnd
    <2> QED BY <1>5, <2>1 DEF JobEnd, ShapeOK
<1>6. CASE JobFails(j)
    <2>1. job' \in [Job -> {Idle} \cup JobState]
        BY <1>6, TurnType DEF JobFails
    <2>2. changes' \in 0..MaxChanges
        BY <1>6, ChangesAssumption DEF JobFails, Changed, ShapeOK
    <2> QED BY <1>6, <2>1, <2>2 DEF JobFails, ShapeOK
<1> QED BY <1>1, <1>2, <1>3, <1>4, <1>5, <1>6 DEF JobProgress

(* Types, when a request or the whole process stops. *)
LEMMA StopTypes ==
    ASSUME ShapeOK, Crash \/ \E e \in Editor : RequestFails(e)
    PROVE  ShapeOK'
<1>1. \A e \in Editor : BeingCreated(e) \subseteq Content
    BY DEF BeingCreated
<1>2. CASE Crash
    <2>1. interrupted' \in SUBSET Content
        BY <1>1, <1>2 DEF Crash, ShapeOK
    <2>2. req' \in [Editor -> {Idle} \cup Request] /\ job' \in [Job -> {Idle} \cup JobState]
        BY <1>2 DEF Crash
    <2>3. changes' \in 0..MaxChanges
        BY <1>2, ChangesAssumption DEF Crash, Changed, ShapeOK
    <2> QED BY <1>2, <2>1, <2>2, <2>3 DEF Crash, ShapeOK
<1>3. ASSUME NEW e \in Editor, RequestFails(e) PROVE ShapeOK'
    <2>1. interrupted' \in SUBSET Content
        BY <1>1, <1>3 DEF RequestFails, ShapeOK
    <2>2. req' \in [Editor -> {Idle} \cup Request]
        BY <1>3, BecomeType DEF RequestFails
    <2>3. changes' \in 0..MaxChanges
        BY <1>3, ChangesAssumption DEF RequestFails, Changed, ShapeOK
    <2> QED BY <1>3, <2>1, <2>2, <2>3 DEF RequestFails, ShapeOK
<1> QED BY <1>2, <1>3

(* Every step keeps the types, given what requests and runs hold. *)
LEMMA TypeStep == ShapeOK /\ HeldLists /\ HeldRows /\ [Next]_vars => ShapeOK'
<1> SUFFICES ASSUME ShapeOK, HeldLists, HeldRows, [Next]_vars PROVE ShapeOK'
    OBVIOUS
<1>1. ASSUME NEW e \in Editor, RequestStep(e) PROVE ShapeOK'
    <2>1. ASSUME NEW c \in Content, CreateItem(e, c) \/ CreateSample(e, c) PROVE ShapeOK'
        BY <2>1, CreateTypes
    <2>2. ASSUME NEW op \in Op, NEW c \in Content, LoadItem(e, op, c) PROVE ShapeOK'
        BY <2>2, LoadTypes
    <2>3. ASSUME NEW l \in Lang, FindRow(e, l) PROVE ShapeOK'
        BY <2>3, FindTypes
    <2>4. ASSUME NEW l \in Lang, NEW d \in Content, NEW k \in Lang,
                 WriteNamed(e, l, d, k) \/ FindNamed(e, l, d, k)
          PROVE  ShapeOK'
        BY <2>4, FindTypes, NamedTypes
    <2>5. CASE InsertRows(e) \/ SaveFails(e) \/ SaveItem(e) \/ SoftRemoveItem(e)
               \/ WriteRow(e) \/ AddRow(e) \/ RequestFails(e)
        BY <2>5, InsertTypes, SaveTypes, EditTypes, StopTypes
    <2> QED BY <1>1, <2>1, <2>2, <2>3, <2>4, <2>5 DEF RequestStep
<1>2. ASSUME NEW j \in Job, JobStart(j) \/ JobProgress(j) \/ JobFails(j) PROVE ShapeOK'
    BY <1>2, JobTypes
<1>3. CASE Crash
    BY <1>3, StopTypes
<1>4. CASE UNCHANGED vars
    BY <1>4 DEF vars, ShapeOK
<1> QED BY <1>1, <1>2, <1>3, <1>4 DEF Next
-----------------------------------------------------------------------------
(***************************************************************************)
(* Who may write the entry of language l of item c in a step, and what.    *)
(***************************************************************************)
RowInserted(e, c, l) ==
    /\ req[e].pc \in Making /\ req[e].item = c /\ l \in req[e].todo
    /\ tr[c][l] = Absent
    /\ tr'[c][l] = NewRow(req[e], l)
RowSaved(e, c, l) ==
    /\ req[e].pc = "loaded" /\ req[e].item = c /\ l \in DOMAIN req[e].copy
    /\ tr'[c][l] = req[e].copy[l]
    /\ req'[e] # req[e]
RowRemoved(e, c, l) ==
    /\ req[e].pc = "loaded" /\ req[e].item = c /\ l \in DOMAIN req[e].copy
    /\ tr'[c][l] = [tr[c][l] EXCEPT !.status = "deleted"]
RowEdited(e, c, l) ==
    /\ req[e].pc = "found" /\ req[e].of = c /\ req[e].in = l /\ req[e].row # Absent
    /\ \E s \in {"live", tr[c][l].status} :
          tr'[c][l] = [Written(req[e].given[req[e].lang], FALSE) EXCEPT !.status = s]
    /\ l = ko => req[e].given[req[e].lang] \in source'[c]
    /\ req'[e] # req[e]
RowNamed(e, c, l) ==
    /\ req[e].pc = "edit" /\ l \in Present(c)
    /\ \E k \in req[e].todo :
          /\ tr'[c][l] = [tr[c][l] EXCEPT !.text = req[e].given[k], !.synced = FALSE]
          /\ l = ko => req[e].given[k] \in source'[c]
    /\ req'[e] # req[e]
RowAdded(e, c, l) ==
    /\ req[e].pc = "found" /\ req[e].item = c /\ req[e].lang = l /\ req[e].row = Absent
    /\ tr[c][l] = Absent
    /\ tr'[c][l] = Written(req[e].given[l], FALSE)
    /\ l = ko => req[e].given[l] \in source'[c]
RowCopied(j, c, l) ==
    /\ job[j].pc = "save" /\ job[j].item = c /\ l \in DOMAIN job[j].rows
    /\ tr'[c][l] = [job[j].rows[l] EXCEPT !.text = job[j].base]
    /\ job'[j] # job[j]

RowWritten(c, l) ==
    \/ tr'[c][l] = tr[c][l]
    \/ \E e \in Editor : \/ RowInserted(e, c, l) \/ RowSaved(e, c, l) \/ RowRemoved(e, c, l)
                         \/ RowEdited(e, c, l) \/ RowNamed(e, c, l) \/ RowAdded(e, c, l)
    \/ \E j \in Job : RowCopied(j, c, l)

(* A creation writes the rows it inserts, and no row that exists. *)
LEMMA InsertWrites ==
    ASSUME ShapeOK, NEW e \in Editor, InsertRows(e), NEW c \in Content, NEW l \in Lang
    PROVE  tr'[c][l] = tr[c][l] \/ RowInserted(e, c, l)
<1> DEFINE q == req[e]
           With(B) == [tr EXCEPT ![q.item] = [k \in Lang |->
                                   IF k \in B THEN NewRow(q, k) ELSE @[k]]]
<1>1. PICK B \in Subsets(q.todo) :
         \/ tr' = With(B) /\ B \cap Present(q.item) = {}
         \/ UNCHANGED tr
    BY DEF InsertRows
<1>2. q.pc \in Making /\ B \subseteq q.todo
    BY DEF InsertRows, Subsets
<1>3. ASSUME tr' = With(B), B \cap Present(q.item) = {}, c = q.item, l \in B
      PROVE  RowInserted(e, c, l)
    <2>1. tr[c][l] = Absent
        BY <1>3 DEF Present
    <2>2. tr'[c][l] = NewRow(q, l)
        BY <1>3 DEF ShapeOK
    <2> QED BY <1>2, <1>3, <2>1, <2>2 DEF RowInserted
<1>4. ASSUME tr' = With(B), ~ (c = q.item /\ l \in B) PROVE tr'[c][l] = tr[c][l]
    BY <1>4 DEF ShapeOK
<1> QED BY <1>1, <1>3, <1>4

(* Saving or removing an item writes the entries of its copy. *)
LEMMA SaveWrites ==
    ASSUME ShapeOK, NEW e \in Editor, SaveItem(e) \/ SoftRemoveItem(e),
           NEW c \in Content, NEW l \in Lang
    PROVE  tr'[c][l] = tr[c][l] \/ RowSaved(e, c, l) \/ RowRemoved(e, c, l)
<1> DEFINE q == req[e]
<1>1. CASE SaveItem(e)
    <2>1. /\ q.pc = "loaded"
          /\ tr' = [tr EXCEPT ![q.item] = [k \in Lang |->
                     IF k \in DOMAIN q.copy THEN q.copy[k] ELSE @[k]]]
        BY <1>1 DEF SaveItem
    <2>2. req'[e].pc \in {"edit", "idle"}
        BY <1>1 DEF SaveItem, Become, ShapeOK, Idle
    <2>3. c = q.item /\ l \in DOMAIN q.copy => tr'[c][l] = q.copy[l]
        BY <2>1 DEF ShapeOK
    <2>4. ~ (c = q.item /\ l \in DOMAIN q.copy) => tr'[c][l] = tr[c][l]
        BY <2>1 DEF ShapeOK
    <2>5. req'[e] # req[e]
        BY <2>1, <2>2
    <2> QED BY <2>1, <2>3, <2>4, <2>5 DEF RowSaved
<1>2. CASE SoftRemoveItem(e)
    <2>1. /\ q.pc = "loaded"
          /\ tr' = [tr EXCEPT ![q.item] = [k \in Lang |->
                     IF k \in DOMAIN q.copy THEN [@[k] EXCEPT !.status = "deleted"] ELSE @[k]]]
        BY <1>2 DEF SoftRemoveItem
    <2>2. c = q.item /\ l \in DOMAIN q.copy => tr'[c][l] = [tr[c][l] EXCEPT !.status = "deleted"]
        BY <2>1 DEF ShapeOK
    <2>3. ~ (c = q.item /\ l \in DOMAIN q.copy) => tr'[c][l] = tr[c][l]
        BY <2>1 DEF ShapeOK
    <2> QED BY <2>1, <2>2, <2>3 DEF RowRemoved
<1> QED BY <1>1, <1>2

(* An edit writes the entry of its language. *)
LEMMA EditWrites ==
    ASSUME ShapeOK, HeldLists, NEW e \in Editor, WriteRow(e) \/ AddRow(e),
           NEW c \in Content, NEW l \in Lang
    PROVE  tr'[c][l] = tr[c][l] \/ RowEdited(e, c, l) \/ RowAdded(e, c, l)
<1> DEFINE q == req[e]
           t == q.given[q.lang]
<1>1. q \in Found /\ q.item \in Content /\ q.of \in Content /\ q.in \in Lang
      /\ q.lang \in Lang /\ q.lang \in q.todo /\ q.pc = "found"
    BY RequestAt DEF WriteRow, AddRow, Found, HeldLists
<1>2. CASE WriteRow(e)
    <2> DEFINE s == IF EditReads THEN "live" ELSE tr[q.of][q.in].status
    <2>1. /\ q.row # Absent
          /\ tr' = [tr EXCEPT ![q.of][q.in] = [Written(t, FALSE) EXCEPT !.status = s]]
          /\ source' = IF q.in = ko THEN [source EXCEPT ![q.of] = @ \cup {t}] ELSE source
        BY <1>2 DEF WriteRow, Written
    <2>2. req'[e] # req[e]
        <3>1. req'[e] = AfterEdit(q, q.lang)
            BY <1>2 DEF WriteRow, Become, ShapeOK
        <3>2. AfterEdit(q, q.lang).pc \in {"idle", "edit"}
            BY <1>1, AfterEditType
        <3> QED BY <1>1, <3>1, <3>2
    <2>3. c = q.of /\ l = q.in => tr'[c][l] = [Written(t, FALSE) EXCEPT !.status = s]
        BY <1>1, <2>1 DEF ShapeOK
    <2>4. ~ (c = q.of /\ l = q.in) => tr'[c][l] = tr[c][l]
        BY <1>1, <2>1 DEF ShapeOK
    <2>5. q.in = ko => t \in source'[q.of]
        BY <1>1, <2>1 DEF ShapeOK
    <2> QED BY <1>1, <2>1, <2>2, <2>3, <2>4, <2>5 DEF RowEdited
<1>3. CASE AddRow(e)
    <2>1. \/ /\ tr' = [tr EXCEPT ![q.item][q.lang] = Written(t, FALSE)]
             /\ tr[q.item][q.lang] = Absent /\ q.row = Absent
             /\ source' = IF q.lang = ko THEN [source EXCEPT ![q.item] = @ \cup {t}] ELSE source
          \/ UNCHANGED tr
        BY <1>3 DEF AddRow
    <2>2. CASE UNCHANGED tr
        BY <2>2
    <2>3. ASSUME tr' = [tr EXCEPT ![q.item][q.lang] = Written(t, FALSE)],
                 tr[q.item][q.lang] = Absent, q.row = Absent,
                 source' = IF q.lang = ko THEN [source EXCEPT ![q.item] = @ \cup {t}] ELSE source
          PROVE  tr'[c][l] = tr[c][l] \/ RowAdded(e, c, l)
        <3>1. c = q.item /\ l = q.lang => tr'[c][l] = Written(t, FALSE)
            BY <1>1, <2>3 DEF ShapeOK
        <3>2. ~ (c = q.item /\ l = q.lang) => tr'[c][l] = tr[c][l]
            BY <1>1, <2>3 DEF ShapeOK
        <3>3. q.lang = ko => t \in source'[q.item]
            BY <1>1, <2>3 DEF ShapeOK
        <3> QED BY <1>1, <2>3, <3>1, <3>2, <3>3 DEF RowAdded
    <2> QED BY <2>1, <2>2, <2>3
<1> QED BY <1>2, <1>3

(* An edit that names a row writes that one, if there is such a row. *)
LEMMA NamedWrites ==
    ASSUME ShapeOK, NEW e \in Editor,
           NEW m \in Lang, NEW d \in Content, NEW k \in Lang, WriteNamed(e, m, d, k),
           NEW c \in Content, NEW l \in Lang
    PROVE  tr'[c][l] = tr[c][l] \/ RowNamed(e, c, l)
<1> DEFINE q == req[e]
           t == q.given[m]
           row == [tr[d][k] EXCEPT !.text = t, !.synced = FALSE]
<1>1. q \in Editing /\ q.pc = "edit" /\ m \in q.todo
    BY RequestAt DEF WriteNamed
<1>2. req'[e] # q
    <2>1. req'[e] = AfterEdit(q, m)
        BY DEF WriteNamed, Become, ShapeOK
    <2>2. CASE q.todo = {m}
        BY <1>1, <2>1, <2>2 DEF AfterEdit, Idle
    <2>3. CASE q.todo # {m}
        <3>1. req'[e].todo = q.todo \ {m}
            BY <2>1, <2>3 DEF AfterEdit
        <3> QED BY <1>1, <3>1
    <2> QED BY <2>2, <2>3
<1>3. CASE UNCHANGED tr
    BY <1>3
<1>4. CASE /\ k \in Present(d) /\ tr' = [tr EXCEPT ![d][k] = row]
           /\ source' = IF k = ko THEN [source EXCEPT ![d] = @ \cup {t}] ELSE source
    <2>1. k = ko => t \in source'[d]
        BY <1>4 DEF ShapeOK
    <2> HIDE DEF row
    <2>2. c = d /\ l = k => tr'[c][l] = row
        BY <1>4 DEF ShapeOK
    <2>3. ~ (c = d /\ l = k) => tr'[c][l] = tr[c][l]
        BY <1>4 DEF ShapeOK
    <2> QED BY <1>1, <1>2, <1>4, <2>1, <2>2, <2>3 DEF RowNamed, row
<1> QED BY <1>3, <1>4 DEF WriteNamed

(* The job writes the entries of its copies. *)
LEMMA JobWrites ==
    ASSUME ShapeOK, NEW j \in Job, NEW k \in Lang, JobSave(j, k),
           NEW c \in Content, NEW l \in Lang
    PROVE  tr'[c][l] = tr[c][l] \/ RowCopied(j, c, l)
<1> DEFINE s == job[j]
           rest == DOMAIN s.rows \ {k}
<1>1. s \in Saving /\ s.pc = "save" /\ s.item \in Content
    BY RunAt DEF JobSave, Saving
<1>2. /\ k \in DOMAIN s.rows
      /\ tr' = [tr EXCEPT ![s.item][k] = [s.rows[k] EXCEPT !.text = s.base]]
    BY DEF JobSave
<1>3. job'[j] # s
    <2>1. job'[j] = IF rest = {} THEN [pc |-> "next", todo |-> s.todo]
                    ELSE [s EXCEPT !.rows = [m \in rest |-> s.rows[m]]]
        BY DEF JobSave, Turn, ShapeOK
    <2>2. CASE rest = {}
        BY <1>1, <2>1, <2>2
    <2>3. CASE rest # {}
        <3>1. job'[j].rows = [m \in rest |-> s.rows[m]]
            BY <1>1, <2>1, <2>3 DEF Saving
        <3>2. k \notin DOMAIN job'[j].rows
            BY <3>1
        <3> QED BY <1>2, <3>2
    <2> QED BY <2>2, <2>3
<1>4. c = s.item /\ l = k => tr'[c][l] = [s.rows[k] EXCEPT !.text = s.base]
    BY <1>1, <1>2 DEF ShapeOK
<1>5. ~ (c = s.item /\ l = k) => tr'[c][l] = tr[c][l]
    BY <1>1, <1>2 DEF ShapeOK
<1> QED BY <1>1, <1>2, <1>3, <1>4, <1>5 DEF RowCopied

(* Nobody else writes the table of translations. *)
LEMMA EveryWrite ==
    ASSUME ShapeOK, HeldLists, [Next]_vars, NEW c \in Content, NEW l \in Lang
    PROVE  RowWritten(c, l)
<1>1. ASSUME NEW e \in Editor, RequestStep(e) PROVE RowWritten(c, l)
    <2>1. CASE InsertRows(e)
        BY <2>1, InsertWrites DEF RowWritten
    <2>2. CASE SaveItem(e) \/ SoftRemoveItem(e)
        BY <2>2, SaveWrites DEF RowWritten
    <2>3. CASE WriteRow(e) \/ AddRow(e)
        BY <2>3, EditWrites DEF RowWritten
    <2>4. ASSUME NEW d \in Content, CreateItem(e, d) \/ CreateSample(e, d) PROVE UNCHANGED tr
        BY <2>4 DEF CreateItem, CreateSample
    <2>5. ASSUME NEW op \in Op, NEW d \in Content, LoadItem(e, op, d) PROVE UNCHANGED tr
        BY <2>5 DEF LoadItem
    <2>6. ASSUME NEW k \in Lang, FindRow(e, k) PROVE UNCHANGED tr
        BY <2>6 DEF FindRow
    <2>7. CASE SaveFails(e) \/ RequestFails(e)
        BY <2>7 DEF SaveFails, RequestFails, RowWritten
    <2>8. ASSUME NEW m \in Lang, NEW d \in Content, NEW k \in Lang, WriteNamed(e, m, d, k)
          PROVE  RowWritten(c, l)
        BY <2>8, NamedWrites DEF RowWritten
    <2>9. ASSUME NEW m \in Lang, NEW d \in Content, NEW k \in Lang, FindNamed(e, m, d, k)
          PROVE  UNCHANGED tr
        BY <2>9 DEF FindNamed
    <2> QED BY <1>1, <2>1, <2>2, <2>3, <2>4, <2>5, <2>6, <2>7, <2>8, <2>9 DEF RequestStep, RowWritten
<1>2. ASSUME NEW j \in Job, JobStart(j) \/ JobProgress(j) \/ JobFails(j) PROVE RowWritten(c, l)
    <2>1. ASSUME NEW k \in Lang, JobSave(j, k) PROVE RowWritten(c, l)
        BY <2>1, JobWrites DEF RowWritten
    <2>2. ASSUME NEW d \in Content, JobReadKorean(j, d) PROVE UNCHANGED tr
        BY <2>2 DEF JobReadKorean
    <2>3. CASE JobStart(j) \/ JobFindSynced(j) \/ JobEnd(j) \/ JobFails(j)
        BY <2>3 DEF JobStart, JobFindSynced, JobEnd, JobFails, RowWritten
    <2> QED BY <1>2, <2>1, <2>2, <2>3 DEF JobProgress, RowWritten
<1>3. CASE Crash \/ UNCHANGED vars
    BY <1>3 DEF Crash, vars, RowWritten
<1> QED BY <1>1, <1>2, <1>3 DEF Next

PresentAfter(c) == {l \in Lang : tr'[c][l] # Absent}

(* Every entry written is a row, so rows are never removed. *)
LEMMA RowsStay ==
    ASSUME ShapeOK, HeldLists, [Next]_vars, NEW c \in Content
    PROVE  Present(c) \subseteq PresentAfter(c)
<1> SUFFICES ASSUME NEW l \in Present(c) PROVE tr'[c][l] # Absent
    BY DEF Present, PresentAfter
<1>0. l \in Lang /\ tr[c][l] # Absent
    BY DEF Present
<1>1. RowWritten(c, l)
    BY <1>0, EveryWrite
<1>2. \A t, s : Written(t, s) # Absent
    BY DEF Written, Absent
<1>3. ASSUME NEW e \in Editor, RowInserted(e, c, l) \/ RowAdded(e, c, l) PROVE tr'[c][l] # Absent
    BY <1>0, <1>3 DEF RowInserted, RowAdded
<1>8. ASSUME NEW e \in Editor, RowNamed(e, c, l) PROVE tr'[c][l] # Absent
    <2>1. tr[c][l] \in Row
        BY RowsArePresent, <1>0
    <2>2. DOMAIN tr'[c][l] = {"status", "text", "synced"}
        BY <1>8, <2>1 DEF RowNamed, Row
    <2>3. DOMAIN Absent = {"status"}
        BY DEF Absent
    <2>4. "text" \in DOMAIN tr'[c][l] /\ "text" \notin DOMAIN Absent
        BY <2>2, <2>3
    <2> QED BY <2>4
<1>4. ASSUME NEW e \in Editor, RowSaved(e, c, l) PROVE tr'[c][l] # Absent
    <2>1. req[e].copy[l] \in Row
        BY <1>4, RequestAt, CopyType DEF RowSaved, Loaded
    <2> QED BY <1>4, <2>1, RowsArePresent DEF RowSaved
<1>5. ASSUME NEW e \in Editor, RowRemoved(e, c, l) PROVE tr'[c][l] # Absent
    <2>1. tr[c][l] \in Row
        BY RowsArePresent, <1>0
    <2>2. tr'[c][l].status = "deleted"
        BY <1>5, <2>1 DEF RowRemoved, Row
    <2> QED BY <2>2 DEF Absent
<1>6. ASSUME NEW e \in Editor, RowEdited(e, c, l) PROVE tr'[c][l] # Absent
    <2>1. PICK s : tr'[c][l] = [Written(req[e].given[req[e].lang], FALSE) EXCEPT !.status = s]
        BY <1>6 DEF RowEdited
    <2>2. tr'[c][l] = [status |-> s, text |-> req[e].given[req[e].lang], synced |-> FALSE]
        BY <2>1 DEF Written
    <2> QED BY <2>2 DEF Absent
<1>7. ASSUME NEW j \in Job, RowCopied(j, c, l) PROVE tr'[c][l] # Absent
    <2>1. job[j].rows[l] \in Row
        BY <1>7, RunAt, CopyType DEF RowCopied, Saving
    <2>2. tr'[c][l].text = job[j].base /\ DOMAIN tr'[c][l] = {"status", "text", "synced"}
        BY <1>7, <2>1 DEF RowCopied, Row
    <2>3. DOMAIN Absent = {"status"}
        BY DEF Absent
    <2>4. "text" \in DOMAIN tr'[c][l] /\ "text" \notin DOMAIN Absent
        BY <2>2, <2>3
    <2> QED BY <2>4
<1> QED BY <1>0, <1>1, <1>3, <1>4, <1>5, <1>6, <1>7, <1>8 DEF RowWritten

(* The source of an item only grows.                                       *)
LEMMA SourceGrows ==
    ASSUME ShapeOK, [Next]_vars, NEW c \in Content
    PROVE  source[c] \subseteq source'[c]
<1>1. ASSUME NEW e \in Editor, RequestStep(e) PROVE source[c] \subseteq source'[c]
    <2>1. ASSUME NEW d \in Content, CreateItem(e, d) \/ CreateSample(e, d)
          PROVE  source[c] \subseteq source'[c]
        <3>1. PICK f, t, w : Created(e, d, f, t, w)
            BY <2>1, Creation
        <3> QED BY <3>1 DEF Created, ShapeOK
    <2>2. CASE WriteRow(e) \/ AddRow(e)
        BY <2>2 DEF WriteRow, AddRow, ShapeOK
    <2>3. ASSUME NEW op \in Op, NEW d \in Content, LoadItem(e, op, d) PROVE UNCHANGED source
        BY <2>3 DEF LoadItem
    <2>4. ASSUME NEW k \in Lang, FindRow(e, k) PROVE UNCHANGED source
        BY <2>4 DEF FindRow
    <2>5. CASE InsertRows(e) \/ SaveItem(e) \/ SoftRemoveItem(e) \/ SaveFails(e) \/ RequestFails(e)
        BY <2>5 DEF InsertRows, SaveItem, SoftRemoveItem, SaveFails, RequestFails
    <2>6. ASSUME NEW l \in Lang, NEW d \in Content, NEW k \in Lang, WriteNamed(e, l, d, k)
          PROVE  source[c] \subseteq source'[c]
        BY <2>6 DEF WriteNamed, ShapeOK
    <2>7. ASSUME NEW l \in Lang, NEW d \in Content, NEW k \in Lang, FindNamed(e, l, d, k)
          PROVE  UNCHANGED source
        BY <2>7 DEF FindNamed
    <2> QED BY <1>1, <2>1, <2>2, <2>3, <2>4, <2>5, <2>6, <2>7 DEF RequestStep
<1>2. ASSUME NEW j \in Job, JobStart(j) \/ JobProgress(j) \/ JobFails(j) PROVE UNCHANGED source
    BY <1>2 DEF JobStart, JobProgress, JobFails, JobReadKorean, JobFindSynced, JobSave, JobEnd
<1>3. CASE Crash \/ UNCHANGED vars
    BY <1>3 DEF Crash, vars
<1> QED BY <1>1, <1>2, <1>3 DEF Next

(* The texts of a sample are recorded when it is created.                  *)
Sampling(e, d, f) ==
    /\ kind = "brochure" /\ item[d] = "absent" /\ item'[d] = "live"
    /\ req'[e].pc = "sample" /\ req'[e].item = d /\ req'[e].given = f
    /\ sample' = [sample EXCEPT ![d] = [l \in Lang |->
                     IF l \in DOMAIN f THEN @[l] \cup {f[l]} ELSE @[l]]]

LEMMA SampleMoves ==
    ASSUME ShapeOK, [Next]_vars
    PROVE  UNCHANGED sample \/ \E e \in Editor, d \in Content, f \in Given : Sampling(e, d, f)
<1>1. ASSUME NEW e \in Editor, NEW d \in Content, CreateSample(e, d)
      PROVE  \E f \in Given : Sampling(e, d, f)
    <2>1. PICK f \in Given :
              /\ Become(e, [pc |-> "sample", item |-> d, given |-> f, todo |-> DOMAIN f,
                            base |-> f[ko]])
              /\ sample' = [sample EXCEPT ![d] = [l \in Lang |->
                              IF l \in DOMAIN f THEN @[l] \cup {f[l]} ELSE @[l]]]
        BY <1>1 DEF CreateSample
    <2>2. req'[e] = [pc |-> "sample", item |-> d, given |-> f, todo |-> DOMAIN f, base |-> f[ko]]
        BY <2>1 DEF Become, ShapeOK
    <2>3. kind = "brochure" /\ item[d] = "absent" /\ item'[d] = "live"
        BY <1>1 DEF CreateSample, ShapeOK
    <2>4. req'[e].pc = "sample" /\ req'[e].item = d /\ req'[e].given = f
        BY <2>2
    <2>5. Sampling(e, d, f)
        BY <2>1, <2>3, <2>4, Zenon DEF Sampling
    <2> QED BY <2>5
<1>2. ASSUME NEW e \in Editor, RequestStep(e), \A d \in Content : ~ CreateSample(e, d)
      PROVE  UNCHANGED sample
    <2>1. ASSUME NEW d \in Content, CreateItem(e, d) PROVE UNCHANGED sample
        BY <2>1 DEF CreateItem
    <2>2. ASSUME NEW op \in Op, NEW d \in Content, LoadItem(e, op, d) PROVE UNCHANGED sample
        BY <2>2 DEF LoadItem
    <2>3. ASSUME NEW k \in Lang, FindRow(e, k) PROVE UNCHANGED sample
        BY <2>3 DEF FindRow
    <2>4. ASSUME NEW l \in Lang, NEW d \in Content, NEW k \in Lang,
                 WriteNamed(e, l, d, k) \/ FindNamed(e, l, d, k)
          PROVE  UNCHANGED sample
        BY <2>4 DEF WriteNamed, FindNamed
    <2>5. CASE InsertRows(e) \/ SaveItem(e) \/ SoftRemoveItem(e) \/ SaveFails(e)
               \/ WriteRow(e) \/ AddRow(e) \/ RequestFails(e)
        BY <2>5 DEF InsertRows, SaveItem, SoftRemoveItem, SaveFails, WriteRow, AddRow, RequestFails
    <2> QED BY <1>2, <2>1, <2>2, <2>3, <2>4, <2>5 DEF RequestStep
<1>3. ASSUME NEW j \in Job, JobStart(j) \/ JobProgress(j) \/ JobFails(j) PROVE UNCHANGED sample
    BY <1>3 DEF JobStart, JobProgress, JobFails, JobReadKorean, JobFindSynced, JobSave, JobEnd
<1>4. CASE Crash \/ UNCHANGED vars
    BY <1>4 DEF Crash, vars
<1> QED BY <1>1, <1>2, <1>3, <1>4 DEF Next

(* So the recorded texts stay texts, none is forgotten, and only an item   *)
(* that appears may get new ones.                                          *)
LEMMA SampleGrows ==
    ASSUME TypeOK, [Next]_vars
    PROVE  /\ sample' \in [Content -> [Lang -> SUBSET Text]]
           /\ \A c \in Content, l \in Lang : sample[c][l] \subseteq sample'[c][l]
           /\ \A c \in Content : item[c] # "absent" \/ item'[c] = "absent" => sample'[c] = sample[c]
<1>0. ShapeOK /\ sample \in [Content -> [Lang -> SUBSET Text]]
    BY DEF TypeOK
<1>1. CASE UNCHANGED sample
    BY <1>0, <1>1
<1>2. ASSUME NEW e \in Editor, NEW d \in Content, NEW f \in Given, Sampling(e, d, f)
      PROVE  /\ sample' \in [Content -> [Lang -> SUBSET Text]]
             /\ \A c \in Content, l \in Lang : sample[c][l] \subseteq sample'[c][l]
             /\ \A c \in Content : item[c] # "absent" \/ item'[c] = "absent" => sample'[c] = sample[c]
    <2> DEFINE new == [l \in Lang |-> IF l \in DOMAIN f THEN sample[d][l] \cup {f[l]} ELSE sample[d][l]]
    <2>1. sample' = [sample EXCEPT ![d] = new]
        BY <1>0, <1>2 DEF Sampling
    <2>2. new \in [Lang -> SUBSET Text]
        <3>1. \A l \in DOMAIN f : f[l] \in Text
            BY GivenType
        <3> QED BY <1>0, <3>1
    <2>3. \A l \in Lang : sample[d][l] \subseteq new[l]
        OBVIOUS
    <2>4. item[d] = "absent" /\ item'[d] # "absent"
        BY <1>2 DEF Sampling
    <2> HIDE DEF new
    <2> QED BY <1>0, <2>1, <2>2, <2>3, <2>4
<1> QED BY <1>0, <1>1, <1>2, SampleMoves

(* An item that exists goes on existing, soft-deleted at most.             *)
LEMMA ItemsStay ==
    ASSUME ShapeOK, [Next]_vars, NEW c \in Content, item[c] # "absent"
    PROVE  item'[c] # "absent"
<1>1. ASSUME NEW e \in Editor, RequestStep(e) PROVE item'[c] # "absent"
    <2>1. ASSUME NEW d \in Content, CreateItem(e, d) \/ CreateSample(e, d) PROVE item'[c] # "absent"
        BY <2>1 DEF CreateItem, CreateSample, ShapeOK
    <2>2. CASE SaveItem(e) \/ SoftRemoveItem(e)
        BY <2>2 DEF SaveItem, SoftRemoveItem, ShapeOK
    <2>3. ASSUME NEW op \in Op, NEW d \in Content, LoadItem(e, op, d) PROVE UNCHANGED item
        BY <2>3 DEF LoadItem
    <2>4. ASSUME NEW k \in Lang, FindRow(e, k) PROVE UNCHANGED item
        BY <2>4 DEF FindRow
    <2>5. CASE InsertRows(e) \/ WriteRow(e) \/ AddRow(e) \/ SaveFails(e) \/ RequestFails(e)
        BY <2>5 DEF InsertRows, WriteRow, AddRow, SaveFails, RequestFails
    <2>6. ASSUME NEW l \in Lang, NEW d \in Content, NEW k \in Lang,
                 WriteNamed(e, l, d, k) \/ FindNamed(e, l, d, k)
          PROVE  UNCHANGED item
        BY <2>6 DEF WriteNamed, FindNamed
    <2> QED BY <1>1, <2>1, <2>2, <2>3, <2>4, <2>5, <2>6 DEF RequestStep
<1>2. ASSUME NEW j \in Job, JobStart(j) \/ JobProgress(j) \/ JobFails(j) PROVE UNCHANGED item
    BY <1>2 DEF JobStart, JobProgress, JobFails, JobReadKorean, JobFindSynced, JobSave, JobEnd
<1>3. CASE Crash \/ UNCHANGED vars
    BY <1>3 DEF Crash, vars
<1> QED BY <1>1, <1>2, <1>3 DEF Next

(* A marked or Korean row is only ever given a text of the source, unless  *)
(* it is a sample's and is given the sample's text.                        *)
LEMMA SourceInTableStep ==
    ASSUME TypeOK, HeldLists, HeldRows, SourceInTable, SourceInMemory, Samples, [Next]_vars
    PROVE  SourceInTable'
<1> SUFFICES ASSUME NEW c \in Content, NEW l \in Lang, tr'[c][l] # Absent
             PROVE  /\ l = ko => tr'[c][l].text \in source'[c]
                    /\ tr'[c][l].synced => tr'[c][l].text \in source'[c] \cup sample'[c][l]
    BY DEF SourceInTable, Sourced, Present
<1> DEFINE r == tr'[c][l]
<1>0. ShapeOK
    BY DEF TypeOK
<1>1. RowWritten(c, l) /\ source[c] \subseteq source'[c] /\ sample[c][l] \subseteq sample'[c][l]
    BY <1>0, EveryWrite, SourceGrows, SampleGrows
<1> DEFINE Kept == /\ l = ko => r.text \in source'[c]
                   /\ r.synced => r.text \in source'[c] \cup sample'[c][l]
<1>2. CASE tr'[c][l] = tr[c][l]
    BY <1>1, <1>2 DEF SourceInTable, Sourced, Present
<1>3. ASSUME NEW e \in Editor, RowInserted(e, c, l) PROVE Kept
    <2> DEFINE q == req[e]
    <2>1. q.pc \in Making /\ q.item = c /\ l \in q.todo /\ r = NewRow(q, l)
        BY <1>3 DEF RowInserted
    <2>2. /\ q.base \in source[c]
          /\ ko \in DOMAIN q.given => q.given[ko] \in source[c]
          /\ q.pc = "sample" => \A k \in DOMAIN q.given : q.given[k] \in sample[c][k]
          /\ q.pc # "rest" => l \in DOMAIN q.given
        BY <2>1 DEF SourceInMemory, HeldLists
    <2>3. /\ r.text = IF q.pc = "rest" THEN q.base ELSE q.given[l]
          /\ r.synced => q.pc # "given"
        BY <2>1, NewRows
    <2> HIDE DEF q, r
    <2>4. CASE q.pc = "rest"
        BY <1>1, <2>2, <2>3, <2>4
    <2>5. CASE q.pc # "rest"
        <3>1. r.synced => q.pc = "sample"
            BY <2>1, <2>3, <2>5
        <3> QED BY <1>1, <2>2, <2>3, <2>5, <3>1
    <2> QED BY <2>4, <2>5
<1>4. ASSUME NEW e \in Editor, RowSaved(e, c, l) PROVE Kept
    BY <1>1, <1>4 DEF RowSaved, SourceInMemory, Sourced
<1>5. ASSUME NEW e \in Editor, RowRemoved(e, c, l) PROVE Kept
    <2>1. l \in Present(c) /\ tr[c][l] \in Row
        BY <1>0, <1>5, RowsArePresent DEF RowRemoved, HeldRows
    <2>2. r.synced = tr[c][l].synced /\ r.text = tr[c][l].text
        BY <1>5, <2>1 DEF RowRemoved, Row
    <2> QED BY <1>1, <2>1, <2>2 DEF SourceInTable, Sourced
<1>6. ASSUME NEW e \in Editor, RowEdited(e, c, l) PROVE Kept
    <2> DEFINE t == req[e].given[req[e].lang]
    <2>1. PICK s : r = [Written(t, FALSE) EXCEPT !.status = s]
        BY <1>6 DEF RowEdited
    <2>2. r = [status |-> s, text |-> t, synced |-> FALSE]
        BY <2>1 DEF Written
    <2>3. r.synced = FALSE /\ r.text = t
        BY <2>2
    <2> QED BY <1>6, <2>3 DEF RowEdited
<1>7. ASSUME NEW e \in Editor, RowNamed(e, c, l) PROVE Kept
    <2>1. tr[c][l] \in Row
        BY <1>0, <1>7, RowsArePresent DEF RowNamed
    <2>2. PICK k \in req[e].todo :
              /\ r = [tr[c][l] EXCEPT !.text = req[e].given[k], !.synced = FALSE]
              /\ l = ko => req[e].given[k] \in source'[c]
        BY <1>7 DEF RowNamed
    <2>3. r.synced = FALSE /\ r.text = req[e].given[k]
        BY <2>1, <2>2 DEF Row
    <2> QED BY <2>2, <2>3
<1>8. ASSUME NEW e \in Editor, RowAdded(e, c, l) PROVE Kept
    <2>1. r = [status |-> "live", text |-> req[e].given[l], synced |-> FALSE]
        BY <1>8 DEF RowAdded, Written
    <2>2. r.synced = FALSE /\ r.text = req[e].given[l]
        BY <2>1
    <2> QED BY <1>8, <2>2 DEF RowAdded
<1>9. ASSUME NEW j \in Job, RowCopied(j, c, l) PROVE Kept
    <2>1. job[j].rows[l] \in Row
        BY <1>0, <1>9, RunAt, CopyType DEF RowCopied, Saving
    <2>2. r.text = job[j].base
        BY <1>9, <2>1 DEF RowCopied, Row
    <2> QED BY <1>1, <1>9, <2>2 DEF RowCopied, SourceInMemory
<1> QED BY <1>1, <1>2, <1>3, <1>4, <1>5, <1>6, <1>7, <1>8, <1>9 DEF RowWritten
-----------------------------------------------------------------------------
(***************************************************************************)
(* What a request may come to hold in a step, and what a run of the job.   *)
(***************************************************************************)
Begins(e) ==
    LET p == req'[e] IN
    /\ p.pc \in {"given", "sample"} /\ p.todo = DOMAIN p.given
    /\ p.item \in Content /\ item[p.item] = "absent" /\ item'[p.item] # "absent"
    /\ p.base \in source'[p.item]
    /\ ko \in DOMAIN p.given => p.given[ko] \in source'[p.item]
    /\ p.pc = "given" => sample' = sample
    /\ p.pc = "sample" => kind = "brochure" /\ \A l \in Lang :
          sample'[p.item][l] = IF l \in DOMAIN p.given THEN sample[p.item][l] \cup {p.given[l]}
                                                       ELSE sample[p.item][l]
Continues(e) ==
    LET p == req'[e]  q == req[e] IN
    /\ q.pc \in Making /\ p.item = q.item /\ p.base = q.base /\ p.given = q.given
    /\ \/ p.pc = q.pc /\ p.todo \subseteq q.todo /\ q.todo \subseteq PresentAfter(q.item) \cup p.todo
       \/ p.pc = "rest" /\ q.pc = "given" /\ p.todo = Lang \ DOMAIN q.given
          /\ q.todo \subseteq PresentAfter(q.item)
Ends(e) ==
    /\ req'[e].pc \notin Making \cup {"loaded", "edit", "found"}
    /\ req[e].pc \in Making =>
          \/ req[e].item \in interrupted'
          \/ req[e].pc # "sample" /\ PresentAfter(req[e].item) = Lang
          \/ req[e].pc = "sample" /\ Sampled(req[e].item) \subseteq PresentAfter(req[e].item)
Loads(e) ==
    LET p == req'[e] IN
    /\ p.pc = "loaded" /\ p.item \in Content /\ item[p.item] # "absent"
    /\ DOMAIN p.copy \subseteq Present(p.item)
    /\ \A l \in DOMAIN p.copy : p.copy[l] = tr[p.item][l]
StartsEdit(e) ==
    LET p == req'[e] IN
    /\ p.pc = "edit" /\ p.todo \subseteq DOMAIN p.given
    /\ p.item = req[e].item /\ req[e].pc \in {"loaded", "edit", "found"}
Finds(e) ==
    LET p == req'[e] IN
    /\ p.pc = "found" /\ p.item = req[e].item /\ req[e].pc = "edit" /\ p.of \in Content
    /\ p.lang \in p.todo /\ p.todo \subseteq DOMAIN p.given
    /\ p.row # Absent => p.row.status = "live" /\ p.in \in Present(p.of)
    /\ p.row = Absent => kind # "brochure"

RequestMoves(e) ==
    \/ req'[e] = req[e]
    \/ Begins(e) /\ req[e].pc \notin Making
    \/ Continues(e)
    \/ Ends(e)
    \/ (Loads(e) \/ StartsEdit(e) \/ Finds(e)) /\ req[e].pc \notin Making

RunMoves(j) ==
    LET p == job'[j]  q == job[j] IN
    \/ p = q
    \/ p.pc \notin {"find", "save"}
    \/ p.pc = "find" /\ p.item \in Content /\ ko \in Present(p.item)
         /\ p.base = tr[p.item][ko].text
    \/ p.pc = "save" /\ q.pc = "find" /\ p.item = q.item /\ p.base = q.base
         /\ \A l \in DOMAIN p.rows : l # ko /\ l \in Present(p.item) /\ p.rows[l].synced
    \/ p.pc = "save" /\ q.pc = "save" /\ p.item = q.item /\ p.base = q.base
         /\ \A l \in DOMAIN p.rows : l \in DOMAIN q.rows /\ p.rows[l] = q.rows[l]

(* A step of one request leaves the others alone. *)
LEMMA OnlyBecomes ==
    ASSUME ShapeOK, NEW e \in Editor, NEW r, Become(e, r), NEW d \in Editor
    PROVE  req'[d] = IF d = e THEN r ELSE req[d]
BY DEF ShapeOK, Become

(* A creation begins with the whole list of the texts it was given.        *)
LEMMA CreateMoves ==
    ASSUME TypeOK, NEW e \in Editor, NEW c \in Content, CreateItem(e, c) \/ CreateSample(e, c)
    PROVE  Begins(e) /\ req[e].pc = "idle" /\ \A d \in Editor \ {e} : req'[d] = req[d]
<1>0. ShapeOK /\ sample \in [Content -> [Lang -> SUBSET Text]]
    BY DEF TypeOK
<1>1. PICK f \in Given, t \in Text, w \in {"given", "sample"} : Created(e, c, f, t, w)
    BY <1>0, Creation
<1>2. Become(e, [pc |-> w, item |-> c, given |-> f, todo |-> DOMAIN f, base |-> t])
    BY <1>1 DEF Created
<1>3. req'[e] = [pc |-> w, item |-> c, given |-> f, todo |-> DOMAIN f, base |-> t]
    BY <1>0, <1>2, OnlyBecomes
<1>4. t \in source'[c] /\ (ko \in DOMAIN f => f[ko] = t)
    BY <1>0, <1>1 DEF Created, ShapeOK
<1>5. req[e].pc = "idle" /\ item[c] = "absent" /\ item'[c] # "absent"
    BY <1>0 DEF CreateItem, CreateSample, Idle, ShapeOK
<1>6. /\ w = "given" => sample' = sample
      /\ w = "sample" => kind = "brochure" /\ \A l \in Lang :
            sample'[c][l] = IF l \in DOMAIN f THEN sample[c][l] \cup {f[l]} ELSE sample[c][l]
    BY <1>0, <1>1 DEF Created
<1>7. Begins(e)
    BY <1>3, <1>4, <1>5, <1>6 DEF Begins
<1> QED BY <1>0, <1>2, <1>5, <1>7, OnlyBecomes

(* A creation goes on with fewer rows to insert, or ends with all of them. *)
LEMMA InsertMoves ==
    ASSUME ShapeOK, HeldLists, HeldRows, CreationCovers, NEW e \in Editor, InsertRows(e)
    PROVE  (Continues(e) \/ Ends(e)) /\ \A d \in Editor \ {e} : req'[d] = req[d]
<1> DEFINE q == req[e]
           With(B) == [tr EXCEPT ![q.item] = [k \in Lang |->
                                   IF k \in B THEN NewRow(q, k) ELSE @[k]]]
<1>1. q \in Creating /\ q.pc \in Making /\ q.item \in Content /\ q.todo \subseteq Lang
      /\ DOMAIN q.given \subseteq Lang
    BY RequestAt, GivenType DEF InsertRows, Creating, Subsets
<1>2. PICK B \in Subsets(q.todo) :
         \/ tr' = With(B) /\ Become(e, AfterRows(q, B))
         \/ Become(e, Idle) /\ interrupted' = interrupted \cup {q.item}
    BY DEF InsertRows
<1>3. \A d \in Editor \ {e} : req'[d] = req[d]
    BY <1>2, OnlyBecomes
<1>4. CASE Become(e, Idle) /\ interrupted' = interrupted \cup {q.item}
    <2>1. req'[e].pc = "idle" /\ q.item \in interrupted'
        BY <1>4, OnlyBecomes DEF Idle
    <2> QED BY <1>3, <2>1 DEF Ends
<1>5. CASE tr' = With(B) /\ Become(e, AfterRows(q, B))
    <2> DEFINE P == PresentAfter(q.item)
    <2>0. B \subseteq q.todo
        BY DEF Subsets
    <2>1. B \subseteq P
        <3>1. \A l \in B : tr'[q.item][l] = NewRow(q, l)
            BY <1>1, <1>5, <2>0 DEF ShapeOK
        <3>2. \A l \in B : NewRow(q, l) # Absent
            BY <1>1, NewRows
        <3> QED BY <1>1, <2>0, <3>1, <3>2 DEF PresentAfter
    <2>2. Present(q.item) \subseteq P
        BY <1>1, RowsStay DEF Next, RequestStep
    <2>3. req'[e] = AfterRows(q, B)
        BY <1>5, OnlyBecomes
    <2> HIDE DEF P
    <2>4. CASE q.todo # B
        <3>1. req'[e] = [q EXCEPT !.todo = @ \ B]
            BY <2>3, <2>4 DEF AfterRows
        <3>2. /\ req'[e].pc = q.pc /\ req'[e].item = q.item /\ req'[e].base = q.base
              /\ req'[e].given = q.given /\ req'[e].todo = q.todo \ B
            BY <1>1, <3>1 DEF Creating
        <3>3. q.todo \subseteq P \cup req'[e].todo
            BY <2>1, <3>2
        <3> QED BY <1>1, <1>3, <3>2, <3>3 DEF Continues, P
    <2>5. CASE q.todo = B /\ q.pc = "given" /\ DOMAIN q.given # Lang
        <3>1. req'[e] = [q EXCEPT !.pc = "rest", !.todo = Lang \ DOMAIN q.given]
            BY <2>3, <2>5 DEF AfterRows
        <3>2. /\ req'[e].pc = "rest" /\ req'[e].item = q.item /\ req'[e].base = q.base
              /\ req'[e].given = q.given /\ req'[e].todo = Lang \ DOMAIN q.given
            BY <1>1, <3>1 DEF Creating
        <3> QED BY <1>1, <1>3, <2>1, <2>5, <3>2 DEF Continues, P
    <2>7. CASE q.todo = B /\ q.pc = "sample"
        <3>1. req'[e] = Idle
            BY <1>1, <2>3, <2>7 DEF AfterRows
        <3>2. Sampled(q.item) \subseteq P
            BY <2>1, <2>2, <2>7 DEF CreationCovers
        <3>3. req'[e].pc = "idle"
            BY <3>1 DEF Idle
        <3> QED BY <1>3, <2>7, <3>2, <3>3 DEF Ends, P
    <2>6. CASE q.todo = B /\ q.pc # "sample" /\ (q.pc = "rest" \/ DOMAIN q.given = Lang)
        <3>1. req'[e] = Idle
            BY <1>1, <2>3, <2>6 DEF AfterRows
        <3>2. Lang \subseteq P
            <4>1. CASE q.pc = "rest"
                BY <2>1, <2>2, <2>6, <4>1 DEF CreationCovers
            <4>2. CASE q.pc = "given"
                BY <2>1, <2>2, <2>6, <4>2 DEF CreationCovers
            <4> QED BY <1>1, <2>6, <4>1, <4>2
        <3>3. P = Lang
            BY <3>2 DEF P, PresentAfter
        <3>4. req'[e].pc = "idle"
            BY <3>1 DEF Idle
        <3> QED BY <1>3, <2>6, <3>3, <3>4 DEF Ends, P
    <2> QED BY <1>1, <2>4, <2>5, <2>6, <2>7
<1> QED BY <1>2, <1>4, <1>5

(* A request on an item loads it, then saves or removes it.                *)
LEMMA ItemMoves ==
    ASSUME ShapeOK, NEW e \in Editor,
           \/ \E op \in Op, c \in Content : LoadItem(e, op, c)
           \/ SaveFails(e) \/ SaveItem(e) \/ SoftRemoveItem(e)
    PROVE  /\ Loads(e) \/ Ends(e) \/ StartsEdit(e)
           /\ req[e].pc \notin Making
           /\ \A d \in Editor \ {e} : req'[d] = req[d]
<1>1. ASSUME NEW op \in Op, NEW c \in Content, LoadItem(e, op, c)
      PROVE  Loads(e) /\ req[e].pc = "idle" /\ \A d \in Editor \ {e} : req'[d] = req[d]
    <2> DEFINE copy == IF Cascades(op) THEN Snapshot(c) ELSE [l \in {} |-> Absent]
               r == [pc |-> "loaded", op |-> op, item |-> c, copy |-> copy]
    <2>1. Become(e, r) /\ req[e].pc = "idle" /\ item[c] = "live"
        BY <1>1 DEF LoadItem, Idle
    <2>2. DOMAIN copy \subseteq LiveLangs(c) /\ \A l \in DOMAIN copy : copy[l] = tr[c][l]
        BY DEF Snapshot
    <2>3. LiveLangs(c) \subseteq Present(c)
        BY RowsArePresent DEF LiveLangs
    <2> HIDE DEF copy
    <2>4. req'[e] = r
        BY <2>1, OnlyBecomes
    <2> QED BY <2>1, <2>2, <2>3, <2>4, OnlyBecomes DEF Loads
<1>2. CASE SaveFails(e) \/ SoftRemoveItem(e)
    <2>1. Become(e, Idle) /\ req[e].pc = "loaded"
        BY <1>2 DEF SaveFails, SoftRemoveItem
    <2>2. req'[e].pc = "idle"
        BY <2>1, OnlyBecomes DEF Idle
    <2> QED BY <2>1, <2>2, OnlyBecomes DEF Ends
<1>3. CASE SaveItem(e)
    <2>1. req[e].pc = "loaded"
        BY <1>3 DEF SaveItem
    <2>2. PICK r : /\ Become(e, r)
                   /\ \/ r.pc = "idle"
                      \/ r.pc = "edit" /\ r.todo \subseteq DOMAIN r.given /\ r.item = req[e].item
        <3>1. CASE req[e].op = "edit"
            <4>1. PICK f \in Given : Become(e, [pc |-> "edit", item |-> req[e].item,
                                                given |-> f, todo |-> DOMAIN f])
                BY <1>3, <3>1 DEF SaveItem
            <4> QED BY <4>1
        <3>2. CASE req[e].op # "edit"
            BY <1>3, <3>2 DEF SaveItem, Idle
        <3> QED BY <3>1, <3>2
    <2>3. req'[e] = r
        BY <2>2, OnlyBecomes
    <2> QED BY <2>1, <2>2, <2>3, OnlyBecomes DEF Ends, StartsEdit
<1> QED BY <1>1, <1>2, <1>3

(* An edit finds a row, then goes on with the other languages.             *)
LEMMA EditMoves ==
    ASSUME ShapeOK, HeldLists, NEW e \in Editor,
           \/ \E l \in Lang : FindRow(e, l)
           \/ \E l \in Lang, d \in Content, k \in Lang : WriteNamed(e, l, d, k) \/ FindNamed(e, l, d, k)
           \/ WriteRow(e) \/ AddRow(e)
    PROVE  /\ Finds(e) \/ Ends(e) \/ StartsEdit(e)
           /\ req[e].pc \notin Making
           /\ \A d \in Editor \ {e} : req'[d] = req[d]
<1> DEFINE q == req[e]
<1>1. q.pc \in {"edit", "found"} /\ q \in Editing \cup Found /\ q.item \in Content
      /\ q.todo \subseteq DOMAIN q.given
    BY RequestAt DEF FindRow, WriteNamed, FindNamed, WriteRow, AddRow, Editing, Found, HeldLists
<1>2. ASSUME NEW l \in Lang, Become(e, AfterEdit(q, l)) PROVE Ends(e) \/ StartsEdit(e)
    <2>1. req'[e] = AfterEdit(q, l)
        BY <1>2, OnlyBecomes
    <2>2. CASE q.todo = {l}
        <3>1. req'[e].pc = "idle"
            BY <2>1, <2>2 DEF AfterEdit, Idle
        <3> QED BY <1>1, <3>1 DEF Ends
    <2>3. CASE q.todo # {l}
        <3>1. /\ req'[e].pc = "edit" /\ req'[e].todo \subseteq DOMAIN req'[e].given
              /\ req'[e].item = q.item
            BY <1>1, <2>1, <2>3 DEF AfterEdit
        <3> QED BY <1>1, <3>1 DEF StartsEdit
    <2> QED BY <2>2, <2>3
<1>3. ASSUME Become(e, Idle) PROVE Ends(e)
    <2>1. req'[e].pc = "idle"
        BY <1>3, OnlyBecomes DEF Idle
    <2> QED BY <1>1, <2>1 DEF Ends
<1>4. ASSUME NEW l \in q.todo, NEW c \in Content, NEW k \in Lang, NEW row, q.pc = "edit",
             Become(e, [pc |-> "found", item |-> q.item, given |-> q.given, todo |-> q.todo,
                        lang |-> l, of |-> c, in |-> k, row |-> row]),
             row # Absent => row.status = "live" /\ k \in Present(c),
             row = Absent => kind # "brochure"
      PROVE  Finds(e)
    <2>1. req'[e] = [pc |-> "found", item |-> q.item, given |-> q.given, todo |-> q.todo,
                     lang |-> l, of |-> c, in |-> k, row |-> row]
        BY <1>4, OnlyBecomes
    <2> QED BY <1>1, <1>4, <2>1 DEF Finds
<1>5. ASSUME NEW l \in Lang, FindRow(e, l) PROVE Finds(e) \/ Ends(e) \/ StartsEdit(e)
    <2> DEFINE live == l \in LiveLangs(q.item)
               row == IF live THEN tr[q.item][l] ELSE Absent
               found == [pc |-> "found", item |-> q.item, given |-> q.given, todo |-> q.todo,
                         lang |-> l, of |-> q.item, in |-> l, row |-> row]
    <2>1. /\ l \in q.todo /\ q.pc = "edit"
          /\ \/ Become(e, found) /\ (live \/ kind # "brochure")
             \/ Become(e, AfterEdit(q, l))
        BY <1>5 DEF FindRow, CreatesMissing
    <2>2. CASE Become(e, found) /\ (live \/ kind # "brochure")
        <3>1. live => tr[q.item][l].status = "live" /\ l \in Present(q.item) /\ tr[q.item][l] # Absent
            BY <1>1, RowsArePresent DEF Present
        <3>2. /\ row # Absent => row.status = "live" /\ l \in Present(q.item)
              /\ row = Absent => kind # "brochure"
            BY <2>2, <3>1
        <3> HIDE DEF row
        <3> QED BY <1>1, <1>4, <2>1, <2>2, <3>2
    <2>3. CASE Become(e, AfterEdit(q, l))
        BY <1>2, <2>3
    <2> QED BY <2>1, <2>2, <2>3
<1>6. ASSUME NEW l \in Lang, NEW d \in Content, NEW k \in Lang, FindNamed(e, l, d, k)
      PROVE  Finds(e) \/ Ends(e)
    <2>1. l \in q.todo /\ q.pc = "edit"
        BY <1>6 DEF FindNamed
    <2>2. CASE k \in LiveLangs(d)
        <3>1. tr[d][k].status = "live" /\ k \in Present(d) /\ tr[d][k] # Absent
            BY <2>2, RowsArePresent DEF Present
        <3>2. Become(e, [pc |-> "found", item |-> q.item, given |-> q.given, todo |-> q.todo,
                         lang |-> l, of |-> d, in |-> k, row |-> tr[d][k]])
            BY <1>6, <2>2 DEF FindNamed
        <3> QED BY <1>4, <2>1, <3>1, <3>2
    <2>3. CASE k \notin LiveLangs(d)
        BY <1>3, <1>6, <2>3 DEF FindNamed
    <2> QED BY <2>2, <2>3
<1>7. ASSUME NEW l \in Lang, NEW d \in Content, NEW k \in Lang, WriteNamed(e, l, d, k)
      PROVE  Ends(e) \/ StartsEdit(e)
    BY <1>2, <1>7 DEF WriteNamed
<1>8. ASSUME WriteRow(e) \/ AddRow(e) PROVE Ends(e) \/ StartsEdit(e)
    <2>1. q.lang \in Lang
        BY <1>8, RequestAt DEF WriteRow, AddRow, Found
    <2>2. Become(e, AfterEdit(q, q.lang)) \/ Become(e, Idle)
        BY <1>8 DEF WriteRow, AddRow
    <2> QED BY <1>2, <1>3, <2>1, <2>2
<1>9. \E r : Become(e, r)
    BY DEF FindRow, WriteNamed, FindNamed, WriteRow, AddRow
<1>10. \A d \in Editor \ {e} : req'[d] = req[d]
    BY <1>9, OnlyBecomes
<1> QED BY <1>1, <1>5, <1>6, <1>7, <1>8, <1>10

(* A request that stops records the item it was creating.                  *)
LEMMA StopMoves ==
    ASSUME ShapeOK, NEW e \in Editor
    PROVE  /\ RequestFails(e) => Ends(e) /\ \A d \in Editor \ {e} : req'[d] = req[d]
           /\ Crash => Ends(e)
<1>1. req[e].pc \in Making => req[e].item \in BeingCreated(e)
    BY RequestAt DEF BeingCreated, Creating
<1>2. ASSUME RequestFails(e) PROVE Ends(e) /\ \A d \in Editor \ {e} : req'[d] = req[d]
    <2>1. Become(e, Idle) /\ interrupted' = interrupted \cup BeingCreated(e)
        BY <1>2 DEF RequestFails
    <2>2. req'[e].pc = "idle"
        BY <2>1, OnlyBecomes DEF Idle
    <2> QED BY <1>1, <2>1, <2>2, OnlyBecomes DEF Ends
<1>3. ASSUME Crash PROVE Ends(e)
    <2>1. req'[e].pc = "idle" /\ BeingCreated(e) \subseteq interrupted'
        BY <1>3 DEF Crash, Idle
    <2> QED BY <1>1, <2>1 DEF Ends
<1> QED BY <1>2, <1>3

(* Whatever happens, this is all that may become of a request. *)
LEMMA EveryRequestMoves ==
    ASSUME TypeOK, HeldLists, HeldRows, CreationCovers, [Next]_vars, NEW e \in Editor
    PROVE  RequestMoves(e)
<1>0. ShapeOK
    BY DEF TypeOK
<1>1. ASSUME NEW d \in Editor, RequestStep(d) PROVE RequestMoves(e)
    <2>1. ASSUME NEW c \in Content, CreateItem(d, c) \/ CreateSample(d, c) PROVE RequestMoves(e)
        BY <2>1, CreateMoves DEF RequestMoves
    <2>2. CASE InsertRows(d)
        BY <1>0, <2>2, InsertMoves DEF RequestMoves
    <2>3. CASE (\E op \in Op, c \in Content : LoadItem(d, op, c))
               \/ SaveFails(d) \/ SaveItem(d) \/ SoftRemoveItem(d)
        BY <1>0, <2>3, ItemMoves DEF RequestMoves
    <2>4. CASE \/ \E l \in Lang : FindRow(d, l)
               \/ \E l \in Lang, c \in Content, k \in Lang :
                     WriteNamed(d, l, c, k) \/ FindNamed(d, l, c, k)
               \/ WriteRow(d) \/ AddRow(d)
        BY <1>0, <2>4, EditMoves DEF RequestMoves
    <2>5. CASE RequestFails(d)
        BY <1>0, <2>5, StopMoves DEF RequestMoves
    <2> QED BY <1>1, <2>1, <2>2, <2>3, <2>4, <2>5 DEF RequestStep
<1>2. ASSUME NEW j \in Job, JobStart(j) \/ JobProgress(j) \/ JobFails(j) PROVE UNCHANGED req
    BY <1>2 DEF JobStart, JobProgress, JobFails, JobReadKorean, JobFindSynced, JobSave, JobEnd
<1>3. CASE Crash
    BY <1>0, <1>3, StopMoves DEF RequestMoves
<1>4. CASE UNCHANGED vars
    BY <1>4 DEF vars, RequestMoves
<1> QED BY <1>1, <1>2, <1>3, <1>4 DEF Next, RequestMoves

(* And this is all that may become of a run of the job. *)
LEMMA EveryRunMoves ==
    ASSUME ShapeOK, [Next]_vars, NEW j \in Job
    PROVE  RunMoves(j)
<1>0. ASSUME NEW k \in Job, NEW s, Turn(k, s) PROVE job'[j] = IF j = k THEN s ELSE job[j]
    BY <1>0 DEF ShapeOK, Turn
<1>1. ASSUME NEW k \in Job, JobStart(k) \/ JobProgress(k) \/ JobFails(k) PROVE RunMoves(j)
    <2> DEFINE s == job[k]
               next(T) == [pc |-> "next", todo |-> T]
    <2>0. CASE j # k
        <3>1. PICK t : Turn(k, t)
            BY <1>1 DEF JobStart, JobProgress, JobFails, JobReadKorean, JobFindSynced, JobSave, JobEnd
        <3> QED BY <1>0, <2>0, <3>1 DEF RunMoves
    <2>1. ASSUME JobStart(k) \/ JobEnd(k) \/ JobFails(k), j = k PROVE RunMoves(j)
        <3>1. PICK t : Turn(k, t) /\ t.pc \in {"idle", "next"}
            BY <2>1 DEF JobStart, JobEnd, JobFails, Idle
        <3>2. job'[j] = t
            BY <1>0, <2>1, <3>1
        <3> QED BY <3>1, <3>2 DEF RunMoves
    <2>2. ASSUME NEW c \in Content, JobReadKorean(k, c), j = k PROVE RunMoves(j)
        <3> DEFINE rest == s.todo \ {c}
                   find == [pc |-> "find", todo |-> rest, item |-> c, base |-> tr[c][ko].text]
        <3>1. job'[j] = IF ko \in LiveLangs(c) THEN find ELSE next(rest)
            BY <1>0, <2>2 DEF JobReadKorean
        <3>2. ko \in LiveLangs(c) => ko \in Present(c)
            BY RowsArePresent, KoreanAssumption
        <3>3. CASE ko \in LiveLangs(c)
            BY <3>1, <3>2, <3>3 DEF RunMoves
        <3>4. CASE ko \notin LiveLangs(c)
            <4>1. job'[j].pc = "next"
                BY <3>1, <3>4
            <4> QED BY <4>1 DEF RunMoves
        <3> QED BY <3>3, <3>4
    <2>3. ASSUME JobFindSynced(k), j = k PROVE RunMoves(j)
        <3> DEFINE marked == {l \in LiveLangs(s.item) \ {ko} : tr[s.item][l].synced}
                   save == [pc |-> "save", todo |-> s.todo, item |-> s.item, base |-> s.base,
                            rows |-> [l \in marked |-> tr[s.item][l]]]
        <3>1. s.pc = "find" /\ s.item \in Content
            BY <2>3, RunAt DEF JobFindSynced, Reading
        <3>2. job'[j] = IF marked = {} THEN next(s.todo) ELSE save
            BY <1>0, <2>3 DEF JobFindSynced
        <3>3. \A l \in marked : l # ko /\ l \in Present(s.item) /\ tr[s.item][l].synced
            BY <3>1, RowsArePresent DEF LiveLangs
        <3> HIDE DEF marked
        <3>4. CASE marked = {}
            <4>1. job'[j].pc = "next"
                BY <3>2, <3>4
            <4> QED BY <4>1 DEF RunMoves
        <3>5. CASE marked # {}
            <4>1. job'[j] = save
                BY <3>2, <3>5
            <4>2. \A l \in DOMAIN job'[j].rows :
                     l # ko /\ l \in Present(s.item) /\ job'[j].rows[l].synced
                BY <3>3, <4>1
            <4> QED BY <2>3, <3>1, <4>1, <4>2 DEF RunMoves
        <3> QED BY <3>4, <3>5
    <2>4. ASSUME NEW l \in Lang, JobSave(k, l), j = k PROVE RunMoves(j)
        <3> DEFINE rest == DOMAIN s.rows \ {l}
                   rows == [m \in rest |-> s.rows[m]]
                   save == [s EXCEPT !.rows = rows]
        <3>1. s.pc = "save" /\ s \in Saving
            BY <2>4, RunAt DEF JobSave
        <3>2. job'[j] = IF rest = {} THEN next(s.todo) ELSE save
            BY <1>0, <2>4 DEF JobSave
        <3>3. CASE rest = {}
            <4>1. job'[j].pc = "next"
                BY <3>2, <3>3
            <4> QED BY <4>1 DEF RunMoves
        <3>4. CASE rest # {}
            <4>1. /\ job'[j].pc = "save" /\ job'[j].item = s.item /\ job'[j].base = s.base
                  /\ job'[j].rows = rows
                BY <3>1, <3>2, <3>4 DEF Saving
            <4>2. \A m \in DOMAIN rows : m \in DOMAIN s.rows /\ rows[m] = s.rows[m]
                OBVIOUS
            <4> HIDE DEF rows
            <4> QED BY <2>4, <3>1, <4>1, <4>2 DEF RunMoves
        <3> QED BY <3>3, <3>4
    <2> QED BY <1>1, <2>0, <2>1, <2>2, <2>3, <2>4 DEF JobProgress
<1>2. ASSUME NEW e \in Editor, RequestStep(e) PROVE UNCHANGED job
    <2>1. ASSUME NEW c \in Content, CreateItem(e, c) \/ CreateSample(e, c) PROVE UNCHANGED job
        BY <2>1 DEF CreateItem, CreateSample
    <2>2. ASSUME NEW op \in Op, NEW c \in Content, LoadItem(e, op, c) PROVE UNCHANGED job
        BY <2>2 DEF LoadItem
    <2>3. ASSUME NEW l \in Lang, FindRow(e, l) PROVE UNCHANGED job
        BY <2>3 DEF FindRow
    <2>5. ASSUME NEW l \in Lang, NEW d \in Content, NEW k \in Lang,
                 WriteNamed(e, l, d, k) \/ FindNamed(e, l, d, k)
          PROVE  UNCHANGED job
        BY <2>5 DEF WriteNamed, FindNamed
    <2>4. CASE InsertRows(e) \/ SaveItem(e) \/ SoftRemoveItem(e) \/ SaveFails(e)
               \/ WriteRow(e) \/ AddRow(e) \/ RequestFails(e)
        BY <2>4 DEF InsertRows, SaveItem, SoftRemoveItem, SaveFails, WriteRow, AddRow, RequestFails
    <2> QED BY <1>2, <2>1, <2>2, <2>3, <2>4, <2>5 DEF RequestStep
<1>3. CASE Crash
    <2>1. job'[j].pc = "idle"
        BY <1>3 DEF Crash, Idle
    <2> QED BY <2>1 DEF RunMoves
<1>4. CASE UNCHANGED vars
    BY <1>4 DEF vars, RunMoves
<1> QED BY <1>1, <1>2, <1>3, <1>4 DEF Next, RunMoves
-----------------------------------------------------------------------------
(* Every step keeps the lists of a request. *)
LEMMA ListsStep ==
    ASSUME TypeOK, HeldLists, HeldRows, CreationCovers, [Next]_vars
    PROVE  HeldLists'
<1> SUFFICES ASSUME NEW e \in Editor
             PROVE  /\ req'[e].pc \in {"given", "sample", "edit", "found"} =>
                         req'[e].todo \subseteq DOMAIN req'[e].given
                    /\ req'[e].pc = "found" => req'[e].lang \in req'[e].todo
    BY DEF HeldLists
<1>1. RequestMoves(e)
    BY EveryRequestMoves
<1>2. CASE Begins(e)
    BY <1>2 DEF Begins
<1>3. CASE Continues(e)
    BY <1>3 DEF Continues, HeldLists
<1>4. CASE Loads(e) \/ StartsEdit(e) \/ Finds(e) \/ Ends(e)
    BY <1>4 DEF Loads, StartsEdit, Finds, Ends
<1> QED BY <1>1, <1>2, <1>3, <1>4 DEF RequestMoves, HeldLists

(* Every step keeps what requests and runs hold in the table. *)
LEMMA RowsStep ==
    ASSUME TypeOK, HeldLists, HeldRows, CreationCovers, [Next]_vars
    PROVE  HeldRows'
<1>0. ShapeOK
    BY DEF TypeOK
<1>1. ASSUME NEW e \in Editor
      PROVE  /\ req'[e].pc = "loaded" =>
                  item'[req'[e].item] # "absent" /\ DOMAIN req'[e].copy \subseteq PresentAfter(req'[e].item)
             /\ req'[e].pc = "found" /\ req'[e].row # Absent =>
                  req'[e].row.status = "live" /\ req'[e].in \in PresentAfter(req'[e].of)
    <2>1. RequestMoves(e)
        BY EveryRequestMoves
    <2>2. CASE req'[e] = req[e]
        <3>1. /\ req[e].pc = "loaded" => req[e].item \in Content
              /\ req[e].pc = "found" => req[e].of \in Content
            BY <1>0, RequestAt DEF Loaded, Found
        <3> QED BY <1>0, <2>2, <3>1, RowsStay, ItemsStay DEF HeldRows
    <2>3. CASE Loads(e)
        BY <1>0, <2>3, RowsStay, ItemsStay DEF Loads
    <2>4. CASE Finds(e)
        BY <1>0, <2>4, RowsStay DEF Finds
    <2>5. CASE Begins(e) \/ Continues(e) \/ StartsEdit(e) \/ Ends(e)
        BY <2>5 DEF Begins, Continues, StartsEdit, Ends
    <2> QED BY <2>1, <2>2, <2>3, <2>4, <2>5 DEF RequestMoves
<1>2. ASSUME NEW j \in Job, job'[j].pc = "save", NEW l \in DOMAIN job'[j].rows
      PROVE  l # ko /\ l \in PresentAfter(job'[j].item) /\ job'[j].rows[l].synced
    <2>1. RunMoves(j)
        BY <1>0, EveryRunMoves
    <2>2. job[j].pc \in {"find", "save"} => job[j].item \in Content
        BY <1>0, RunAt DEF Reading, Saving
    <2>3. job'[j].item \in Content /\ l # ko /\ l \in Present(job'[j].item) /\ job'[j].rows[l].synced
        BY <1>2, <2>1, <2>2 DEF RunMoves, HeldRows
    <2> QED BY <1>0, <2>3, RowsStay
<1>3. \A c : Present(c)' = {l \in Lang : tr'[c][l] # Absent}
    BY DEF Present
<1> QED BY <1>1, <1>2, <1>3 DEF HeldRows, PresentAfter, Present

(* The kind of content never changes. *)
LEMMA KindStays ==
    ASSUME [Next]_vars
    PROVE  kind' = kind
<1>1. ASSUME NEW e \in Editor, RequestStep(e) PROVE UNCHANGED kind
    BY <1>1 DEF RequestStep, CreateItem, CreateSample, InsertRows, LoadItem, SaveFails, SaveItem,
                SoftRemoveItem, FindRow, WriteNamed, FindNamed, WriteRow, AddRow, RequestFails
<1>2. ASSUME NEW j \in Job, JobStart(j) \/ JobProgress(j) \/ JobFails(j) PROVE UNCHANGED kind
    BY <1>2 DEF JobStart, JobProgress, JobFails, JobReadKorean, JobFindSynced, JobSave, JobEnd
<1>3. CASE Crash \/ UNCHANGED vars
    BY <1>3 DEF Crash, vars
<1> QED BY <1>1, <1>2, <1>3 DEF Next

(* Every step keeps the texts in memory texts of the source. *)
LEMMA SourceInMemoryStep ==
    ASSUME TypeOK, HeldLists, HeldRows, SourceInTable, SourceInMemory, CreationCovers, [Next]_vars
    PROVE  SourceInMemory'
<1>0. ShapeOK /\ sample \in [Content -> [Lang -> SUBSET Text]]
    BY DEF TypeOK
<1> DEFINE Fits(c, l, r) == /\ l = ko => r.text \in source'[c]
                            /\ r.synced => r.text \in source'[c] \cup sample'[c][l]
<1>3. ASSUME NEW c \in Content, NEW l \in Lang, NEW r, Sourced(c, l, r) PROVE Fits(c, l, r)
    <2>1. source[c] \subseteq source'[c] /\ sample[c][l] \subseteq sample'[c][l]
        BY <1>0, SourceGrows, SampleGrows
    <2> QED BY <1>3, <2>1 DEF Sourced
<1> HIDE DEF Fits
<1>1. ASSUME NEW e \in Editor
      PROVE  /\ req'[e].pc = "loaded" => \A l \in DOMAIN req'[e].copy :
                   Fits(req'[e].item, l, req'[e].copy[l])
             /\ req'[e].pc \in Making =>
                   /\ req'[e].base \in source'[req'[e].item]
                   /\ ko \in DOMAIN req'[e].given => req'[e].given[ko] \in source'[req'[e].item]
                   /\ req'[e].pc = "sample" => \A l \in DOMAIN req'[e].given :
                         req'[e].given[l] \in sample'[req'[e].item][l]
    <2>0. /\ req[e].pc = "loaded" => req[e].item \in Content /\ DOMAIN req[e].copy \subseteq Lang
          /\ req[e].pc \in Making => req[e].item \in Content /\ DOMAIN req[e].given \subseteq Lang
        BY <1>0, RequestAt, CopyType, GivenType DEF Loaded, Creating, Subsets
    <2>1. RequestMoves(e)
        BY EveryRequestMoves
    <2>2. ASSUME req[e].pc \in Making
          PROVE  /\ req[e].base \in source'[req[e].item]
                 /\ ko \in DOMAIN req[e].given => req[e].given[ko] \in source'[req[e].item]
                 /\ req[e].pc = "sample" => \A l \in DOMAIN req[e].given :
                       req[e].given[l] \in sample'[req[e].item][l]
        <3>1. source[req[e].item] \subseteq source'[req[e].item]
            BY <1>0, <2>0, <2>2, SourceGrows
        <3>2. \A l \in Lang : sample[req[e].item][l] \subseteq sample'[req[e].item][l]
            BY <2>0, <2>2, SampleGrows
        <3> QED BY <2>0, <2>2, <3>1, <3>2 DEF SourceInMemory
    <2>3. CASE req'[e] = req[e]
        BY <1>3, <2>0, <2>2, <2>3 DEF SourceInMemory
    <2>4. CASE Begins(e)
        <3>1. req'[e].pc = "sample" => \A l \in DOMAIN req'[e].given :
                  req'[e].given[l] \in sample'[req'[e].item][l]
            <4>1. ShapeOK'
                BY <1>0, TypeStep
            <4>2. \A f \in Given : DOMAIN f \subseteq Lang
                BY GivenType DEF Subsets
            <4>3. req'[e] \in {Idle} \cup Request
                BY <4>1 DEF ShapeOK
            <4>4. req'[e].pc = "sample" => DOMAIN req'[e].given \subseteq Lang
                BY <4>2, <4>3 DEF Request, Creating, Loaded, Editing, Found, Idle
            <4> QED BY <2>4, <4>4 DEF Begins
        <3> QED BY <2>4, <3>1 DEF Begins
    <2>5. CASE Continues(e)
        BY <2>2, <2>5 DEF Continues
    <2>6. CASE Loads(e)
        <3>1. \A l \in DOMAIN req'[e].copy : Sourced(req'[e].item, l, req'[e].copy[l])
            BY <2>6 DEF Loads, SourceInTable
        <3>2. DOMAIN req'[e].copy \subseteq Lang
            BY <2>6 DEF Loads, Present
        <3> QED BY <1>3, <2>6, <3>1, <3>2 DEF Loads
    <2>7. CASE Finds(e) \/ StartsEdit(e) \/ Ends(e)
        BY <2>7 DEF Finds, StartsEdit, Ends
    <2> QED BY <2>1, <2>3, <2>4, <2>5, <2>6, <2>7 DEF RequestMoves
<1>2. ASSUME NEW j \in Job, job'[j].pc \in {"find", "save"}
      PROVE  job'[j].base \in source'[job'[j].item]
    <2>1. RunMoves(j)
        BY <1>0, EveryRunMoves
    <2>2. job[j].pc \in {"find", "save"} => job[j].item \in Content
        BY <1>0, RunAt DEF Reading, Saving
    <2>3. job'[j].item \in Content /\ job'[j].base \in source[job'[j].item]
        BY <1>2, <2>1, <2>2 DEF RunMoves, SourceInMemory, SourceInTable, Sourced
    <2> QED BY <1>0, <2>3, SourceGrows
<1> QED BY <1>1, <1>2 DEF SourceInMemory, Sourced, Fits

(* Every step keeps the account of the rows a creation still owes. *)
LEMMA CoversStep ==
    ASSUME TypeOK, HeldLists, HeldRows, CreationCovers, Samples, [Next]_vars
    PROVE  CreationCovers'
<1>0. ShapeOK
    BY DEF TypeOK
<1> DEFINE SampledAfter(c) == {l \in Lang : sample'[c][l] # {}}
<1>1. ASSUME NEW e \in Editor
      PROVE  /\ req'[e].pc = "given" =>
                   DOMAIN req'[e].given \subseteq PresentAfter(req'[e].item) \cup req'[e].todo
             /\ req'[e].pc = "rest" => Lang = PresentAfter(req'[e].item) \cup req'[e].todo
             /\ req'[e].pc = "sample" =>
                   SampledAfter(req'[e].item) \subseteq PresentAfter(req'[e].item) \cup req'[e].todo
    <2>1. RequestMoves(e)
        BY EveryRequestMoves
    <2>2. req[e].pc \in Making =>
             /\ req[e].item \in Content /\ Present(req[e].item) \subseteq PresentAfter(req[e].item)
             /\ req[e].todo \subseteq Lang
             /\ SampledAfter(req[e].item) = Sampled(req[e].item)
        <3>1. req[e].pc \in Making => req[e].item \in Content /\ req[e].todo \subseteq Lang
            BY <1>0, RequestAt DEF Creating, Subsets
        <3>2. req[e].pc \in Making => sample'[req[e].item] = sample[req[e].item]
            BY <3>1, SampleGrows DEF Samples
        <3> QED BY <1>0, <3>1, <3>2, RowsStay DEF Sampled
    <2>3. \A c : PresentAfter(c) \subseteq Lang
        BY DEF PresentAfter
    <2>4. CASE req'[e] = req[e]
        BY <2>2, <2>3, <2>4 DEF CreationCovers
    <2>5. CASE Begins(e)
        <3>1. req'[e].pc = "sample" => SampledAfter(req'[e].item) \subseteq req'[e].todo
            <4>1. \A l \in Lang : sample[req'[e].item][l] = {}
                BY <2>5 DEF Begins, Samples, Sampled
            <4> QED BY <2>5, <4>1 DEF Begins
        <3> QED BY <2>5, <3>1 DEF Begins
    <2>6. CASE Continues(e)
        <3>1. CASE req'[e].pc = req[e].pc
            BY <2>2, <2>3, <2>6, <3>1 DEF Continues, CreationCovers
        <3>2. CASE req'[e].pc # req[e].pc
            BY <2>2, <2>3, <2>6, <3>2 DEF Continues, CreationCovers
        <3> QED BY <3>1, <3>2
    <2>7. CASE Loads(e) \/ Finds(e) \/ StartsEdit(e) \/ Ends(e)
        BY <2>7 DEF Loads, Finds, StartsEdit, Ends
    <2> QED BY <2>1, <2>4, <2>5, <2>6, <2>7 DEF RequestMoves
<1>3. \A e \in Editor : /\ Present(req[e].item)' = PresentAfter(req'[e].item)
                         /\ Sampled(req[e].item)' = SampledAfter(req'[e].item)
    BY DEF Present, PresentAfter, Sampled
<1> QED BY <1>1, <1>3 DEF CreationCovers

(* An item that appears is being created, one way or the other. *)
LEMMA ItemsAppear ==
    ASSUME TypeOK, HeldLists, HeldRows, [Next]_vars,
           NEW c \in Content, item[c] = "absent", item'[c] # "absent"
    PROVE  \E e \in Editor : req'[e].pc \in {"given", "sample"} /\ req'[e].item = c
<1>0. ShapeOK
    BY DEF TypeOK
<1>1. ASSUME NEW e \in Editor, RequestStep(e)
      PROVE  \E d \in Editor : req'[d].pc \in {"given", "sample"} /\ req'[d].item = c
    <2>1. ASSUME NEW d \in Content, CreateItem(e, d) \/ CreateSample(e, d)
          PROVE  req'[e].pc \in {"given", "sample"} /\ req'[e].item = c
        <3>1. d = c
            BY <1>0, <2>1 DEF CreateItem, CreateSample, ShapeOK
        <3>2. PICK f \in Given, t \in Text, w \in {"given", "sample"} : Created(e, d, f, t, w)
            BY <1>0, <2>1, Creation
        <3>3. req'[e] = [pc |-> w, item |-> d, given |-> f, todo |-> DOMAIN f, base |-> t]
            BY <1>0, <3>2, OnlyBecomes DEF Created
        <3> QED BY <3>1, <3>3
    <2>2. CASE SaveItem(e) \/ SoftRemoveItem(e)
        <3>1. req[e].item # c
            BY <2>2 DEF SaveItem, SoftRemoveItem, HeldRows
        <3>2. item'[c] = item[c]
            BY <1>0, <2>2, <3>1 DEF SaveItem, SoftRemoveItem, ShapeOK
        <3> QED BY <3>2
    <2>3. ASSUME NEW op \in Op, NEW d \in Content, LoadItem(e, op, d) PROVE UNCHANGED item
        BY <2>3 DEF LoadItem
    <2>4. ASSUME NEW k \in Lang, FindRow(e, k) PROVE UNCHANGED item
        BY <2>4 DEF FindRow
    <2>5. CASE InsertRows(e) \/ WriteRow(e) \/ AddRow(e) \/ SaveFails(e) \/ RequestFails(e)
        BY <2>5 DEF InsertRows, WriteRow, AddRow, SaveFails, RequestFails
    <2>6. ASSUME NEW l \in Lang, NEW d \in Content, NEW k \in Lang,
                 WriteNamed(e, l, d, k) \/ FindNamed(e, l, d, k)
          PROVE  UNCHANGED item
        BY <2>6 DEF WriteNamed, FindNamed
    <2> QED BY <1>1, <2>1, <2>2, <2>3, <2>4, <2>5, <2>6 DEF RequestStep
<1>2. ASSUME NEW j \in Job, JobStart(j) \/ JobProgress(j) \/ JobFails(j) PROVE UNCHANGED item
    BY <1>2 DEF JobStart, JobProgress, JobFails, JobReadKorean, JobFindSynced, JobSave, JobEnd
<1>3. CASE Crash \/ UNCHANGED vars
    BY <1>3 DEF Crash, vars
<1> QED BY <1>1, <1>2, <1>3 DEF Next

(* A row appears for an item that exists, and for a sample only in the     *)
(* languages the sample has texts in.                                      *)
LEMMA RowsAppear ==
    ASSUME TypeOK, HeldLists, HeldRows, SourceInMemory, Samples, [Next]_vars,
           NEW c \in Content, NEW l \in Lang, tr[c][l] = Absent, tr'[c][l] # Absent
    PROVE  item[c] # "absent" /\ (Sampled(c) # {} => l \in Sampled(c))
<1>0. ShapeOK /\ RowWritten(c, l) /\ l \notin Present(c)
    BY EveryWrite DEF TypeOK, Present
<1>1. ASSUME NEW e \in Editor, RowInserted(e, c, l)
      PROVE  item[c] # "absent" /\ (Sampled(c) # {} => l \in Sampled(c))
    <2>1. req[e].pc \in Making /\ req[e].item = c /\ l \in req[e].todo
        BY <1>1 DEF RowInserted
    <2>2. item[c] # "absent" /\ (Sampled(c) # {} => req[e].pc = "sample")
        BY <2>1 DEF Samples
    <2>3. req[e].pc = "sample" => req[e].given[l] \in sample[c][l]
        BY <2>1 DEF HeldLists, SourceInMemory
    <2>4. req[e].pc = "sample" => l \in Sampled(c)
        BY <2>3 DEF Sampled
    <2> QED BY <2>2, <2>4
<1>2. ASSUME NEW e \in Editor, RowAdded(e, c, l)
      PROVE  item[c] # "absent" /\ Sampled(c) = {}
    BY <1>2 DEF RowAdded, Samples
<1>3. ASSUME NEW e \in Editor,
             RowSaved(e, c, l) \/ RowRemoved(e, c, l) \/ RowEdited(e, c, l) \/ RowNamed(e, c, l)
      PROVE  FALSE
    BY <1>0, <1>3 DEF RowSaved, RowRemoved, RowEdited, RowNamed, HeldRows
<1>4. ASSUME NEW j \in Job, RowCopied(j, c, l) PROVE FALSE
    BY <1>0, <1>4 DEF RowCopied, HeldRows
<1> QED BY <1>0, <1>1, <1>2, <1>3, <1>4 DEF RowWritten

(* Every step keeps samples brochures, with no other languages. *)
LEMMA SamplesStep ==
    ASSUME TypeOK, HeldLists, HeldRows, SourceInMemory, CreationCovers, Samples, [Next]_vars
    PROVE  Samples'
<1>0. ShapeOK
    BY DEF TypeOK
<1> DEFINE SampledAfter(c) == {l \in Lang : sample'[c][l] # {}}
<1>1. \A c \in Content : item[c] # "absent" \/ item'[c] = "absent" => SampledAfter(c) = Sampled(c)
    BY SampleGrows DEF Sampled
<1>2. ASSUME NEW c \in Content, item[c] = "absent" PROVE PresentAfter(c) = {}
    BY <1>2, RowsAppear DEF Samples, Present, PresentAfter
<1>3. \A c \in Content : item'[c] = "absent" => PresentAfter(c) = {} /\ SampledAfter(c) = {}
    BY <1>0, <1>1, <1>2, ItemsStay DEF Samples
<1>4. kind' = kind
    BY KindStays
<1>5. ASSUME NEW c \in Content, SampledAfter(c) # {}
      PROVE  kind = "brochure" /\ PresentAfter(c) \subseteq SampledAfter(c)
    <2>1. CASE item[c] # "absent"
        <3>1. Sampled(c) # {} /\ SampledAfter(c) = Sampled(c)
            BY <1>1, <1>5, <2>1
        <3>2. kind = "brochure" /\ Present(c) \subseteq Sampled(c)
            BY <3>1 DEF Samples
        <3>3. \A l \in PresentAfter(c) : l \in Present(c) \/ l \in Sampled(c)
            BY <3>1, RowsAppear DEF Present, PresentAfter
        <3> QED BY <3>1, <3>2, <3>3
    <2>2. CASE item[c] = "absent"
        <3>1. Sampled(c) = {} /\ PresentAfter(c) = {}
            BY <1>2, <2>2 DEF Samples
        <3>2. sample' # sample
            BY <1>5, <3>1 DEF Sampled
        <3>3. kind = "brochure"
            BY <1>0, <3>2, SampleMoves DEF Sampling
        <3> QED BY <3>1, <3>3
    <2> QED BY <2>1, <2>2
<1>6. ASSUME NEW e \in Editor
      PROVE  /\ req'[e].pc \in Making \cup {"loaded", "edit", "found"} => item'[req'[e].item] # "absent"
             /\ req'[e].pc \in {"given", "rest"} => SampledAfter(req'[e].item) = {}
             /\ req'[e].pc = "found" /\ req'[e].row = Absent => kind # "brochure"
    <2>1. RequestMoves(e)
        BY EveryRequestMoves
    <2>2. req[e].pc \in Making \cup {"loaded", "edit", "found"} =>
             /\ req[e].item \in Content /\ item[req[e].item] # "absent"
             /\ item'[req[e].item] # "absent"
             /\ SampledAfter(req[e].item) = Sampled(req[e].item)
        <3>1. req[e].pc \in Making \cup {"loaded", "edit", "found"} =>
                 req[e].item \in Content /\ item[req[e].item] # "absent"
            BY <1>0, RequestAt DEF Creating, Loaded, Editing, Found, Samples
        <3> QED BY <1>0, <1>1, <3>1, ItemsStay
    <2>3. CASE req'[e] = req[e]
        BY <2>2, <2>3 DEF Samples
    <2>4. CASE Begins(e)
        <3>1. req'[e].pc = "given" => SampledAfter(req'[e].item) = Sampled(req'[e].item)
            BY <2>4 DEF Begins, Sampled
        <3>2. Sampled(req'[e].item) = {}
            BY <2>4 DEF Begins, Samples
        <3> QED BY <2>4, <3>1, <3>2 DEF Begins
    <2>5. CASE Continues(e)
        BY <2>2, <2>5 DEF Continues, Samples
    <2>6. CASE Loads(e)
        BY <1>0, <2>6, ItemsStay DEF Loads
    <2>7. CASE StartsEdit(e) \/ Finds(e)
        BY <2>2, <2>7 DEF StartsEdit, Finds
    <2>8. CASE Ends(e)
        BY <2>8 DEF Ends
    <2> QED BY <2>1, <2>3, <2>4, <2>5, <2>6, <2>7, <2>8 DEF RequestMoves
<1> HIDE DEF SampledAfter
<1>7. /\ \A c : Present(c)' = PresentAfter(c) /\ Sampled(c)' = SampledAfter(c)
      /\ \A e \in Editor : Sampled(req[e].item)' = SampledAfter(req'[e].item)
    BY DEF Present, PresentAfter, Sampled, SampledAfter
<1> QED BY <1>3, <1>4, <1>5, <1>6, <1>7 DEF Samples

(* Once interrupted, an item stays in the record of interruptions. *)
LEMMA InterruptedGrows ==
    ASSUME ShapeOK, [Next]_vars
    PROVE  interrupted \subseteq interrupted'
<1>1. ASSUME NEW e \in Editor, RequestStep(e) PROVE interrupted \subseteq interrupted'
    <2>1. ASSUME NEW d \in Content, CreateItem(e, d) \/ CreateSample(e, d) PROVE UNCHANGED interrupted
        BY <2>1 DEF CreateItem, CreateSample
    <2>2. ASSUME NEW op \in Op, NEW d \in Content, LoadItem(e, op, d) PROVE UNCHANGED interrupted
        BY <2>2 DEF LoadItem
    <2>3. ASSUME NEW k \in Lang, FindRow(e, k) PROVE UNCHANGED interrupted
        BY <2>3 DEF FindRow
    <2>4. CASE InsertRows(e) \/ RequestFails(e)
        BY <2>4 DEF InsertRows, RequestFails
    <2>5. CASE SaveItem(e) \/ SoftRemoveItem(e) \/ SaveFails(e) \/ WriteRow(e) \/ AddRow(e)
        BY <2>5 DEF SaveItem, SoftRemoveItem, SaveFails, WriteRow, AddRow
    <2>6. ASSUME NEW l \in Lang, NEW d \in Content, NEW k \in Lang,
                 WriteNamed(e, l, d, k) \/ FindNamed(e, l, d, k)
          PROVE  UNCHANGED interrupted
        BY <2>6 DEF WriteNamed, FindNamed
    <2> QED BY <1>1, <2>1, <2>2, <2>3, <2>4, <2>5, <2>6 DEF RequestStep
<1>2. ASSUME NEW j \in Job, JobStart(j) \/ JobProgress(j) \/ JobFails(j) PROVE UNCHANGED interrupted
    BY <1>2 DEF JobStart, JobProgress, JobFails, JobReadKorean, JobFindSynced, JobSave, JobEnd
<1>3. CASE Crash \/ UNCHANGED vars
    BY <1>3 DEF Crash, vars
<1> QED BY <1>1, <1>2, <1>3 DEF Next

(* Every step keeps items complete, but for the ones that are interrupted. *)
LEMMA CompleteStep ==
    ASSUME TypeOK, HeldLists, HeldRows, SourceInMemory, CreationCovers, Samples, Samples',
           CompleteUnlessInterrupted, [Next]_vars
    PROVE  CompleteUnlessInterrupted'
<1> DEFINE SampledAfter(c) == {l \in Lang : sample'[c][l] # {}}
<1> SUFFICES ASSUME NEW c \in Content, item'[c] # "absent", c \notin interrupted',
                    \A e \in Editor : ~ (req'[e].pc \in Making /\ req'[e].item = c)
             PROVE  IF SampledAfter(c) = {} THEN PresentAfter(c) = Lang
                                            ELSE SampledAfter(c) = PresentAfter(c)
    BY DEF CompleteUnlessInterrupted, BeingCreated, Present, PresentAfter, Sampled
<1>0. ShapeOK
    BY DEF TypeOK
<1>1. item[c] # "absent"
    BY ItemsAppear
<1>2. Present(c) \subseteq PresentAfter(c) /\ PresentAfter(c) \subseteq Lang
    BY <1>0, RowsStay DEF PresentAfter
<1>5. SampledAfter(c) = Sampled(c)
    BY <1>1, SampleGrows DEF Sampled
<1>6. SampledAfter(c) # {} => PresentAfter(c) \subseteq SampledAfter(c)
    BY DEF Samples, Sampled, Present, PresentAfter
<1> HIDE DEF SampledAfter
<1>3. CASE \E e \in Editor : req[e].pc \in Making /\ req[e].item = c
    <2>1. PICK e \in Editor : req[e].pc \in Making /\ req[e].item = c
        BY <1>3
    <2>2. RequestMoves(e) /\ req'[e] # req[e] /\ ~ Continues(e)
        BY <2>1, EveryRequestMoves DEF Continues
    <2>3. Ends(e)
        BY <2>1, <2>2 DEF RequestMoves
    <2>4. CASE req[e].pc # "sample"
        <3>1. Sampled(c) = {} /\ PresentAfter(c) = Lang
            BY <2>1, <2>3, <2>4 DEF Ends, Samples
        <3> QED BY <1>5, <3>1
    <2>5. CASE req[e].pc = "sample"
        <3>1. Sampled(c) \subseteq PresentAfter(c)
            BY <2>1, <2>3, <2>5 DEF Ends
        <3>2. PICK l \in DOMAIN req[e].given : l \in Lang
            <4>1. req[e].given \in Given
                BY <1>0, <2>1, RequestAt DEF Creating
            <4> QED BY <4>1, GivenType DEF Subsets
        <3>3. req[e].given[l] \in sample[c][l]
            BY <2>1, <2>5, <3>2 DEF SourceInMemory
        <3>4. Sampled(c) # {}
            BY <3>2, <3>3 DEF Sampled
        <3> QED BY <1>5, <1>6, <3>1, <3>4
    <2> QED BY <2>4, <2>5
<1>4. CASE ~ \E e \in Editor : req[e].pc \in Making /\ req[e].item = c
    <2>1. c \notin interrupted
        BY <1>0, InterruptedGrows
    <2>2. IF Sampled(c) = {} THEN Present(c) = Lang ELSE Sampled(c) = Present(c)
        BY <1>1, <1>4, <2>1 DEF CompleteUnlessInterrupted, BeingCreated
    <2> QED BY <1>2, <1>5, <1>6, <2>2
<1> QED BY <1>3, <1>4
-----------------------------------------------------------------------------
(* The invariant holds before the first request.                           *)
LEMMA Init_IInv == Init => IInv
<1> SUFFICES ASSUME Init PROVE IInv
    OBVIOUS
<1>1. TypeOK
    BY ChangesAssumption DEF Init, ShapeOK, TypeOK
<1>2. \A e \in Editor : req[e].pc = "idle"
    BY DEF Init, Idle
<1>3. \A j \in Job : job[j].pc = "idle"
    BY DEF Init, Idle
<1>4. HeldLists /\ HeldRows /\ SourceInMemory /\ CreationCovers
    BY <1>2, <1>3 DEF HeldLists, HeldRows, SourceInMemory, CreationCovers
<1>5. SourceInTable
    BY DEF Init, SourceInTable, Present
<1>6. Samples
    BY <1>2 DEF Init, Samples, Sampled, Present
<1>7. CompleteUnlessInterrupted
    BY DEF Init, CompleteUnlessInterrupted
<1> QED BY <1>1, <1>4, <1>5, <1>6, <1>7 DEF IInv

(* IInv is inductive. *)
LEMMA IInvStep == IInv /\ [Next]_vars => IInv'
<1> SUFFICES ASSUME IInv, [Next]_vars PROVE IInv'
    OBVIOUS
<1>0. ShapeOK
    BY DEF IInv, TypeOK
<1>1. ShapeOK' /\ sample' \in [Content -> [Lang -> SUBSET Text]]
    BY <1>0, TypeStep, SampleGrows DEF IInv
<1>2. TypeOK'
    BY <1>1 DEF TypeOK
<1>3. HeldLists' /\ HeldRows' /\ SourceInTable' /\ SourceInMemory' /\ CreationCovers' /\ Samples'
    BY ListsStep, RowsStep, SourceInTableStep, SourceInMemoryStep, CoversStep, SamplesStep DEF IInv
<1>4. CompleteUnlessInterrupted'
    BY <1>3, CompleteStep DEF IInv
<1> QED BY <1>2, <1>3, <1>4 DEF IInv

(* The invariant holds in every behaviour.                                 *)
LEMMA IInvAlways == Spec => []IInv
<1> QED BY Init_IInv, IInvStep, PTL DEF Spec

(* The tables, the requests and the runs of the job keep their shapes, for *)
(* any number of items, languages, requests and runs.                      *)
THEOREM TranslationTypes == Spec => []TypeOK
<1>1. IInv => TypeOK
    BY DEF IInv
<1> QED BY <1>1, IInvAlways, PTL

(* No race between jobs, edits and saves of the item puts a text into a    *)
(* marked translation that was never the item's source; the rows of a      *)
(* sample brochure, marked by the endpoint that makes them, have besides   *)
(* the sample's text in their own language, and no other.                  *)
THEOREM TranslationsFromSource == Spec => []SyncedTextFromSource
<1>1. IInv => SyncedTextFromSource
    BY DEF IInv, SourceInTable, Sourced, SyncedTextFromSource
<1> QED BY <1>1, IInvAlways, PTL

(* A creation that runs to its end leaves the item with all its languages, *)
(* whatever other requests do to the item meanwhile; a sample brochure is  *)
(* left with the languages of the sample, and no request adds another.     *)
THEOREM TranslationsComplete == Spec => []CompleteUnlessInterrupted
<1>1. IInv => CompleteUnlessInterrupted
    BY DEF IInv
<1> QED BY <1>1, IInvAlways, PTL

(* FreshWritesKeepWork as the formula about one step. *)
FreshWrite ==
    ~ StaleWrite =>
      \A c \in Content :
        /\ item[c] = "deleted" => item'[c] = "deleted"
        /\ \A l \in Present(c) :
             /\ ~ tr[c][l].synced =>
                  /\ ~ tr'[c][l].synced
                  /\ tr'[c][l].text # tr[c][l].text => \E e \in Editor : Edits(e)
             /\ tr[c][l].status = "deleted" => tr'[c][l].status = "deleted"

(* A step that writes from current copies brings no deleted item back. *)
LEMMA FreshItems ==
    ASSUME IInv, [Next]_vars, ~ StaleWrite, NEW c \in Content, item[c] = "deleted"
    PROVE  item'[c] = "deleted"
<1>0. ShapeOK
    BY DEF IInv, TypeOK
<1>1. ASSUME NEW e \in Editor, RequestStep(e) PROVE item'[c] = "deleted"
    <2>1. ASSUME NEW d \in Content, CreateItem(e, d) \/ CreateSample(e, d) PROVE item'[c] = "deleted"
        BY <1>0, <2>1 DEF CreateItem, CreateSample, ShapeOK
    <2>2. CASE SaveItem(e)
        <3>1. req[e].pc = "loaded" /\ req'[e].pc \in {"edit", "idle"}
            BY <1>0, <2>2 DEF SaveItem, Become, ShapeOK, Idle
        <3>2. ~ StaleRequest(e)
            BY <3>1 DEF StaleWrite
        <3>3. item[req[e].item] = "live"
            BY <3>1, <3>2 DEF StaleRequest
        <3> QED BY <1>0, <2>2, <3>3 DEF SaveItem, ShapeOK
    <2>3. CASE SoftRemoveItem(e)
        BY <1>0, <2>3 DEF SoftRemoveItem, ShapeOK
    <2>4. ASSUME NEW op \in Op, NEW d \in Content, LoadItem(e, op, d) PROVE UNCHANGED item
        BY <2>4 DEF LoadItem
    <2>5. ASSUME NEW k \in Lang, FindRow(e, k) PROVE UNCHANGED item
        BY <2>5 DEF FindRow
    <2>6. CASE InsertRows(e) \/ WriteRow(e) \/ AddRow(e) \/ SaveFails(e) \/ RequestFails(e)
        BY <2>6 DEF InsertRows, WriteRow, AddRow, SaveFails, RequestFails
    <2>7. ASSUME NEW l \in Lang, NEW d \in Content, NEW k \in Lang,
                 WriteNamed(e, l, d, k) \/ FindNamed(e, l, d, k)
          PROVE  UNCHANGED item
        BY <2>7 DEF WriteNamed, FindNamed
    <2> QED BY <1>1, <2>1, <2>2, <2>3, <2>4, <2>5, <2>6, <2>7 DEF RequestStep
<1>2. ASSUME NEW j \in Job, JobStart(j) \/ JobProgress(j) \/ JobFails(j) PROVE UNCHANGED item
    BY <1>2 DEF JobStart, JobProgress, JobFails, JobReadKorean, JobFindSynced, JobSave, JobEnd
<1>3. CASE Crash \/ UNCHANGED vars
    BY <1>3 DEF Crash, vars
<1> QED BY <1>1, <1>2, <1>3 DEF Next

(* A writer with a current copy keeps an administrator's translation. *)
LEMMA FreshRows ==
    ASSUME IInv, [Next]_vars, ~ StaleWrite, NEW c \in Content, NEW l \in Present(c)
    PROVE  /\ ~ tr[c][l].synced =>
                /\ ~ tr'[c][l].synced
                /\ tr'[c][l].text # tr[c][l].text => \E e \in Editor : Edits(e)
           /\ tr[c][l].status = "deleted" => tr'[c][l].status = "deleted"
<1>0. ShapeOK /\ HeldLists /\ HeldRows /\ l \in Lang /\ tr[c][l] # Absent
    BY DEF IInv, TypeOK, Present
<1>1. RowWritten(c, l) /\ tr[c][l] \in Row
    BY <1>0, EveryWrite, RowsArePresent
<1>2. ASSUME NEW e \in Editor, RowInserted(e, c, l) \/ RowAdded(e, c, l) PROVE FALSE
    BY <1>0, <1>2 DEF RowInserted, RowAdded
<1>3. ASSUME NEW e \in Editor, RowSaved(e, c, l) PROVE tr'[c][l] = tr[c][l]
    <2>1. ~ StaleRequest(e)
        BY <1>3 DEF RowSaved, StaleWrite
    <2> QED BY <1>3, <2>1 DEF RowSaved, StaleRequest
<1>4. ASSUME NEW e \in Editor, RowRemoved(e, c, l)
      PROVE  tr'[c][l] = [tr[c][l] EXCEPT !.status = "deleted"]
    BY <1>4 DEF RowRemoved
<1>5. ASSUME NEW e \in Editor, RowEdited(e, c, l)
      PROVE  Edits(e) /\ tr'[c][l].synced = FALSE /\ tr[c][l].status = "live"
    <2>1. Edits(e) /\ ~ StaleRequest(e)
        BY <1>5 DEF RowEdited, StaleWrite, Edits
    <2>2. tr[c][l] = req[e].row /\ req[e].row.status = "live"
        BY <1>0, <1>5, <2>1 DEF RowEdited, StaleRequest, HeldRows
    <2>3. PICK s : tr'[c][l] = [Written(req[e].given[req[e].lang], FALSE) EXCEPT !.status = s]
        BY <1>5 DEF RowEdited
    <2>4. tr'[c][l] = [status |-> s, text |-> req[e].given[req[e].lang], synced |-> FALSE]
        BY <2>3 DEF Written
    <2> QED BY <2>1, <2>2, <2>4
<1>8. ASSUME NEW e \in Editor, RowNamed(e, c, l)
      PROVE  Edits(e) /\ tr'[c][l].synced = FALSE /\ tr'[c][l].status = tr[c][l].status
    <2>1. PICK k : tr'[c][l] = [tr[c][l] EXCEPT !.text = req[e].given[k], !.synced = FALSE]
        BY <1>8 DEF RowNamed
    <2>2. tr'[c][l].synced = FALSE /\ tr'[c][l].status = tr[c][l].status
        BY <1>1, <2>1 DEF Row
    <2> QED BY <1>8, <2>2 DEF RowNamed, Edits
<1>6. ASSUME NEW j \in Job, RowCopied(j, c, l)
      PROVE  tr[c][l].synced /\ tr'[c][l].status = tr[c][l].status
    <2>1. ~ StaleJob(j)
        BY <1>6 DEF RowCopied, StaleWrite
    <2>2. tr[c][l] = job[j].rows[l]
        BY <1>6, <2>1 DEF RowCopied, StaleJob
    <2>3. job[j].rows[l].synced
        BY <1>0, <1>6 DEF RowCopied, HeldRows
    <2>4. tr'[c][l].status = tr[c][l].status
        BY <1>1, <1>6, <2>2 DEF RowCopied, Row
    <2> QED BY <2>2, <2>3, <2>4
<1>7. CASE \E e \in Editor : RowRemoved(e, c, l)
    BY <1>1, <1>4, <1>7 DEF Row
<1> QED BY <1>1, <1>2, <1>3, <1>5, <1>6, <1>7, <1>8 DEF RowWritten

(* Administrators lose work to stale copies only: for any number of        *)
(* requests and runs, a writer whose copy is current undoes nothing.       *)
THEOREM TranslationsKeepWork == Spec => FreshWritesKeepWork
<1>1. IInv /\ [Next]_vars => FreshWrite
    BY FreshItems, FreshRows DEF FreshWrite
<1>2. IInv /\ [Next]_vars => [FreshWrite]_vars
    BY <1>1
<1> QED BY <1>2, IInvAlways, PTL DEF Spec, FreshWritesKeepWork, FreshWrite
-----------------------------------------------------------------------------
(***************************************************************************)
(* Runs that no request disturbs.  While quiet holds, a run has put the    *)
(* items it is done with in order; the text it carries is the one of the   *)
(* Korean row, which is live; and of the item in hand the marked rows that *)
(* it does not hold any more say what the Korean row says.                 *)
(***************************************************************************)
Passed(j) == {c \in Content : /\ job[j].pc # "idle"
                              /\ c \notin job[j].todo
                              /\ job[j].pc # "next" => c # job[j].item}

PassedAgree(j) == \A c \in Passed(j) : item[c] = "live" => Agrees(c)

CarriesKorean(j) ==
    job[j].pc \in {"find", "save"} =>
        ko \in LiveLangs(job[j].item) /\ job[j].base = tr[job[j].item][ko].text

HoldsTheRest(j) ==
    job[j].pc = "save" =>
        LET c == job[j].item
            held == DOMAIN job[j].rows
        IN  /\ \A l \in held : /\ l \in LiveLangs(c) \ {ko} /\ tr[c][l].synced
                               /\ job[j].rows[l].status = "live"
            /\ \A l \in LiveLangs(c) \ (held \cup {ko}) :
                  tr[c][l].synced => tr[c][l].text = job[j].base

Undisturbed(j) == PassedAgree(j) /\ CarriesKorean(j) /\ HoldsTheRest(j)

QuietInv == quiet => \A j \in Job : Undisturbed(j)

(* A step that writes at most Korean text into live rows. *)
OnlyCopies ==
    /\ item' = item
    /\ \A c \in Content : LiveLangs(c)' = LiveLangs(c)
    /\ \A c \in Content : \A l \in LiveLangs(c) :
          /\ tr'[c][l].synced = tr[c][l].synced
          /\ \/ tr'[c][l].text = tr[c][l].text
             \/ ko \in LiveLangs(c) /\ tr'[c][l].text = tr[c][ko].text

(* Copying Korean text keeps the translations of an item in agreement. *)
LEMMA AgreesKept ==
    ASSUME OnlyCopies, NEW c \in Content, Agrees(c)
    PROVE  Agrees(c)'
<1>1. LiveLangs(c)' = LiveLangs(c)
    BY DEF OnlyCopies
<1>2. ASSUME NEW l \in LiveLangs(c), ko \in LiveLangs(c), tr'[c][l].synced
      PROVE  tr'[c][l].text = tr'[c][ko].text
    <2>1. tr[c][l].text = tr[c][ko].text
        BY <1>2 DEF OnlyCopies, Agrees
    <2>2. tr'[c][ko].text = tr[c][ko].text /\ tr'[c][l].text = tr[c][ko].text
        BY <1>2, <2>1 DEF OnlyCopies
    <2> QED BY <2>2
<1> QED BY <1>1, <1>2 DEF Agrees

(* The work of the runs that do not move in such a step is kept too. *)
LEMMA UndisturbedKept ==
    ASSUME ShapeOK, OnlyCopies, NEW j \in Job, job'[j] = job[j], Undisturbed(j)
    PROVE  Undisturbed(j)'
<1> DEFINE c == job[j].item
<1>1. job[j].pc \in {"find", "save"} => c \in Content
    BY RunAt DEF Reading, Saving
<1>2. PassedAgree(j)'
    <2>1. Passed(j)' = Passed(j) /\ item' = item
        BY DEF Passed, OnlyCopies
    <2>2. ASSUME NEW d \in Passed(j), item[d] = "live" PROVE Agrees(d)'
        <3>1. d \in Content /\ Agrees(d)
            BY <2>2 DEF Passed, Undisturbed, PassedAgree
        <3> QED BY <3>1, AgreesKept
    <2> QED BY <2>1, <2>2 DEF PassedAgree
<1>3. job[j].pc \in {"find", "save"} =>
        /\ LiveLangs(c)' = LiveLangs(c) /\ ko \in LiveLangs(c)
        /\ job[j].base = tr[c][ko].text /\ tr'[c][ko].text = tr[c][ko].text
        /\ \A l \in LiveLangs(c) :
              /\ tr'[c][l].synced = tr[c][l].synced
              /\ tr'[c][l].text \in {tr[c][l].text, tr[c][ko].text}
    BY <1>1 DEF OnlyCopies, Undisturbed, CarriesKorean
<1>4. job'[j].pc \in {"find", "save"} => LiveLangs(job[j].item)' = LiveLangs(c)
    BY <1>3
<1>5. CarriesKorean(j)'
    BY <1>3, <1>4 DEF CarriesKorean
<1>6. HoldsTheRest(j)'
    <2> SUFFICES ASSUME job[j].pc = "save" PROVE HoldsTheRest(j)'
        BY DEF HoldsTheRest
    <2>1. \A l \in DOMAIN job[j].rows : /\ l \in LiveLangs(c) \ {ko} /\ tr'[c][l].synced
                                        /\ job[j].rows[l].status = "live"
        BY <1>3 DEF Undisturbed, HoldsTheRest
    <2>2. \A l \in LiveLangs(c) \ (DOMAIN job[j].rows \cup {ko}) :
              tr'[c][l].synced => tr'[c][l].text = job[j].base
        BY <1>3 DEF Undisturbed, HoldsTheRest
    <2> QED BY <1>4, <2>1, <2>2 DEF HoldsTheRest
<1> QED BY <1>2, <1>5, <1>6 DEF Undisturbed

(* What one step of a run does to the table of runs. *)
LEMMA TurnIs ==
    ASSUME ShapeOK, NEW j \in Job, NEW s, Turn(j, s)
    PROVE  job'[j] = s /\ \A k \in Job \ {j} : job'[k] = job[k]
BY DEF ShapeOK, Turn

(* A step that leaves both tables alone copies nothing. *)
LEMMA NothingWritten ==
    ASSUME UNCHANGED <<item, tr>>
    PROVE  OnlyCopies
<1>1. \A c \in Content : LiveLangs(c)' = LiveLangs(c)
    BY DEF LiveLangs
<1> QED BY <1>1 DEF OnlyCopies

(* The four steps of a run keep its own work in order.  Reading the Korean *)
(* row takes an item in hand, or passes one that has no Korean row.        *)
LEMMA ReadKoreanUndisturbed ==
    ASSUME ShapeOK, NEW j \in Job, NEW c \in Content, JobReadKorean(j, c), Undisturbed(j)
    PROVE  Undisturbed(j)'
<1> DEFINE rest == job[j].todo \ {c}
<1>1. UNCHANGED <<item, tr>> /\ job[j].pc = "next" /\ c \in job[j].todo
    BY DEF JobReadKorean
<1>2. /\ \A d \in Content : Agrees(d)' = Agrees(d)
      /\ LiveLangs(c)' = LiveLangs(c)
    BY <1>1 DEF Agrees, LiveLangs
<1>3. \A d \in Content \ job[j].todo : item[d] = "live" => Agrees(d)
    BY <1>1 DEF Undisturbed, PassedAgree, Passed
<1>4. CASE ko \in LiveLangs(c)
    <2>1. job'[j] = [pc |-> "find", todo |-> rest, item |-> c, base |-> tr[c][ko].text]
        BY <1>4, TurnIs DEF JobReadKorean
    <2>2. \A d \in Passed(j)' : d \in Content \ job[j].todo
        BY <2>1 DEF Passed
    <2>3. PassedAgree(j)'
        BY <1>1, <1>2, <1>3, <2>2 DEF PassedAgree, Passed
    <2>4. CarriesKorean(j)' /\ HoldsTheRest(j)'
        BY <1>1, <1>2, <1>4, <2>1 DEF CarriesKorean, HoldsTheRest
    <2> QED BY <2>3, <2>4 DEF Undisturbed
<1>5. CASE ko \notin LiveLangs(c)
    <2>1. job'[j] = [pc |-> "next", todo |-> rest]
        BY <1>5, TurnIs DEF JobReadKorean
    <2>2. \A d \in Passed(j)' : d = c \/ d \in Content \ job[j].todo
        BY <2>1 DEF Passed
    <2>3. Agrees(c)
        BY <1>5 DEF Agrees
    <2>4. PassedAgree(j)'
        BY <1>1, <1>2, <1>3, <2>2, <2>3 DEF PassedAgree, Passed
    <2>5. CarriesKorean(j)' /\ HoldsTheRest(j)'
        BY <2>1 DEF CarriesKorean, HoldsTheRest
    <2> QED BY <2>4, <2>5 DEF Undisturbed
<1> QED BY <1>4, <1>5

(* The run holds every marked row of the item, or there is none. *)
LEMMA FindSyncedUndisturbed ==
    ASSUME ShapeOK, NEW j \in Job, JobFindSynced(j), Undisturbed(j)
    PROVE  Undisturbed(j)'
<1> DEFINE c == job[j].item
           marked == {l \in LiveLangs(c) \ {ko} : tr[c][l].synced}
           rows == [l \in marked |-> tr[c][l]]
<1>1. /\ UNCHANGED <<item, tr>> /\ job[j].pc = "find" /\ c \in Content
      /\ Turn(j, IF marked = {} THEN [pc |-> "next", todo |-> job[j].todo]
                 ELSE [pc |-> "save", todo |-> job[j].todo, item |-> c,
                       base |-> job[j].base, rows |-> rows])
    BY RunAt DEF JobFindSynced, Reading
<1>2. \A d \in Content : Agrees(d)' = Agrees(d) /\ LiveLangs(d)' = LiveLangs(d)
    BY <1>1 DEF Agrees, LiveLangs
<1>3. \A d \in Content \ (job[j].todo \cup {c}) : item[d] = "live" => Agrees(d)
    BY <1>1 DEF Undisturbed, PassedAgree, Passed
<1>4. ko \in LiveLangs(c) /\ job[j].base = tr[c][ko].text
    BY <1>1 DEF Undisturbed, CarriesKorean
<1>5. CASE marked = {}
    <2>1. job'[j] = [pc |-> "next", todo |-> job[j].todo]
        BY <1>1, <1>5, TurnIs
    <2>2. \A d \in Passed(j)' : d = c \/ d \in Content \ (job[j].todo \cup {c})
        BY <2>1 DEF Passed
    <2>3. Agrees(c)
        BY <1>5 DEF Agrees
    <2>4. PassedAgree(j)'
        BY <1>1, <1>2, <1>3, <2>2, <2>3 DEF PassedAgree, Passed
    <2>5. CarriesKorean(j)' /\ HoldsTheRest(j)'
        BY <2>1 DEF CarriesKorean, HoldsTheRest
    <2> QED BY <2>4, <2>5 DEF Undisturbed
<1>6. CASE marked # {}
    <2>1. job'[j] = [pc |-> "save", todo |-> job[j].todo, item |-> c,
                     base |-> job[j].base, rows |-> rows]
        BY <1>1, <1>6, TurnIs
    <2>2. \A d \in Passed(j)' : d \in Content \ (job[j].todo \cup {c})
        BY <2>1 DEF Passed
    <2>3. PassedAgree(j)'
        BY <1>1, <1>2, <1>3, <2>2 DEF PassedAgree, Passed
    <2>4. LiveLangs(job[j].item)' = LiveLangs(c)
        BY <1>1, <1>2, <2>1
    <2>5. CarriesKorean(j)'
        BY <1>1, <1>4, <2>1, <2>4 DEF CarriesKorean
    <2>6. HoldsTheRest(j)'
        <3>1. DOMAIN rows = marked /\ \A l \in marked : rows[l].status = "live"
            BY <1>1, RowsArePresent DEF LiveLangs
        <3>2. \A l \in LiveLangs(c) \ (marked \cup {ko}) : ~ tr[c][l].synced
            OBVIOUS
        <3> HIDE DEF rows
        <3>3. \A l \in marked : l \in LiveLangs(c) \ {ko} /\ tr[c][l].synced
            OBVIOUS
        <3> HIDE DEF rows, marked
        <3> QED BY <1>1, <2>1, <2>4, <3>1, <3>2, <3>3 DEF HoldsTheRest
    <2> QED BY <2>3, <2>5, <2>6 DEF Undisturbed
<1> QED BY <1>5, <1>6

(* Saving a row the run holds copies the Korean text. *)
LEMMA SaveCopies ==
    ASSUME ShapeOK, HeldRows, NEW j \in Job, NEW l \in Lang, JobSave(j, l), Undisturbed(j)
    PROVE  /\ OnlyCopies
           /\ tr'[job[j].item][l].text = job[j].base
<1> DEFINE s == job[j]
           c == s.item
           new == [s.rows[l] EXCEPT !.text = s.base]
<1>1. /\ s \in Saving /\ s.pc = "save" /\ c \in Content
      /\ l \in DOMAIN s.rows /\ s.rows[l] \in Row
      /\ tr' = [tr EXCEPT ![c][l] = new] /\ UNCHANGED item
    BY RunAt, CopyType DEF JobSave, Saving
<1>2. /\ new.status = "live" /\ new.synced /\ new.text = s.base
      /\ s.base = tr[c][ko].text /\ ko \in LiveLangs(c)
      /\ l \in LiveLangs(c) /\ tr[c][l].synced
    BY <1>1 DEF Undisturbed, HoldsTheRest, CarriesKorean, HeldRows, Row
<1> HIDE DEF new
<1>3. tr'[c][l] = new
    BY <1>1 DEF ShapeOK
<1>4. \A d \in Content, k \in Lang : ~ (d = c /\ k = l) => tr'[d][k] = tr[d][k]
    BY <1>1 DEF ShapeOK
<1>5. \A d \in Content : LiveLangs(d)' = LiveLangs(d)
    BY <1>2, <1>3, <1>4 DEF LiveLangs
<1>6. tr[c][l].synced = TRUE /\ new.synced = TRUE
    BY <1>1, <1>2, RowsArePresent DEF new, Row
<1>7. \A d \in Content : \A k \in LiveLangs(d) :
          /\ tr'[d][k].synced = tr[d][k].synced
          /\ \/ tr'[d][k].text = tr[d][k].text
             \/ ko \in LiveLangs(d) /\ tr'[d][k].text = tr[d][ko].text
    <2> SUFFICES ASSUME NEW d \in Content, NEW k \in LiveLangs(d)
                 PROVE  /\ tr'[d][k].synced = tr[d][k].synced
                        /\ \/ tr'[d][k].text = tr[d][k].text
                           \/ ko \in LiveLangs(d) /\ tr'[d][k].text = tr[d][ko].text
        OBVIOUS
    <2>1. k \in Lang
        BY DEF LiveLangs
    <2> QED BY <1>2, <1>3, <1>4, <1>6, <2>1
<1> QED BY <1>1, <1>2, <1>3, <1>5, <1>7 DEF OnlyCopies

(* The run lets go of the row it has saved; with the last one it is done   *)
(* with the item, whose marked rows all say what the Korean row says.      *)
LEMMA SaveUndisturbed ==
    ASSUME ShapeOK, HeldRows, NEW j \in Job, NEW l \in Lang, JobSave(j, l), Undisturbed(j)
    PROVE  Undisturbed(j)'
<1> DEFINE s == job[j]
           c == s.item
           rest == DOMAIN s.rows \ {l}
           rows == [k \in rest |-> s.rows[k]]
<1>1. /\ s \in Saving /\ s.pc = "save" /\ c \in Content
      /\ Turn(j, IF rest = {} THEN [pc |-> "next", todo |-> s.todo]
                 ELSE [s EXCEPT !.rows = rows])
    BY RunAt DEF JobSave, Saving
<1>2. OnlyCopies /\ tr'[c][l].text = s.base
    BY SaveCopies
<1>3. \A d \in Content \ (s.todo \cup {c}) : item'[d] = "live" => Agrees(d)'
    <2>1. ASSUME NEW d \in Content \ (s.todo \cup {c}), item[d] = "live" PROVE Agrees(d)'
        <3>1. Agrees(d)
            BY <1>1, <2>1 DEF Undisturbed, PassedAgree, Passed
        <3> QED BY <1>2, <3>1, AgreesKept
    <2> QED BY <1>2, <2>1 DEF OnlyCopies
<1>4. /\ \A d \in Content : LiveLangs(d)' = LiveLangs(d)
      /\ ko \in LiveLangs(c) /\ s.base = tr[c][ko].text
      /\ tr'[c][ko].text = s.base
    BY <1>1, <1>2 DEF OnlyCopies, Undisturbed, CarriesKorean
<1>5. \A k \in LiveLangs(c) \ (rest \cup {ko}) : tr'[c][k].synced => tr'[c][k].text = s.base
    BY <1>1, <1>2, <1>4 DEF OnlyCopies, Undisturbed, HoldsTheRest
<1>6. \A k \in rest : /\ k \in LiveLangs(c) \ {ko} /\ tr'[c][k].synced
                      /\ s.rows[k].status = "live"
    BY <1>1, <1>2 DEF OnlyCopies, Undisturbed, HoldsTheRest
<1>7. CASE rest = {}
    <2>1. job'[j] = [pc |-> "next", todo |-> s.todo]
        BY <1>1, <1>7, TurnIs
    <2>2. \A d \in Content : d = c => Agrees(d)'
        BY <1>4, <1>5, <1>7 DEF Agrees
    <2> QED BY <1>3, <2>1, <2>2 DEF Undisturbed, PassedAgree, Passed, CarriesKorean, HoldsTheRest
<1>8. CASE rest # {}
    <2>1. job'[j] = [s EXCEPT !.rows = rows]
        BY <1>1, <1>8, TurnIs
    <2>2. /\ job'[j].pc = "save" /\ job'[j].todo = s.todo /\ job'[j].item = c
          /\ job'[j].base = s.base /\ job'[j].rows = rows
        BY <1>1, <2>1 DEF Saving
    <2>3. LiveLangs(job[j].item)' = LiveLangs(c)
        BY <1>1, <1>4, <2>2
    <2>4. PassedAgree(j)'
        BY <1>3, <2>2 DEF PassedAgree, Passed
    <2>5. CarriesKorean(j)'
        BY <1>4, <2>2, <2>3 DEF CarriesKorean
    <2>6. HoldsTheRest(j)'
        <3>1. DOMAIN rows = rest /\ \A k \in rest : rows[k] = s.rows[k]
            OBVIOUS
        <3> HIDE DEF rows, rest
        <3> QED BY <1>5, <1>6, <2>2, <2>3, <3>1 DEF HoldsTheRest
    <2> QED BY <2>4, <2>5, <2>6 DEF Undisturbed
<1> QED BY <1>7, <1>8

(* A run that ends has nothing left to keep in order. *)
LEMMA IdleUndisturbed ==
    ASSUME NEW j \in Job, job'[j] = Idle
    PROVE  Undisturbed(j)'
BY DEF Undisturbed, PassedAgree, Passed, CarriesKorean, HoldsTheRest, Idle

(* A run that starts has the items before it, all that are live. *)
LEMMA StartUndisturbed ==
    ASSUME ShapeOK, NEW j \in Job, JobStart(j)
    PROVE  Undisturbed(j)'
<1>1. job'[j] = [pc |-> "next", todo |-> {c \in Content : item[c] = "live"}]
    BY TurnIs DEF JobStart
<1>2. \A c \in Passed(j)' : item'[c] # "live"
    BY <1>1 DEF JobStart, Passed
<1> QED BY <1>1, <1>2 DEF Undisturbed, PassedAgree, CarriesKorean, HoldsTheRest

(* A step of a run that has begun keeps the work of all runs in order. *)
LEMMA ProgressUndisturbed ==
    ASSUME ShapeOK, HeldRows, NEW j \in Job, JobProgress(j) \/ JobFails(j),
           \A k \in Job : Undisturbed(k)
    PROVE  \A k \in Job : Undisturbed(k)'
<1>1. ASSUME OnlyCopies, \A k \in Job \ {j} : job'[k] = job[k], Undisturbed(j)'
      PROVE  \A k \in Job : Undisturbed(k)'
    BY <1>1, UndisturbedKept
<1>2. \E s : Turn(j, s)
    BY DEF JobProgress, JobFails, JobReadKorean, JobFindSynced, JobSave, JobEnd
<1>3. \A k \in Job \ {j} : job'[k] = job[k]
    BY <1>2, TurnIs
<1>4. ASSUME NEW l \in Lang, JobSave(j, l) PROVE OnlyCopies /\ Undisturbed(j)'
    BY <1>4, SaveCopies, SaveUndisturbed
<1>5. ASSUME NEW c \in Content, JobReadKorean(j, c) PROVE OnlyCopies /\ Undisturbed(j)'
    BY <1>5, ReadKoreanUndisturbed, NothingWritten DEF JobReadKorean
<1>6. CASE JobFindSynced(j)
    <2>1. OnlyCopies /\ Undisturbed(j)'
        BY <1>6, FindSyncedUndisturbed, NothingWritten DEF JobFindSynced
    <2> QED BY <1>1, <1>3, <2>1
<1>7. CASE JobEnd(j) \/ JobFails(j)
    <2>1. job'[j] = Idle /\ OnlyCopies
        BY <1>7, TurnIs, NothingWritten DEF JobEnd, JobFails
    <2> QED BY <1>1, <1>3, <2>1, IdleUndisturbed
<1> QED BY <1>1, <1>3, <1>4, <1>5, <1>6, <1>7 DEF JobProgress

(* QuietInv is inductive, given IInv. *)
LEMMA QuietStep == IInv /\ QuietInv /\ [Next]_vars => QuietInv'
<1> SUFFICES ASSUME IInv, QuietInv, [Next]_vars, quiet' PROVE \A k \in Job : Undisturbed(k)'
    BY DEF QuietInv
<1>0. ShapeOK /\ HeldRows
    BY DEF IInv, TypeOK
<1>1. ASSUME quiet, UNCHANGED <<item, tr, job>> PROVE \A k \in Job : Undisturbed(k)'
    BY <1>0, <1>1, NothingWritten, UndisturbedKept DEF QuietInv
<1>2. ASSUME NEW e \in Editor, RequestStep(e) PROVE quiet /\ UNCHANGED <<item, tr, job>>
    <2>1. ~ (InsertRows(e) \/ SaveItem(e) \/ SoftRemoveItem(e) \/ WriteRow(e) \/ AddRow(e))
        BY DEF InsertRows, SaveItem, SoftRemoveItem, WriteRow, AddRow
    <2>2. /\ \A c \in Content : ~ (CreateItem(e, c) \/ CreateSample(e, c))
          /\ \A l \in Lang, d \in Content, k \in Lang : ~ WriteNamed(e, l, d, k)
        BY DEF CreateItem, CreateSample, WriteNamed
    <2>3. CASE SaveFails(e) \/ RequestFails(e)
        BY <2>3 DEF SaveFails, RequestFails
    <2>4. ASSUME NEW op \in Op, NEW c \in Content, LoadItem(e, op, c)
          PROVE  quiet /\ UNCHANGED <<item, tr, job>>
        BY <2>4 DEF LoadItem
    <2>5. ASSUME NEW l \in Lang, FindRow(e, l) PROVE quiet /\ UNCHANGED <<item, tr, job>>
        BY <2>5 DEF FindRow
    <2>6. ASSUME NEW l \in Lang, NEW d \in Content, NEW k \in Lang, FindNamed(e, l, d, k)
          PROVE  quiet /\ UNCHANGED <<item, tr, job>>
        BY <2>6 DEF FindNamed
    <2> QED BY <1>2, <2>1, <2>2, <2>3, <2>4, <2>5, <2>6 DEF RequestStep
<1>3. ASSUME NEW j \in Job, JobStart(j) PROVE \A k \in Job : Undisturbed(k)'
    <2>1. OnlyCopies /\ \A k \in Job \ {j} : job'[k] = job[k]
        BY <1>0, <1>3, TurnIs, NothingWritten DEF JobStart
    <2>2. quiet \/ \A k \in Job : job[k] = Idle
        BY <1>3, Zenon DEF JobStart
    <2>3. \A k \in Job \ {j} : Undisturbed(k) \/ job'[k] = Idle
        BY <2>1, <2>2 DEF QuietInv
    <2> QED BY <1>0, <1>3, <2>1, <2>3, StartUndisturbed, UndisturbedKept, IdleUndisturbed
<1>4. ASSUME NEW j \in Job, JobProgress(j) \/ JobFails(j) PROVE \A k \in Job : Undisturbed(k)'
    <2>1. quiet
        BY <1>4 DEF JobProgress, JobFails, JobReadKorean, JobFindSynced, JobSave, JobEnd
    <2> QED BY <1>0, <1>4, <2>1, ProgressUndisturbed DEF QuietInv
<1>5. CASE Crash
    BY <1>5, IdleUndisturbed DEF Crash
<1>6. CASE UNCHANGED vars
    BY <1>1, <1>6 DEF vars
<1> QED BY <1>1, <1>2, <1>3, <1>4, <1>5, <1>6 DEF Next

(* A run that no request disturbs, alone or next to other runs, is done    *)
(* with an item only when its marked translations say what the Korean one  *)
(* says: for any number of items, languages and overlapping runs, of which *)
(* some may have been cut off at any step.                                 *)
THEOREM TranslationsQuietRuns == Spec => []QuietRunSynchronises
<1>1. Init => QuietInv
    BY DEF Init, QuietInv, Undisturbed, PassedAgree, Passed, CarriesKorean, HoldsTheRest, Idle
<1>2. QuietInv => QuietRunSynchronises
    BY DEF QuietInv, Undisturbed, PassedAgree, Passed, QuietRunSynchronises
<1> QED BY <1>1, <1>2, IInvAlways, QuietStep, PTL DEF Spec
=============================================================================
