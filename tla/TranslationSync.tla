-------------------------- MODULE TranslationSync ---------------------------
(***************************************************************************)
(* Translated contents and the job that copies the Korean text             *)
(* (brochures, electronic disclosures, IR documents, main popups,          *)
(* shareholders meetings: src/src/context/*-context,                       *)
(* src/src/domain/core, src/src/domain/sub/main-popup).                    *)
(*                                                                         *)
(* An item has one translation row per language.  A row an administrator   *)
(* wrote has isSynced = false; the others are marked isSynced = true and   *)
(* a job rewrites them every minute with the Korean title and description. *)
(* Jobs and requests read rows, await, and save whole entities: a save     *)
(* writes every column of the copy, isSynced and deletedAt included, and   *)
(* saving an item saves the translations that were loaded with it.         *)
(***************************************************************************)
EXTENDS Naturals

CONSTANTS
    Content,      \* identifiers of items
    Lang,         \* the active languages
    ko,           \* Korean, the language the others are copied from
    Text,         \* what a translation says: title and description
    Kinds,        \* kinds of content an instance may be about
    Editor,       \* requests that may be in flight at once
    Job,          \* runs of the cron job that may be in progress at once
    MaxChanges    \* bound: requests, faults and restarts

ASSUME KoreanAssumption == ko \in Lang
ASSUME KindsAssumption ==
    Kinds \subseteq {"brochure", "disclosure", "ir", "popup", "meeting"}
ASSUME ChangesAssumption == MaxChanges \in Nat

VARIABLES
    kind,         \* the kind of content this instance is about
    item,         \* item[c]: the table of items
    tr,           \* tr[c][l]: the table of translations
    req,          \* req[e]: what request e holds in memory
    job,          \* job[j]: what run j of the job holds in memory
    changes,      \* how much of MaxChanges is used
    source,       \* history: texts the others may have been copied from
    sample,       \* history: sample[c][l]: the sample brochure's own texts
    interrupted,  \* history: items whose creation did not run to its end
    quiet         \* history: no request wrote since the present runs began

vars == <<kind, item, tr, req, job, changes, source, sample, interrupted, quiet>>

(* How the kinds differ. *)
AtOnce == kind \in {"brochure", "meeting"}       \* rows of a list in one save
CreatesMissing == kind # "brochure"              \* an edit may add a language
EditReads == kind \notin {"disclosure", "ir"}    \* findOne and save, or UPDATE

Row == [status : {"live", "deleted"}, text : Text, synced : BOOLEAN]
Absent == [status |-> "absent"]
Written(t, s) == [status |-> "live", text |-> t, synced |-> s]

Subsets(S) == (SUBSET S) \ {{}}
Given == UNION {[S -> Text] : S \in Subsets(Lang)}
Copy == UNION {[S -> Row] : S \in SUBSET Lang}
Op == {"face", "bare", "edit", "delete"}

Idle == [pc |-> "idle"]
Creating == [pc : {"given", "rest", "sample"}, item : Content, given : Given,
             todo : Subsets(Lang), base : Text]
Loaded == [pc : {"loaded"}, op : Op, item : Content, copy : Copy]
Editing == [pc : {"edit"}, item : Content, given : Given, todo : Subsets(Lang)]
Found == [pc : {"found"}, item : Content, given : Given, todo : Subsets(Lang),
          lang : Lang, of : Content, in : Lang, row : Row \cup {Absent}]
Request == Creating \cup Loaded \cup Editing \cup Found

Starting == [pc : {"next"}, todo : SUBSET Content]
Reading == [pc : {"find"}, todo : SUBSET Content, item : Content, base : Text]
Saving == [pc : {"save"}, todo : SUBSET Content, item : Content, base : Text, rows : Copy]
JobState == Starting \cup Reading \cup Saving

LiveLangs(c) == {l \in Lang : tr[c][l].status = "live"}
Present(c) == {l \in Lang : tr[c][l] # Absent}
Sampled(c) == {l \in Lang : sample[c][l] # {}}
Snapshot(c) == [l \in LiveLangs(c) |-> tr[c][l]]

Changed == changes < MaxChanges /\ changes' = changes + 1
Become(e, r) == req' = [req EXCEPT ![e] = r]
Turn(j, s) == job' = [job EXCEPT ![j] = s]
-----------------------------------------------------------------------------
Init ==
    /\ kind \in Kinds
    /\ item = [c \in Content |-> "absent"]
    /\ tr = [c \in Content |-> [l \in Lang |-> Absent]]
    /\ req = [e \in Editor |-> Idle]
    /\ job = [j \in Job |-> Idle]
    /\ changes = 0
    /\ source = [c \in Content |-> {}]
    /\ sample = [c \in Content |-> [l \in Lang |-> {}]]
    /\ interrupted = {}
    /\ quiet = TRUE

(* A create request saves the public item first.  The text of the other    *)
(* languages will be the Korean one, or else the first one given.          *)
CreateItem(e, c) ==
    /\ req[e] = Idle
    /\ item[c] = "absent"
    /\ Changed
    /\ \E f \in Given : \E l \in DOMAIN f :
         /\ ko \in DOMAIN f => l = ko
         /\ Become(e, [pc |-> "given", item |-> c, given |-> f, todo |-> DOMAIN f,
                       base |-> f[l]])
         /\ source' = [source EXCEPT ![c] = @ \cup {f[l]}]
    /\ item' = [item EXCEPT ![c] = "live"]
    /\ quiet' = FALSE
    /\ UNCHANGED <<kind, tr, job, sample, interrupted>>

(* The endpoint that creates the sample brochures, here for one of them:   *)
(* the rows have texts of their own and the default isSynced, true, and    *)
(* there are none for the languages the sample has no text in.             *)
CreateSample(e, c) ==
    /\ kind = "brochure"
    /\ req[e] = Idle
    /\ item[c] = "absent"
    /\ Changed
    /\ \E f \in Given :
         /\ ko \in DOMAIN f
         /\ Become(e, [pc |-> "sample", item |-> c, given |-> f, todo |-> DOMAIN f,
                       base |-> f[ko]])
         /\ source' = [source EXCEPT ![c] = @ \cup {f[ko]}]
         /\ sample' = [sample EXCEPT ![c] = [l \in Lang |->
                          IF l \in DOMAIN f THEN @[l] \cup {f[l]} ELSE @[l]]]
    /\ item' = [item EXCEPT ![c] = "live"]
    /\ quiet' = FALSE
    /\ UNCHANGED <<kind, tr, job, interrupted>>

(* Faulty variants: the second list even when it is empty; no second list. *)
AfterRowsEmpty(q, B) ==
    CASE q.todo # B -> [q EXCEPT !.todo = @ \ B]
      [] q.todo = B /\ q.pc = "given" ->
           [q EXCEPT !.pc = "rest", !.todo = Lang \ DOMAIN q.given]
      [] OTHER -> Idle
AfterRowsNoRest(q, B) == IF q.todo = B THEN Idle ELSE [q EXCEPT !.todo = @ \ B]

(* After the given rows come the rows of the remaining languages, but not  *)
(* for a sample.                                                           *)
AfterRows(q, B) ==
    CASE q.todo # B -> [q EXCEPT !.todo = @ \ B]
      [] q.todo = B /\ q.pc = "given" /\ DOMAIN q.given # Lang ->
           [q EXCEPT !.pc = "rest", !.todo = Lang \ DOMAIN q.given]
      [] OTHER -> Idle

(* The row a creation inserts for language l. *)
NewRow(q, l) ==
    CASE q.pc = "given"  -> Written(q.given[l], FALSE)
      [] q.pc = "sample" -> Written(q.given[l], TRUE)
      [] q.pc = "rest"   -> Written(q.base, TRUE)

(* Insert rows, all of a list in one save or one save each.  A row that    *)
(* exists already breaks the unique index and ends the request.            *)
InsertRows(e) ==
    /\ req[e].pc \in {"given", "rest", "sample"}
    /\ LET q == req[e] IN
       \E B \in Subsets(q.todo) :
         /\ IF AtOnce /\ q.pc # "sample" THEN B = q.todo ELSE \E l \in B : B = {l}
         /\ \/ /\ B \cap Present(q.item) = {}
               /\ tr' = [tr EXCEPT ![q.item] = [l \in Lang |->
                                  IF l \in B THEN NewRow(q, l) ELSE @[l]]]
               /\ Become(e, AfterRows(q, B))
               /\ UNCHANGED interrupted
            \/ /\ B \cap Present(q.item) # {}
               /\ Become(e, Idle)
               /\ interrupted' = interrupted \cup {q.item}
               /\ UNCHANGED tr
    /\ quiet' = FALSE
    /\ UNCHANGED <<kind, item, job, changes, source, sample>>

(* Does the operation load and save the translations with the item?        *)
(* "face" changes the visibility or the files; "bare" the order, and the   *)
(* files of a brochure.  Meetings are reordered by one "face" save each.   *)
Cascades(op) == op \in {"face", "delete"} \/ (op = "edit" /\ kind # "brochure")

LoadItem(e, op, c) ==
    /\ req[e] = Idle
    /\ item[c] = "live"
    /\ op = "bare" => kind # "meeting"
    /\ Changed
    /\ Become(e, [pc |-> "loaded", op |-> op, item |-> c,
                  copy |-> IF Cascades(op) THEN Snapshot(c) ELSE [l \in {} |-> Absent]])
    /\ UNCHANGED <<kind, item, tr, job, source, sample, interrupted, quiet>>

(* Translations added since the load look orphaned: the save would set     *)
(* their foreign key to null, which the column forbids.                    *)
Orphans(q) == Cascades(q.op) /\ Present(q.item) \ DOMAIN q.copy # {}

SaveFails(e) ==
    /\ req[e].pc = "loaded"
    /\ Orphans(req[e])
    /\ Become(e, Idle)
    /\ UNCHANGED <<kind, item, tr, job, changes, source, sample, interrupted, quiet>>

(* The save of an item, live again, and of the translations of the copy.   *)
SaveItem(e) ==
    /\ req[e].pc = "loaded"
    /\ LET q == req[e] IN
         /\ q.op # "delete"
         /\ ~ Orphans(q)
         /\ item' = [item EXCEPT ![q.item] = "live"]
         /\ tr' = [tr EXCEPT ![q.item] = [l \in Lang |->
                     IF l \in DOMAIN q.copy THEN q.copy[l] ELSE @[l]]]
         /\ IF q.op = "edit"
            THEN \E f \in Given :
                   Become(e, [pc |-> "edit", item |-> q.item, given |-> f, todo |-> DOMAIN f])
            ELSE Become(e, Idle)
    /\ quiet' = FALSE
    /\ UNCHANGED <<kind, job, changes, source, sample, interrupted>>

(* softRemove writes deletedAt of the item and of the translations loaded. *)
SoftRemoveItem(e) ==
    /\ req[e].pc = "loaded"
    /\ LET q == req[e] IN
         /\ q.op = "delete"
         /\ ~ Orphans(q)
         /\ item' = [item EXCEPT ![q.item] = "deleted"]
         /\ tr' = [tr EXCEPT ![q.item] = [l \in Lang |->
                     IF l \in DOMAIN q.copy THEN [@[l] EXCEPT !.status = "deleted"] ELSE @[l]]]
    /\ Become(e, Idle)
    /\ quiet' = FALSE
    /\ UNCHANGED <<kind, job, changes, source, sample, interrupted>>

(* What is left of an edit after the translation in language l. *)
AfterEdit(q, l) ==
    IF q.todo = {l} THEN Idle
    ELSE [pc |-> "edit", item |-> q.item, given |-> q.given, todo |-> q.todo \ {l}]

(* Look for the row to edit; a brochure skips a language it does not have. *)
FindRow(e, l) ==
    /\ req[e].pc = "edit"
    /\ l \in req[e].todo
    /\ LET q == req[e]
           live == l \in LiveLangs(q.item)
       IN  Become(e, IF live \/ CreatesMissing
                     THEN [pc |-> "found", item |-> q.item, given |-> q.given,
                           todo |-> q.todo, lang |-> l, of |-> q.item, in |-> l,
                           row |-> IF live THEN tr[q.item][l] ELSE Absent]
                     ELSE AfterEdit(q, l))
    /\ UNCHANGED <<kind, item, tr, job, changes, source, sample, interrupted, quiet>>

(* A text of an edit may name the row it is for by its identifier, and no  *)
(* one checks that the row is of this item.  A disclosure or an IR updates *)
(* the row where it stands, whether or not there is such a row.            *)
WriteNamed(e, l, d, k) ==
    /\ kind \in {"disclosure", "ir"}
    /\ req[e].pc = "edit"
    /\ l \in req[e].todo
    /\ LET t == req[e].given[l] IN
         IF k \in Present(d)
         THEN /\ tr' = [tr EXCEPT ![d][k] = [@ EXCEPT !.text = t, !.synced = FALSE]]
              /\ source' = IF k = ko THEN [source EXCEPT ![d] = @ \cup {t}] ELSE source
         ELSE UNCHANGED <<tr, source>>
    /\ Become(e, AfterEdit(req[e], l))
    /\ quiet' = FALSE
    /\ UNCHANGED <<kind, item, job, changes, sample, interrupted>>

(* A meeting reads the row named, and answers 404 if it is not there. *)
FindNamed(e, l, d, k) ==
    /\ kind = "meeting"
    /\ req[e].pc = "edit"
    /\ l \in req[e].todo
    /\ LET q == req[e] IN
         Become(e, IF k \in LiveLangs(d)
                   THEN [pc |-> "found", item |-> q.item, given |-> q.given,
                         todo |-> q.todo, lang |-> l, of |-> d, in |-> k, row |-> tr[d][k]]
                   ELSE Idle)
    /\ UNCHANGED <<kind, item, tr, job, changes, source, sample, interrupted, quiet>>

(* Faulty variant: the edited row stays marked isSynced. *)
WriteMarked(e) ==
    /\ req[e].pc = "found"
    /\ LET q == req[e]
           c == q.of
           l == q.in
           t == q.given[q.lang]
       IN  /\ q.row # Absent
           /\ tr' = [tr EXCEPT ![c][l].text = t]
           /\ source' = IF l = ko THEN [source EXCEPT ![c] = @ \cup {t}] ELSE source
           /\ Become(e, AfterEdit(q, q.lang))
    /\ quiet' = FALSE
    /\ UNCHANGED <<kind, item, job, changes, sample, interrupted>>

(* Put the given text in the row, and stop its synchronisation.  An UPDATE *)
(* by identifier leaves deletedAt alone; a save of the entity clears it.   *)
WriteRow(e) ==
    /\ req[e].pc = "found"
    /\ LET q == req[e]
           c == q.of
           l == q.in
           t == q.given[q.lang]
       IN  /\ q.row # Absent
           /\ tr' = [tr EXCEPT ![c][l] =
                       [Written(t, FALSE) EXCEPT !.status = IF EditReads THEN @ ELSE tr[c][l].status]]
           /\ source' = IF l = ko THEN [source EXCEPT ![c] = @ \cup {t}] ELSE source
           /\ Become(e, AfterEdit(q, q.lang))
    /\ quiet' = FALSE
    /\ UNCHANGED <<kind, item, job, changes, sample, interrupted>>

(* Add the language, unless the unique index forbids it by now. *)
AddRow(e) ==
    /\ req[e].pc = "found"
    /\ LET q == req[e]
           c == q.item
           l == q.lang
           t == q.given[l]
       IN  /\ q.row = Absent
           /\ IF tr[c][l] = Absent
              THEN /\ tr' = [tr EXCEPT ![c][l] = Written(t, FALSE)]
                   /\ source' = IF l = ko THEN [source EXCEPT ![c] = @ \cup {t}] ELSE source
                   /\ Become(e, AfterEdit(q, l))
              ELSE /\ Become(e, Idle)
                   /\ UNCHANGED <<tr, source>>
    /\ quiet' = FALSE
    /\ UNCHANGED <<kind, item, job, changes, sample, interrupted>>
-----------------------------------------------------------------------------
(* The job lists the items, then takes them one after the other. *)
JobStart(j) ==
    /\ job[j] = Idle
    /\ Turn(j, [pc |-> "next", todo |-> {c \in Content : item[c] = "live"}])
    /\ quiet' = (quiet \/ \A k \in Job : job[k] = Idle)
    /\ UNCHANGED <<kind, item, tr, req, changes, source, sample, interrupted>>

(* Read the Korean row; an item without one is skipped. *)
JobReadKorean(j, c) ==
    /\ job[j].pc = "next"
    /\ c \in job[j].todo
    /\ LET rest == job[j].todo \ {c} IN
       Turn(j, IF ko \in LiveLangs(c)
               THEN [pc |-> "find", todo |-> rest, item |-> c, base |-> tr[c][ko].text]
               ELSE [pc |-> "next", todo |-> rest])
    /\ UNCHANGED <<kind, item, tr, req, changes, source, sample, interrupted, quiet>>

(* Faulty variant: every translation is a target, marked or not. *)
JobFindAll(j) ==
    /\ job[j].pc = "find"
    /\ LET s == job[j]
           all == LiveLangs(s.item) \ {ko}
       IN  Turn(j, IF all = {} THEN [pc |-> "next", todo |-> s.todo]
                   ELSE [pc |-> "save", todo |-> s.todo, item |-> s.item, base |-> s.base,
                         rows |-> [l \in all |-> tr[s.item][l]]])
    /\ UNCHANGED <<kind, item, tr, req, changes, source, sample, interrupted, quiet>>

(* Load the rows marked isSynced, but for the Korean one. *)
JobFindSynced(j) ==
    /\ job[j].pc = "find"
    /\ LET s == job[j]
           marked == {l \in LiveLangs(s.item) \ {ko} : tr[s.item][l].synced}
       IN  Turn(j, IF marked = {} THEN [pc |-> "next", todo |-> s.todo]
                   ELSE [pc |-> "save", todo |-> s.todo, item |-> s.item, base |-> s.base,
                         rows |-> [l \in marked |-> tr[s.item][l]]])
    /\ UNCHANGED <<kind, item, tr, req, changes, source, sample, interrupted, quiet>>

(* Faulty variant: the copy is saved as it was read. *)
JobSaveCopy(j, l) ==
    /\ job[j].pc = "save"
    /\ l \in DOMAIN job[j].rows
    /\ LET s == job[j]
           rest == DOMAIN s.rows \ {l}
       IN  /\ tr' = [tr EXCEPT ![s.item][l] = s.rows[l]]
           /\ Turn(j, IF rest = {} THEN [pc |-> "next", todo |-> s.todo]
                      ELSE [s EXCEPT !.rows = [k \in rest |-> s.rows[k]]])
    /\ UNCHANGED <<kind, item, req, changes, source, sample, interrupted, quiet>>

(* Save the copy of one row with the Korean text in it. *)
JobSave(j, l) ==
    /\ job[j].pc = "save"
    /\ l \in DOMAIN job[j].rows
    /\ LET s == job[j]
           rest == DOMAIN s.rows \ {l}
       IN  /\ tr' = [tr EXCEPT ![s.item][l] = [s.rows[l] EXCEPT !.text = s.base]]
           /\ Turn(j, IF rest = {} THEN [pc |-> "next", todo |-> s.todo]
                      ELSE [s EXCEPT !.rows = [k \in rest |-> s.rows[k]]])
    /\ UNCHANGED <<kind, item, req, changes, source, sample, interrupted, quiet>>

JobEnd(j) ==
    /\ job[j].pc = "next"
    /\ job[j].todo = {}
    /\ Turn(j, Idle)
    /\ UNCHANGED <<kind, item, tr, req, changes, source, sample, interrupted, quiet>>

(* Any database error ends the run; the next minute starts another. *)
JobFails(j) ==
    /\ job[j] # Idle
    /\ Changed
    /\ Turn(j, Idle)
    /\ UNCHANGED <<kind, item, tr, req, source, sample, interrupted, quiet>>

BeingCreated(e) ==
    {c \in Content : req[e].pc \in {"given", "rest", "sample"} /\ req[e].item = c}

(* A request ends early: what it wrote stays, there is no transaction. *)
RequestFails(e) ==
    /\ req[e] # Idle
    /\ Changed
    /\ Become(e, Idle)
    /\ interrupted' = interrupted \cup BeingCreated(e)
    /\ UNCHANGED <<kind, item, tr, job, source, sample, quiet>>

(* The process restarts: requests and runs are lost, the tables are not. *)
Crash ==
    /\ Changed
    /\ req' = [e \in Editor |-> Idle]
    /\ job' = [j \in Job |-> Idle]
    /\ interrupted' = interrupted \cup UNION {BeingCreated(e) : e \in Editor}
    /\ UNCHANGED <<kind, item, tr, source, sample, quiet>>

JobProgress(j) ==
    \/ (\E c \in Content : JobReadKorean(j, c)) \/ JobFindSynced(j)
    \/ (\E l \in Lang : JobSave(j, l)) \/ JobEnd(j)

RequestStep(e) ==
    \/ (\E c \in Content : CreateItem(e, c) \/ CreateSample(e, c)) \/ InsertRows(e)
    \/ (\E op \in Op, c \in Content : LoadItem(e, op, c))
    \/ SaveFails(e) \/ SaveItem(e) \/ SoftRemoveItem(e)
    \/ (\E l \in Lang : FindRow(e, l))
    \/ (\E l \in Lang, d \in Content, k \in Lang : WriteNamed(e, l, d, k) \/ FindNamed(e, l, d, k))
    \/ WriteRow(e) \/ AddRow(e) \/ RequestFails(e)

Next ==
    \/ \E e \in Editor : RequestStep(e)
    \/ \E j \in Job : JobStart(j) \/ JobProgress(j) \/ JobFails(j)
    \/ Crash

Spec == Init /\ [][Next]_vars

(* The cron job fires every minute, and each await of a run returns. *)
Fairness == \A j \in Job : WF_vars(JobStart(j)) /\ WF_vars(JobProgress(j))

FairSpec == Spec /\ Fairness
-----------------------------------------------------------------------------
(* The shape of the two tables, and of what each request and run of the    *)
(* job holds in memory between two awaits.                                 *)
ShapeOK ==
    /\ kind \in Kinds
    /\ item \in [Content -> {"absent", "live", "deleted"}]
    /\ tr \in [Content -> [Lang -> Row \cup {Absent}]]
    /\ req \in [Editor -> {Idle} \cup Request]
    /\ job \in [Job -> {Idle} \cup JobState]
    /\ changes \in 0..MaxChanges
    /\ source \in [Content -> SUBSET Text]
    /\ interrupted \in SUBSET Content
    /\ quiet \in BOOLEAN

TypeOK == ShapeOK /\ sample \in [Content -> [Lang -> SUBSET Text]]

(* A translation still marked isSynced says what the Korean translation,   *)
(* or the text the item was created from, said at some time, or else is    *)
(* the row of a sample brochure with the sample's text in that language    *)
(* (the endpoint inserts those marked): no race between jobs, edits and    *)
(* saves of the item leaves any other text in it.                          *)
SyncedTextFromSource ==
    \A c \in Content : \A l \in Present(c) :
        tr[c][l].synced => tr[c][l].text \in source[c] \cup sample[c][l]

(* An item that no request is creating any more has a translation in every *)
(* language, unless its creation was interrupted between two saves.  A     *)
(* sample brochure has one in every language it has a text in; nothing     *)
(* gives it the others, as an edit of a brochure adds no language.         *)
CompleteUnlessInterrupted ==
    \A c \in Content :
        \/ item[c] = "absent"
        \/ c \in interrupted
        \/ \E e \in Editor : c \in BeingCreated(e)
        \/ IF Sampled(c) = {} THEN Present(c) = Lang ELSE Sampled(c) = Present(c)

(* Writers about to write from memory, and whether the copy is stale. *)
StaleRequest(e) ==
    LET q == req[e] IN
    CASE q.pc = "loaded" -> \/ item[q.item] # "live"
                            \/ \E l \in DOMAIN q.copy : q.copy[l] # tr[q.item][l]
      [] q.pc = "found"  -> q.row # tr[q.of][q.in]
      [] OTHER -> FALSE
StaleJob(j) ==
    job[j].pc = "save" /\ \E l \in DOMAIN job[j].rows : job[j].rows[l] # tr[job[j].item][l]

StaleWrite ==
    \/ \E e \in Editor : req'[e] # req[e] /\ StaleRequest(e)
    \/ \E j \in Job : job'[j] # job[j] /\ StaleJob(j)

Edits(e) == req[e].pc \in {"edit", "found"} /\ req'[e] # req[e]

(* What an administrator did is undone by stale copies only: a step that   *)
(* writes from a current copy never turns a translation back to isSynced,  *)
(* rewords one that is not marked only to edit it, and brings nothing back *)
(* that was deleted.                                                       *)
FreshWritesKeepWork ==
    [][~ StaleWrite =>
         \A c \in Content :
           /\ item[c] = "deleted" => item'[c] = "deleted"
           /\ \A l \in Present(c) :
                /\ ~ tr[c][l].synced =>
                     /\ ~ tr'[c][l].synced
                     /\ tr'[c][l].text # tr[c][l].text => \E e \in Editor : Edits(e)
                /\ tr[c][l].status = "deleted" => tr'[c][l].status = "deleted"]_vars

Agrees(c) ==
    \A l \in LiveLangs(c) : ko \in LiveLangs(c) /\ tr[c][l].synced => tr[c][l].text = tr[c][ko].text

(* A run with which no request has interfered is done with an item only    *)
(* when all its marked translations say what the Korean one says, also     *)
(* when other runs are in progress and when runs were cut off before.      *)
QuietRunSynchronises ==
    quiet => \A j \in Job : job[j].pc = "next" =>
                \A c \in Content \ job[j].todo : item[c] = "live" => Agrees(c)

(* Once the requests stop, every translation marked isSynced ends up with  *)
(* the Korean text.                                                        *)
SyncedTextConverges ==
    \A c \in Content, l \in Lang :
        <>[](item[c] = "live" /\ {l, ko} \subseteq LiveLangs(c) /\ tr[c][l].synced /\ l # ko
               => tr[c][l].text = tr[c][ko].text)
=============================================================================
