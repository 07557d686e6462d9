# A verification of the lumir CMS back end

The repository is the back end of a company CMS (NestJS, TypeORM on
PostgreSQL): announcements, brochures, electronic disclosures, IR documents,
popups, shareholders meetings, a wiki, surveys and the rest of an intranet's
contents, administered over HTTP and audited and synchronised by cron jobs.
This directory holds TLA+ models of its stateful parts, the configurations that
model-check them with TLC, and theorems about them that TLAPS checks.

Paths below are relative to the repository; `domain/`, `context/`, `business/`
and `interface/` are the directories of `src/`.

## 1. The system

### Layers

A controller (`interface/admin/*`) calls a business service (`business/*`), which
orders the calls of one or more context services (`context/*`, some of them CQRS
handlers) with the calls of the file storage; a context service calls the domain
services (`domain/*`), and these call TypeORM repositories. There is one Node.js
process. All the concurrency is between `await`s: while a request waits for
PostgreSQL, for S3 or for the SSO service, other requests and the cron jobs run.

### How TypeORM saves

Nearly every write is `findOne`, then an assignment, then `repository.save`. Three facts
about `save` decide what the models look like.

* `save` reloads the row by its identifier and writes **every column of the
  loaded entity that differs from the row**. Columns the request never touched
  are therefore overwritten with what they were at the load. `deletedAt` is such
  a column: saving an entity loaded before a soft removal brings it back. The
  `version` column is incremented and compared with nothing.
* With `cascade: true` (the `translations` of the five translated kinds)
  saving the parent saves the loaded children the same way. Children that were
  added since the load look orphaned; their foreign key is set to null, the
  column forbids it, and the save fails.
* `softRemove` writes `deletedAt` only, of the entity and of its loaded children;
  `repository.update` is a plain UPDATE; `save` of an array is one transaction.

### Inventory

| component | state | operations | what makes it correct |
|---|---|---|---|
| announcements `domain/core/announcement`, `business/announcement-business` | `announcements`: contents, isPublic, releasedAt, permission lists, order, isFixed, deletedAt | create, edit, publish/hide, order, fixed, batch order, delete, replace permissions | a published announcement is not edited, a public one not deleted, an incomplete one not published |
| permission audit `context/announcement-context/announcement-permission.scheduler.ts`, twin in `context/wiki-context` | `announcement_permission_logs`, `wiki_permission_logs`; per run: items read, answers of the SSO service | daily cron, manual endpoint, started by list requests | logs tell the truth, at most one open per item, closed only on fresh answers, never lost; every lasting problem is reported |
| SSO client `domain/common/sso` | none (departments live in the SSO service) | bulk and single lookups | a failed lookup is not mistaken for an answer |
| translated contents: brochures, electronic disclosures, IR, main popups, meetings | item tables and translation tables (one row per item and language, isSynced) | create, edit translations, visibility, files, order, delete, synchronisation every minute | a translation an administrator wrote is kept; the marked ones follow the Korean text; no language is missing |
| shareholders meeting votes | vote results and their translations | replaced with the meeting | a failed edit loses no result |
| wiki `domain/sub/wiki-file-system` | tree (`parentId`), closure table, visibility and permissions | create, edit, move, delete, delete empty folder, replace permissions | the parents form a forest; nothing live hangs under something deleted |
| surveys `domain/sub/survey` | survey, questions, completions, seven response tables | create, update (all questions recreated), delete, complete; also from the requests of announcements | the questions of a survey are one whole list; they are deleted with it; answers belong to questions that exist |
| news, lumir stories, video galleries | single rows | create, edit with files, publish, batch order, delete | new items get an order of their own; the answer of a batch order says what was written |
| categories `domain/common/category` | one table for the sections of the site | create, edit, order, delete | (a deletion is soft and leaves the contents their category) |
| languages, dismissed logs `domain/common` | rows found or inserted | create, edit, delete, dismiss | no duplicates |
| attachments `libs/storage` + business services | files in S3, their URLs in the rows | upload, delete | a row names only files that exist; files no row names are deleted; a refused edit deletes nothing |
| transaction manager `libs/database` | none | retries, nested transactions, domain events | no service uses it yet |
| auth, company, seed data, education, notifications | none of interest | | |

### What is hard in it

1. *Read-check-write over awaits.* Every guard is checked on a loaded copy and
   the copy is saved later. Guards, edits, deletions and publications cross.
2. *Two runs of the same job.* Nothing stops the audit from being started by cron,
   by an endpoint and by a list request at once; a run of the synchronisation
   longer than a minute overlaps with the next.
3. *Creation in several saves.* An item is public from its first save, its
   translations follow in later ones, without a transaction.
4. *Failures half way.* SSO calls, saves and the process may fail between steps;
   what is repaired, and by whom, differs between the twins.
5. *Transactions that overlap.* The update of a survey is a transaction of several statements at READ
   COMMITTED: it does not see what another one inserts after its own scan.
6. *Time.* releasedAt passes while a request holds a verdict based on it.
7. *Two stores.* Files are deleted and uploaded between the read and the write of the row that names them,
   under no transaction; a file that is gone cannot be brought back by a rollback.
8. *Lists of rows.* Five ways to write a list of orders, with four ways to treat a row that is missing, and one of
   them takes row locks in the order the request chose.

`PROJECT.json` lists each hazard at its line with the properties that cover it.

## 2. The modules

| module | what it is |
|---|---|
| `Announcement` | the announcements table and the requests that write it |
| `PermissionAudit` | extends it with the audit runs, the SSO service and the log table |
| `TranslationSync` | items, translations, requests and the synchronisation job, for the five kinds |
| `WikiForest` | the tree the wiki promises: items added, moved and removed in single steps |
| `WikiTree` | the table of folders and files and the requests that write it, which implement `WikiForest` until they cross |
| `Questionnaire` | what surveys promise: a survey issued, its list replaced and the survey withdrawn in single steps |
| `Survey` | surveys and their questions, and the requests, of surveys and of announcements, that write them, which implement `Questionnaire` until they cross |
| `Contents` | what each request on a content checks and awaits, in order, layer by layer: nine kinds with files, announcements, categories |
| `Attachments` | rows and the file storage, with the requests of `Contents` running against each other |
| `Ordering` | the display order of rows, with creations, saves and batch reorders running against each other |
| `MCAnnouncement`, `MCPermissionAudit`, `MCTranslationSync`, `MCWikiTree`, `MCSurvey`, `MCAttachments`, `MCOrdering` | the symmetry sets and constraints of the instances TLC checks |
| `PermissionAuditProofs` (with those of `Announcement`), `TranslationSyncProofs`, `WikiForestProofs`, `WikiTreeProofs`, `SurveyProofs`, `AttachmentsProofs`, `OrderingProofs` | theorems and proofs |
| `ContentsProofs` | lemmas about the scripts of `Contents`, for the last two |

### Announcement

`row[i]` is a row of the table; `request[e]` is what a request in flight holds in
memory: its operation, the copy it loaded and the instant of its check. `Load` is
`ID로_공지사항을_조회한다` with the check of the operation (`Accepts`);
`SaveEdit`, `SavePublic`, `SavePlace` and `SoftRemove` are the writes. Nothing
happens between the load and the check in the code (no `await`), so they are one
step; the save is another. `BatchPlace` and `Replace` are transactions
and one step each. `Replace` rewrites departments position by position, as the
code does with `indexOf`, for one or two mappings. `Restart` loses the requests.

Data: title, content, attachments and mustRead are one value of `Text`, of which the
values in `Complete` pass the publication check; order and isFixed are one `Place`; the
department list stands for the four permission lists, which are handled alike.
An instant is a number up to `MaxNow`; releasedAt = 0 stands for null as well.

### PermissionAudit

A run `r` goes `idle -> sso -> (each ->) logs -> work -> idle`. `StartRun` reads the live
items and their departments; `BulkAnswer`, or `BulkFails` and then `AskOne`/`AskOneFails`
for each department, fill the map `answer[r]`; `ReadOpenLogs` selects the open logs whose
departments are all active again; `ResolveLog` closes them one by one; `BeginBatch`,
`FindOpenLog` and `InsertLog` check the items batch by batch, the items of a
batch interleaving as the promises of `Promise.all` do; `EndRun` returns. `RevalidationFails`
and `ItemFails` are the catch clauses: with `ErrorsIsolated = TRUE` (announcements) the
run goes on, with `FALSE` (wiki, which has no inner try) it ends after the
batch in progress. The environment changes departments in the SSO service, takes steps of
`Announcement`, replaces permissions (which inserts a log of its own in the same
transaction) and restarts the process. `EmptyRun` is the early return.

Only `resolvedAt = null` is read of that column, so a log has a status instead. The
list requests that start an audit in the background are covered by `StartRun`,
which is always enabled for an idle run.

`quiet` is history: the run, if any, that has been alone since it read the items, while nobody changed an
announcement or a department, nothing failed and the process went on. So is `opener`, the run that opened a log; a run
that ends and starts again is the same `r`.

### TranslationSync

`tr[c][l]` is the row of item `c` in language `l`: absent, or live/deleted with a text and
isSynced. `req[e]` and `job[j]` are what requests and runs hold between awaits. The kinds
differ in three ways, and `kind` picks one of them at the start:

| | brochure | disclosure | IR | popup | meeting |
|---|---|---|---|---|---|
| rows of a list are inserted (`AtOnce`) | in one save | one by one | one by one | one by one | in one save |
| an edit adds a missing language (`CreatesMissing`) | no | yes | yes | yes | yes |
| an edit of a row is (`EditReads`) | findOne, save | UPDATE | UPDATE | findOne, save | findOne, save |

`CreateItem` and `InsertRows` are a creation, and so are `CreateSample` and `InsertRows` for a sample brochure; `LoadItem` with `SaveItem`, `SaveFails` or
`SoftRemoveItem` are the operations that load an item and save it: `face` with its
translations (visibility, files), `bare` without (order; files of a brochure). Reordering
meetings is one `face` save each, so `bare` is not an operation of theirs. `FindRow`,
`WriteRow` and `AddRow` edit translations one by one. The order in which a request
lists its languages is left open. A disclosure, an IR document, a popup and a meeting take the identifier of a translation
instead of its language (`translation.id`), and update whatever row has it, of this item or of another, without looking it up
under the item: `WriteNamed` is that for the kinds that UPDATE, `FindNamed` (and `WriteRow`) for those that load and save. `JobStart`, `JobReadKorean`, `JobFindSynced`,
`JobSave`, `JobEnd` and `JobFails` are a run of the job.

`quiet` is history, and says that since the runs in progress began nothing but runs of the job, without a failure,
has written anything. More than one run may be in progress.

An edit request that changes files as well is a `face` request followed by an `edit`
request of the model. A popup, a disclosure and a meeting find the row of a language
from the list of all of them, some with a second findOne by identifier: one `FindRow`
here, since the second read either returns what will be saved or fails the request.
A popup reads the list once for all its languages; what it does with a row that came or went since is among the outcomes of
`FindRow`, `AddRow` and `RequestFails`. The vote results of a meeting and their translations follow the same
protocol and are not modelled separately.

The sample brochures of `POST create-default` (`context/brochure-context/handlers/commands/initialize-default-brochures.handler.ts`)
are no ordinary items. Their rows are inserted one by one, each in its own words and with `isSynced` at its default, true;
they are marked without ever having been copied from the Korean text, against what the comment of the column says
(`domain/core/brochure/brochure-translation.entity.ts:52`), and the next run of the job replaces all of them but the Korean one by
the Korean text. One of the three samples has no Japanese and no Chinese text and gets no such rows; as an edit of a
brochure adds no language, it stays without. `sample[c][l]` is history, the texts a sample was given, and
both `SyncedTextFromSource` and `CompleteUnlessInterrupted` speak of it. `CreateSample` starts one of the samples; the endpoint creates the three
one after the other, which two requests of the model do as well. `DELETE initialize-default` removes them one by one, as any brochure is removed.

### WikiTree

`node[n]` is a row of `wiki_file_system`: absent, live or deleted, a folder or a file, and
its parent. `request[e]` is a request in flight: its operation, the row it loaded, where it
moves it, and whether its check has passed. `Load` is `ID로_조회한다`, `CheckMove` and `CheckEmpty` are the
reads of `경로를_수정한다` and `폴더만_삭제한다` and what they decide, `Save` and `SoftRemove` the
writes; each is a step of its own since the code awaits between them. `Create` reads
nothing first. A parent is not checked at all, apart from its foreign key: it may be a file, or deleted.
`edit` stands for the operations that load a row, change its name, contents, visibility, permissions
or order and save it, place included. `Tops` and `Shown` are the list of all items and `buildTree`.

Two things are outside. The triggers that keep the closure table, and with it `depth`, are mentioned in a
comment and sketched in the documentation but are not in the repository: `Below` takes the
closure table as always right, so what is shown here is what the code does *given* such triggers.
`fresh` and `crossed` are history: `fresh` says that the tree is still the
one the request was loaded from, `crossed` that a request was saved over a tree it had not seen.

`WikiForest` is the promise: a tree in which items are added, moved and removed in single steps, and
a move under a live item below the moved one is refused. It is about live items. A
deleted item may well end up on a cycle without any concurrency: the check leaves deleted
descendants out, so a folder can be moved under a deleted one below it.
Once requests cross nothing is promised, for good reason: two folders moved into each other both
pass their checks, and an edit loaded before a move or a deletion undoes it.

### Survey

`survey[p]` is the survey of announcement `p`, `question` the table of questions, `answer` the
questions employees have answered, and `request[e]` what a request holds: where it is in the
code (`at`), what it wants with the questions (`asks`), the columns its save writes and the questions it has
loaded or is deleting (`held`). Requests come from the endpoints of surveys (`EditSurvey`) and from those of
announcements, which create or edit the announcement first and turn to its survey in a transaction of
its own (`CreatePostWithSurvey`, `EditPost`, `FindSurvey`).

`Create` is one step: nothing another transaction does between its two inserts can matter, as the
index on announcementId, which deleted surveys count in as well, decides at the first one. The update is taken
apart into the statements that can cross: `LoadUpdate` (findOne), `CompareSurvey` and `WriteSurvey` (save: read again, then
UPDATE the columns that differ, deletedAt among them), `ScanQuestions` and `DeleteQuestions` (the DELETE: the
rows visible when it starts, then, after the wait for the transactions that are deleting some of them, those still there) and
`Commit` (the INSERTs, which are seen by nobody before the commit). A statement that waits for a row lock is one that is not enabled
(`Locked`, `BeingDeleted`). A deletion is `LoadRemove`, `CheckRemove` (a question added since the load looks
orphaned, and the save fails) and `RemoveSurvey`. `Fail` is an error at any await, or a stop of the process; the transaction is rolled back.

Data: the title stands for the columns of a survey that an update sets. A question is its list and its place in it,
where a place is an order and a title: two lists that send the same questions have the same places, and their rows
different identifiers, which is all `AnswersCount` needs. Each request has a list of its own. A list holds
every place or none; what matters is whether it is in the table as a whole.

`promised`, `overlapping`, `crossed` and `lone` are history: announcements created with a survey by a request that has
not failed, surveys whose questions two updates replaced at once, surveys with an update and a deletion in progress when
one of them was committed, and updates in progress of which no other commit has touched the survey since they compared it with its row.

`Questionnaire` is the promise: a survey comes to be with a list or without questions, has its list replaced in one step, and is withdrawn
with its questions, for good. `Survey` implements it with the status of the survey, the identifiers of its
questions (`sheet`), and `overlapping` and `crossed` together as the surveys that are `spoilt`, of which nothing is promised.
Everything an update or a deletion does before its commit is a stutter, as nobody else can read it.

Not modelled: the type and form of a question, the queries, and completions. The insert of a completion
always fails, since it does not set the NOT NULL column totalQuestions. Response rows are written only by the seed data in this
repository; `Answer` stands for the client that will write them.

### Contents

A content is created, edited, published, removed and reordered by code that is written nine times over, once
for each kind, and differs in the order of its steps. `Contents` has no state: a definition is a *script*, the sequence of what a
method checks and awaits, and a layer's script is built from the scripts of the methods it calls, as
`NewsEdit` (endpoint) from `NewsEditAll` (business service) from `NewsDetail`, `NewsSetFiles` (handler) and `NewsSetText`.
The checks of the endpoints come first, the format of the identifier (`"uuid"`) among them where the endpoint looks at it.
Names in `Await` are statements on the database or the storage; any other name is a check, which refuses the requests that
have that flaw. `Plan(script, flaw, steps)` is what a machine that knows the statements `steps` runs for a request with that flaw: the
statements up to the check, and a refusal; `Chosen` picks them out of the script in order. `Manner` says how a batch order reads its rows
and what it does with one that is missing. `Categories` are the scripts of the category endpoints of each kind.

### Attachments

`row[c]` is a content with the files it names, `store` the files that are stored, `request[e]` a request: its script, its place in it, the
files its first read saw (`seen`, which it purges), the copy it loaded last (`copy`, which it saves) and what it uploaded (`up`). An action
is one statement. `Purge` and `PurgeMissing` differ in the storage: S3 deletes what is not there without complaint,
the local directory refuses (`test/libs/storage/storage-service.e2e-spec.ts:227`), after the other deletions of the list have gone out. `Refuse` is
a check of the script that fails, `NotFound` a 404, `Fail` a failed statement or a stop of the process, with a part
of the files purged or uploaded if it happens there. `SaveBack` writes the loaded copy, files and deletedAt included.

`torn` and `lost` are history, and say what is *excused*: a content is torn when a request dies between the purge and the save, when a save
writes back a copy older than a replacement, or when it is a sample brochure, whose file is an address outside the storage
(on the local storage it can never be edited, as its purge fails). A file is lost when a request dies after the
upload, or a save drops a file nobody purged. A later successful edit mends a torn content.

Files are names, no name is given twice (the uploads add a random part). Links of a video gallery are not files.

### Ordering

`row[c].order` is the order of a content. `request[e]` runs a script of `Contents` on one row, with the order its `next` computed or
its copy holds; a publication stands for every request that loads a row and saves it back. `batch[s]` is a batch order: its list, the places
still to deal with (`todo`), the rows it has written, or locked (`wrote`), and its answer. `FindAll`, `FindNext`, `SaveOne`, `LoseOne` and `Finish` cover
the manners without a transaction; `UpdateNext`, `Commit`, `Abort` and `BreakDeadlock` are the one of announcements, whose
UPDATEs take their row locks in the order of the list:

| kinds | reads | a missing row |
|---|---|---|
| news, video galleries | one after the other | is skipped, answer `success: false` (the endpoints document a 404, `interface/admin/news/news.controller.ts:269`) |
| meetings | one after the other | ends the request, what is written stays |
| lumir stories, brochures, disclosures, IR, popups | all first, then saves in parallel | 404 before anything is written |
| announcements | all first, then UPDATEs in one transaction | 404, rolled back |

`given` is history: whether a row got its order from a creation that no other creation crossed. `crossed` of a batch order is history too: the
rows others wrote while it ran. A list names a row once; the endpoints do not check that, and with a row named twice
the parallel saves end in either order.

## 3. What is checked

| run | property | shows |
|---|---|---|
| `announcement` | `ATypeOK`, `FreshSavesKeepPolicy` | a save from a copy that is still current keeps the publication policy, with the clock moving |
| `permission_audit` | `TypeOK`, `LogsAreTruthful`, `NoDuplicateWithoutOverlap`, `FreshResolveWithoutOverlap`, `LogsArePermanent`, `QuietRunSettlesLogs`, `OneOpenLogEach` | what the log table says is true in every interleaving; single and fresh as long as runs do not overlap; one run that nothing disturbs leaves the logs in accord with the announcements and the SSO service, whatever came before it; and runs that do overlap leave no more open logs of an item than there are runs at once |
| `permission_audit_live` | `InactiveItemReported`, `ReactivatedLogResolved` | lasting problems are reported and ended ones closed, in the wiki version that gives up more easily |
| `translation_sync` | `TypeOK`, `SyncedTextFromSource`, `CompleteUnlessInterrupted`, `FreshWritesKeepWork` | translations are complete, a sample brochure as far as it was given texts; marked ones come from the source, or are a sample's own; only stale copies undo work |
| `translation_sync_live` | `SyncedTextConverges`, `QuietRunSynchronises` | overlapping runs of the job converge on the Korean text; and once one run has gone through all items while only runs of the job wrote, every marked row says what the Korean row says, whatever other runs did meanwhile |
| `wiki_tree` | `TypeOK`, `TreeShowsItems`, `EmptyFolderRemoved`, `ImplementsForest` | read, check and write apart are the single steps of a forest until a request saves over a tree it has not seen; what hangs in live folders is shown, and an empty folder is removed empty |
| `survey` | `TypeOK`, `WholeLists`, `OneListUnlessOverlapping`, `QuestionsFollowSurvey`, `SurveyComesWithPost`, `ImplementsQuestionnaire`, `LoneUpdateTakesEffect` | whatever crosses, no list of questions is left in part and an announcement created with a survey gets one; one list per survey, deleted with it, as long as updates and deletions are not in progress together, and until then the transactions are the single steps of a questionnaire; an update that no commit crosses does what was asked, and so puts right what crossing requests have left (two lists, live questions of a deleted survey, deleted ones of a live survey) |
| `attachments` | `TypeOK`, `NamedFilesStored`, `NothingLeaks`, `RefusedBeforePurge` | two requests that merely cross never leave a row naming a file that is gone; a file no row names comes from a failure, a refusal after the upload or a save over a newer replacement; no request of any kind is refused while its row names files it has purged, but for a video gallery whose links are no array of strings |
| `ordering` | `TypeOK`, `DistinctOrders`, `AnswersTruthful`, `SameOrderNoDeadlock` | equal orders need two creations that cross, a reorder, a stale save or a sample; an answer says what was written; reorders of announcements deadlock only when their lists disagree on the order |

Most of these say where the protocol is sound: with a copy that is current. The next
three runs show what happens where it is not, each against a sentence of the repository:

| run | violated | how |
|---|---|---|
| `masked_department` | `InactiveDepartmentReported` | an open log for one department hides the next, with no concurrency at all |
| `subtree_left` | `DeletionTakesSubtree` | deleting a folder deletes one row, with no concurrency at all |
| `answers_lost` | `AnswersCount` | an update that repeats the questions gives them new identifiers, and the answers count for none, with no concurrency at all |

The exceptions in the passing properties are real as well: overlapping audits can log one problem twice (both
look for an open log before either inserts one; `OneOpenLogEach` bounds how often), and overlapping updates of a survey can leave it with both lists of questions. So are the stale saves that
`FreshSavesKeepPolicy` and `FreshWritesKeepWork` except. The class comments of the two audits
(`context/announcement-context/announcement-permission.scheduler.ts:14`, `context/wiki-context/wiki-permission.scheduler.ts:14`) promise a log for departments deleted in
the SSO service as well. The code reports inactive ones only: a department the service does not return counts as valid, as an inline comment
says (`announcement-permission.scheduler.ts:149`), and no log ever names it. `LogsAreTruthful` states what the code does; against the class
comment it is a disagreement, noted with the finding of `masked_department`. The comment of `공지사항_권한을_교체한다`
(`business/announcement-business/announcement-business.service.ts:1025`) says its row lock prevents concurrency problems, but an edit
loaded before the replacement saves its copy after it, and the replaced department is back. The comment of the handler that edits translations
(`context/brochure-context/handlers/commands/update-brochure-translations.handler.ts:35`) says an edited language is excluded from
the synchronisation, but a run of the job that has already loaded the row saves over the edit and marks it again.

Each property of a passing run has a mutant, a faulty variant of one definition kept just
above it, under which TLC finds the property violated.

### Bounds

* Announcements: one item, two departments, two requests: every property is about one
  row, and two requests are what it takes for one to be stale. Two contents (one complete), two
  places, lists of up to one department, two instants (before and after the release).
* Audit, safety: two items, so that a batch has two promises, one department, two runs, three
  logs, one request and two changes (`MaxChanges`): a department changing twice, a
  failure and a change, a restart and a change.
* Audit, liveness: one run at a time over one item with two departments, three logs, two
  changes, wiki error handling.
* Translations, safety: two items, since a request may name a translation of another item, two languages, two texts,
  two requests and a run, three changes: two requests that cross and a failure, or three requests. Liveness: one item, one
  request, two runs, four changes. The two languages are the source and a target; a sample with both is complete, one with
  the Korean text alone stands for the sample without Japanese and Chinese. `MaxChanges` counts request starts, faults and restarts, and bounds only them: the
  job and requests under way always finish.
* Wiki: three items and two requests, which is what a cycle of two folders and a bystander, or a check
  and the step that crosses it, take. The constraint `Promising` stops the search at the first crossed save: no
  property says anything beyond it but `TypeOK`, which is proved. The tree may run out of identifiers and every item
  may end up deleted, so it runs without the deadlock check. `subtree_left` needs two items and one request.
* Surveys: one announcement, two requests, three lists (of which a list is free again once no table and no request
  knows it), two places per list so that a list can be in part, two titles so that a save writes or does not, one answer.
  Announcements do not affect each other. Requests can run out of lists, hence no deadlock check.
  `answers_lost` needs one request at a time.
* Attachments: one content, since requests on different contents share nothing but the supply of names; two requests of any
  of the nine kinds, which is what a purge and a save that cross take; three files, one in the row and one for
  each request; every flaw of every script; both storages. The kind and the storage are chosen at the start.
* Ordering: two rows, which two equal orders or a deadlock take, two requests or reorders, every kind and the categories. Requests ask
  for the one order in `Place`, while `next` counts further up; each live row makes it higher, so orders stay below three. Two orders
  to ask for are more than TLC finishes in five minutes over all kinds; the proofs hold for every `Place`.
* `LogId` bounds how many logs are ever made; an insert beyond it is not
  enabled, so `permission_audit` runs without the deadlock check. In
  `permission_audit_live` three identifiers are enough for every log the two changes can cause.

### Fairness

`permission_audit_live`: `WF(StartRun(r))`, because the cron job starts a run every day,
and `WF(RunProgress(r))`, because every await of a run settles (calls have a time
limit) and the code after it runs. Nothing is assumed of requests, faults and the SSO service.
`translation_sync_live`: the same for the job every minute. Both properties are
about what happens once the changes stop, and the bound on changes makes them stop.

## 4. What is proved

For all values of the constants that meet their assumptions: any number of items,
departments, languages, folders, requests and runs, any bounds.

| theorem | property |
|---|---|
| `AnnouncementTypeOK`, `AnnouncementFreshSaves` (of `PermissionAuditProofs`) | `ATypeOK`, `FreshSavesKeepPolicy` |
| `AuditTypes`, `AuditLogsAreTruthful`, `AuditNoDuplicate`, `AuditFreshResolve`, `AuditLogsArePermanent`, `AuditQuietRunSettles`, `AuditOneOpenLogEach` | the seven properties of `permission_audit` |
| `TranslationTypes`, `TranslationsFromSource`, `TranslationsComplete`, `TranslationsKeepWork` | the four properties of `translation_sync` |
| `TranslationsQuietRuns` | `QuietRunSynchronises` |
| `ForestUnlessCrossed` | (of `WikiForest`: no cycle of live items until requests cross) |
| `WikiTypes`, `WikiImplementsForest`, `WikiTreeShowsItems`, `WikiEmptyFolderRemoved` | the four properties of `wiki_tree` |
| `TypeCorrect`, `ListsWhole`, `OneList`, `QuestionsFollow`, `ComesWithPost`, `SurveyImplementsQuestionnaire`, `LoneUpdates` (of `SurveyProofs`) | the seven properties of `survey` |
| `TypeCorrect`, `FilesAreStored`, `FilesAreReachable`, `RefusalsAreEarly` (of `AttachmentsProofs`) | the four properties of `attachments` |
| `OrderingTypes`, `OrdersAreDistinct`, `AnswersAreTruthful`, `NoDeadlockInSameOrder` | the four properties of `ordering` |

*Announcement.* The invariant is the type invariant: a request holds a
row that was live, of the item it names, at a past instant. `FreshSavesKeepPolicy` is then a case
split on the steps: the request that finishes is not stale, so its copy is the row and its
check, made at the same instant, is about the row being changed.

*PermissionAudit.* `Inv = BaseInv /\ TruthInv /\ SerialInv /\ FreshInv`. `BaseInv` adds to
the types what each place of a run owns. `TruthInv` follows an answer from the SSO service to
a log: a department marked inactive in any run's map has been inactive. `SerialInv`
says what runs that never overlapped know of each other: at most one is not
idle, an item about to be inserted has no open log. `FreshInv` says that, without overlap, a department marked
active in the running run's map has been seen active since every log that exists was
made, so that the logs it closes are closed on fresh answers.

Two invariants stand beside it. `OpenerInv` is for `OneOpenLogEach`: an item a run is going to insert a log for has no open
log of that run (`InsertsItsFirst`), which holds since the run has looked, and only the run itself, which is at that item, could
have opened one since. `QuietInv` is for `QuietRunSettlesLogs`, and says of a quiet run, at each place of its code, what it knows:
nobody else runs and the items it has read are as they were (`Undisturbed`); it has not yet dropped an item it read
(`Unstarted`); its map says what the SSO service says (`Informed`); an item behind it has an open log or nothing to report
(`Reports`); a log that it should close is one that it is about to close (`Closes`). At the end there is nothing before it, and the last two are the property.
`QuietInv` assumes nothing of how the run found the table: duplicates and outdated logs left by earlier runs are covered.

*TranslationSync.* `IInv` is `TypeOK`, `HeldLists`, `HeldRows`, `SourceInTable`,
`SourceInMemory`, `CreationCovers`, `Samples` and `CompleteUnlessInterrupted`. The text of a marked row comes from
the source only if the texts in memory do: copies held by requests and runs
(`SourceInMemory`). An item is complete at the end of its creation only if, at each
step, what is present and what is still to do make up all the languages (`CreationCovers`), which needs that no
held list is empty and that rows that are held exist. `Samples` says that only brochures are samples and that none has a row in a
language it has no text in: nothing that could add one is ever at work on a sample. The proof first characterises who may write an
entry and what a request or run may become, and then takes each conjunct of `IInv` through these
facts instead of through the actions.
`QuietInv` is for `QuietRunSynchronises`, and says of each run while nothing else writes: the items behind it agree
with their Korean rows (`PassedAgree`), the text in its hands is the Korean text (`CarriesKorean`), and the marked rows it does not hold
already say so (`HoldsTheRest`). Other runs may be anywhere, with older copies of the rows: all they write is the Korean text into
marked rows (`OnlyCopies`), and such a step disturbs none of the three.

*WikiForest and WikiTree.* That there is no cycle is stated without paths: no nonempty set of live items hangs
in itself (`Forest`). The move lemma takes such a set after a move of `n` to `p` and removes the items at or below `n` from it:
what is left hung in itself before the move, and cannot be empty since `p` is in it. `WikiTree` implements
`WikiForest` by the identity on the tree: a fresh request was checked on the
tree it writes, so that what its check saw still holds (`Held`), and a request that is not fresh sets `crossed`. The
forest's invariant then holds of the wiki through the refinement, and gives `TreeShowsItems`: the items
above a live item that are not shown would form a set that hangs in itself.

*Survey.* `Steps` reduces the eighteen actions to nine kinds of step, and each property has an invariant of its own.
`SInv`: a request in flight refers to rows that exist. `FInv`: the list a request sends is known to nobody else, and what
it holds are questions of its survey. `WInv` (for `ListsWhole`): what a request holds are whole lists too,
so that taking them out of the table leaves whole lists. `OInv` (for `OneList`): a request that replaces the questions alone holds all
that there are (`KnowsAll`), and two that do so at once are remembered. `LInv` (for `QuestionsFollow`): until an
update and a deletion cross, a survey being updated is live and the deletion of a live one holds all its questions.
`KInv` (for `SurveyImplementsQuestionnaire`, with the others): a request that leaves the questions alone holds none. A commit then replaces
the identifiers of the survey's questions, or leaves them, and of the identifiers it brings none is anywhere else.
`LoneInv` (for `LoneUpdates`): an update no commit has crossed will write whatever the row does not say yet, and from its scan on it holds
every question of the survey, of whatever list. It asks nothing of how the survey looked before.

*Attachments.* `Ordered` is all that is asked of the scripts: an
edit reads before it purges, purges before it names other files, uploads what it will name, and is refused before the purge or
after the save; a creation inserts first. It depends on nothing but the kind and the text of the scripts, and is a lemma proved from that text. The provers
do not compute a script cut at a check and filtered by statements, so the proof goes by what comes before what: `Prior(s, i)` is what
stands before place `i` of a script, `Orderly` says of a whole script what each place may have before it, which is a matter of
looking at each of the texts, and `Follows` says that the places of a plan stand in the order of the script with the same things
before them, up to the statements of the machine. This last is an induction over the places, made with the well-foundedness of the naturals (`SetInduction`),
which needs no operator parameter. `FilesInv` is the type invariant with what requests know: a row still to be
inserted is known to its creation alone (`CreatesAlone`), purged files are gone (`PurgedGone`), uploaded ones are stored and nobody
else's until a row names them (`LooseStored`, `LoosePrivate`), and no file belongs to two contents (`Apart`), so that no request
purges a file of another content. `Stored` and `Kept` are `NamedFilesStored` and `NothingLeaks` file by file.

*Ordering.* That a plan is made of known statements and is not empty is the lemma `PlansType`, from `ContentsProofs`. `OrderInv` is `TypeOK`, `DistinctOrders`,
`OrdersAhead` and `Informed`. `OrdersAhead`: the order a lone creation holds is above the order of every live row that got
its own from a lone creation, which a save of an older copy cannot break as it gives up the mark (`given`). `Informed`: the rows
a reorder has written hold what it wrote unless others crossed, and a transaction holds only rows that come in its list before all those it
still waits for. No deadlock: take the highest rank at which a member of a deadlocked group waits; the member that holds that row waits
for one later in its own list, of a higher rank. That there is a highest is the well-foundedness of the natural numbers.

So every safety property and every refinement of the passing runs is a theorem. Model-checked only: liveness (`InactiveItemReported`, `ReactivatedLogResolved`,
`SyncedTextConverges`), which needs fairness and ENABLED, outside what
the prover handles (`QuietRunSettlesLogs` and `QuietRunSynchronises` are their safety halves: what an undisturbed run has achieved when it ends); and the three refuted statements, which are counterexamples.

## 5. What is not modelled, and the plan

Not modelled, because there is no state of the program in it: authentication, company
information, notifications, list and detail queries. Education management has entities only. The seed data
generator calls the operations of the other components, but for the answers of employees, which it inserts itself. The transaction manager is used by no service.

Left out of what is modelled, and why: read marks and dismissed logs are find-then-insert on tables that only hide entries; the completion of a
survey can never be inserted; the vote results of a meeting are rows the edit deletes, updates and inserts one by one at
its end, of which `Contents` keeps the place and the refusal; languages are a constant; the employee, rank and position lists
of an announcement are treated as its departments are.

Next, in this order:

1. Refinement: the abstract log table (open at most once, closed once) that
   `PermissionAudit` implements without overlap; the abstract table of
   announcements that read-check-write implements when copies are current.
2. Liveness of `Ordering`: a reorder of announcements is answered, as long as PostgreSQL breaks deadlocks.
3. The vote results of meetings, with their own translations, as a second table under `TranslationSync`.
