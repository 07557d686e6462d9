------------------------------ MODULE Contents ------------------------------
(***************************************************************************)
(* What a request on a content does, layer by layer: endpoint, business    *)
(* service, context handler, domain service.  Each definition is the       *)
(* sequence of what its code checks and awaits, in order; Attachments and  *)
(* Ordering run these sequences against each other.                        *)
(*                                                                         *)
(* A name of Await is a statement on the database or the storage.  Any     *)
(* other name is a check: it refuses the request that has that flaw and    *)
(* lets every other request pass.                                          *)
(***************************************************************************)
EXTENDS Naturals, Sequences

(* detail: read the row, 404 unless it is live.  purge: delete the files   *)
(* of the row read from the storage.  upload: store the files sent.  next: *)
(* read the highest order.  insert: insert the row, insertSample: one of   *)
(* the sample rows.  find: load the row, 404 unless it is live.  save...:  *)
(* write the loaded copy back, with new files, a new order, another        *)
(* publication or other changes.  remove: soft-delete the row.             *)
Await == {"detail", "purge", "upload", "next", "insert", "insertSample",
          "find", "saveFiles", "saveOrder", "savePublic", "saveRest", "remove"}

(* How a list of new orders is written: the rows are found one after the   *)
(* other, at once, or at once in a transaction that locks what it updates; *)
(* an item that is missing is skipped, ends the loop or refuses the list.  *)
Manner == [reads : {"inTurn", "atOnce", "locking"},
           missing : {"skipped", "ends", "refuses"}]
-----------------------------------------------------------------------------
(* News: a title, no translations. *)
NewsDetail == <<"detail">>
NewsNext == <<"next">>
NewsInsert == <<"insert">>
NewsUpdate(save) == <<"find", save>>
NewsSoftRemove == <<"find", "remove">>
NewsCreateRow == NewsNext \o NewsInsert
NewsCreateAll == <<"upload">> \o NewsCreateRow \o NewsDetail
NewsCreate == <<"title">> \o NewsCreateAll
NewsSetFiles == <<"find", "saveFiles">>
NewsSetText == NewsUpdate("saveRest")
(* Mutant: the new files are never written to the row. *)
NewsEditAllUnsaved == NewsDetail \o <<"purge", "upload">> \o NewsSetText
NewsEditAll == NewsDetail \o <<"purge", "upload">> \o NewsSetFiles \o NewsSetText
NewsEdit == <<"uuid", "title">> \o NewsEditAll
NewsSetPublic == NewsUpdate("savePublic")
NewsPublish == <<"flag", "uuid">> \o NewsSetPublic
NewsRemove == <<"uuid">> \o NewsSoftRemove
NewsReorder == [reads |-> "inTurn", missing |-> "skipped"]

(* Lumir stories: a title and a content. *)
LumirDetail == <<"detail">>
LumirNext == <<"next">>
LumirInsert == <<"insert">>
LumirUpdate(save) == <<"find", save>>
LumirSoftRemove == <<"find", "remove">>
LumirCreateRow == LumirNext \o LumirInsert
LumirCreateAll == <<"upload">> \o LumirCreateRow \o LumirDetail
LumirCreate == <<"title", "content">> \o LumirCreateAll
LumirSetFiles == <<"find", "saveFiles">>
LumirSetText == LumirUpdate("saveRest")
(* Mutant: the old files are not deleted. *)
LumirEditAllKeeping ==
    LumirDetail \o <<"upload">> \o LumirSetFiles \o LumirSetText
LumirEditAll == LumirDetail \o <<"purge", "upload">> \o LumirSetFiles \o LumirSetText
LumirEdit == <<"title", "content">> \o LumirEditAll
LumirSetPublic == LumirUpdate("savePublic")
LumirPublish == <<"flag">> \o LumirSetPublic
LumirRemove == LumirSoftRemove
LumirReorder == [reads |-> "atOnce", missing |-> "refuses"]

(* Video galleries: uploaded videos and links.  The endpoint parses the    *)
(* links ("json"); the business service goes through them when the videos  *)
(* are stored, and fails when they are no array of strings ("links").      *)
VideoDetail == <<"detail">>
VideoNext == <<"next">>
VideoInsert == <<"insert">>
VideoUpdate(save) == <<"find", save>>
VideoSoftRemove == <<"find", "remove">>
VideoCreateRow == VideoNext \o VideoInsert
VideoCreateAll == <<"upload", "links">> \o VideoCreateRow \o VideoDetail
VideoCreate == <<"title", "json">> \o VideoCreateAll
VideoSetFiles == <<"find", "saveFiles">>
VideoSetText == VideoUpdate("saveRest")
VideoEditAll ==
    VideoDetail \o <<"purge", "upload", "links">> \o VideoSetFiles \o VideoSetText
(* Mutant: the links are parsed when the old files are gone. *)
VideoEditParsing ==
    <<"title">> \o VideoDetail \o <<"purge", "json", "upload", "links">>
      \o VideoSetFiles \o VideoSetText
VideoEdit == <<"title", "json">> \o VideoEditAll
VideoSetPublic == VideoUpdate("savePublic")
VideoPublish == <<"flag">> \o VideoSetPublic
VideoRemove == VideoSoftRemove
VideoReorder == [reads |-> "inTurn", missing |-> "skipped"]

(* Brochures: translations, checked in full only by the handler. *)
BrochureDetail == <<"detail">>
BrochureNext == <<"next">>
BrochureInsert == <<"insert">>
BrochureUpdate(save) == <<"find", save>>
BrochureSoftRemove == <<"find", "remove">>
BrochureCreateRow ==
    <<"languageId", "title", "language", "twice">> \o BrochureNext \o BrochureInsert
BrochureCreateAll == <<"upload">> \o BrochureCreateRow \o BrochureDetail
BrochureCreate == <<"translations">> \o BrochureCreateAll
BrochureSetFiles == <<"find", "saveFiles">>
BrochureSetText == <<"find", "saveRest">>
BrochureEditAll ==
    BrochureDetail \o <<"purge", "upload">> \o BrochureSetFiles \o BrochureSetText
BrochureEdit == <<"translations">> \o BrochureEditAll
BrochureSetPublic == BrochureUpdate("savePublic")
BrochurePublish == <<"flag">> \o BrochureSetPublic
BrochureRemove == BrochureSoftRemove
BrochureSamples == <<"insertSample">> \o BrochureDetail
(* The samples are removed one by one, as any brochure is. *)
BrochureRemoveSamples == BrochureSoftRemove
BrochureReorder == [reads |-> "atOnce", missing |-> "refuses"]

(* Electronic disclosures, IR documents, main popups and shareholders      *)
(* meetings: translations checked by the endpoint, their languages by the  *)
(* context once the files are stored, or by the database at the end.       *)
DisclosureDetail == <<"detail">>
DisclosureNext == <<"next">>
DisclosureInsert == <<"insert">>
DisclosureUpdate(save) == <<"find", save>>
DisclosureSoftRemove == <<"find", "remove">>
DisclosureCreateRow == <<"language", "twice">> \o DisclosureNext \o DisclosureInsert
DisclosureCreateAll == <<"upload">> \o DisclosureCreateRow
DisclosureCreate == <<"translations", "languageId", "title">> \o DisclosureCreateAll
DisclosureSetFiles == DisclosureUpdate("saveFiles")
DisclosureSetText == DisclosureUpdate("saveRest") \o <<"language">>
DisclosureEditAll ==
    DisclosureDetail \o <<"purge", "upload">> \o DisclosureSetFiles \o DisclosureSetText
DisclosureEdit == <<"uuid", "translations", "languageId", "title">> \o DisclosureEditAll
DisclosureSetPublic == DisclosureUpdate("savePublic")
DisclosurePublish == <<"uuid">> \o DisclosureSetPublic
DisclosureRemove == <<"uuid">> \o DisclosureSoftRemove
DisclosureReorder == [reads |-> "atOnce", missing |-> "refuses"]

IrDetail == <<"detail">>
IrNext == <<"next">>
IrInsert == <<"insert">>
IrUpdate(save) == <<"find", save>>
IrSoftRemove == <<"find", "remove">>
IrCreateRow == <<"language", "twice">> \o IrNext \o IrInsert
IrCreateAll == <<"upload">> \o IrCreateRow
IrCreate == <<"translations", "languageId", "title">> \o IrCreateAll
IrSetFiles == IrUpdate("saveFiles")
IrSetText == IrUpdate("saveRest") \o <<"language">>
IrEditAll == IrDetail \o <<"purge", "upload">> \o IrSetFiles \o IrSetText
IrEdit == <<"uuid", "translations", "languageId", "title">> \o IrEditAll
IrSetPublic == IrUpdate("savePublic")
IrPublish == <<"uuid">> \o IrSetPublic
IrRemove == <<"uuid">> \o IrSoftRemove
IrReorder == [reads |-> "atOnce", missing |-> "refuses"]

PopupDetail == <<"detail">>
PopupNext == <<"next">>
PopupInsert == <<"insert">>
PopupUpdate(save) == <<"find", save>>
PopupSoftRemove == <<"find", "remove">>
PopupCreateRow == <<"language", "twice">> \o PopupNext \o PopupInsert
PopupCreateAll == <<"upload">> \o PopupCreateRow
PopupCreate == <<"translations", "languageId", "title">> \o PopupCreateAll
PopupSetFiles == PopupUpdate("saveFiles")
(* The list of translations is read once: a new language sent twice breaks *)
(* the unique index ("twice"), when the row is saved.                      *)
PopupSetText == PopupUpdate("saveRest") \o <<"language", "twice">>
PopupEditAll == PopupDetail \o <<"purge", "upload">> \o PopupSetFiles \o PopupSetText
PopupEdit == <<"uuid", "translations", "languageId", "title">> \o PopupEditAll
PopupSetPublic == PopupUpdate("savePublic")
PopupPublish == <<"uuid", "flag">> \o PopupSetPublic
PopupRemove == <<"uuid">> \o PopupSoftRemove
(* Mutant: the list is written in turn, up to a row that is missing. *)
PopupReorderInTurn == [reads |-> "inTurn", missing |-> "ends"]
PopupReorder == [reads |-> "atOnce", missing |-> "refuses"]

(* The votes of a meeting come last, one after the other: an edit that     *)
(* names an unknown vote is refused there ("vote").                        *)
MeetingDetail == <<"detail">>
MeetingNext == <<"next">>
MeetingInsert == <<"insert">>
MeetingUpdate(save) == <<"find", save>>
MeetingSoftRemove == <<"find", "remove">>
MeetingCreateRow == <<"language", "twice">> \o MeetingNext \o MeetingInsert
MeetingCreateAll == <<"upload">> \o MeetingCreateRow
MeetingCreate ==
    <<"translations", "title", "languageId", "location", "date", "votes">> \o MeetingCreateAll
MeetingSetFiles == MeetingUpdate("saveFiles")
MeetingFindVote == <<"vote">>
MeetingSetVotes == MeetingFindVote
MeetingSetText == MeetingUpdate("saveRest") \o <<"language">> \o MeetingSetVotes
MeetingEditAll ==
    MeetingDetail \o <<"purge", "upload">> \o MeetingSetFiles \o MeetingSetText
MeetingEdit ==
    <<"uuid", "translations", "title", "date", "votes">> \o MeetingEditAll
MeetingSetPublic == MeetingUpdate("savePublic")
MeetingPublish == <<"uuid", "flag">> \o MeetingSetPublic
MeetingRemove == <<"uuid">> \o MeetingSoftRemove
MeetingReorder == [reads |-> "inTurn", missing |-> "ends"]

(* Files of the wiki: the parent is a foreign key, and removing the file   *)
(* removes what is attached to it.                                         *)
WikiDetail == <<"detail">>
WikiInsert == <<"parent", "insert">>
WikiUpdate(save) == <<"find", save>>
WikiSoftRemove == <<"find", "remove">>
WikiCreateAll == <<"upload">> \o WikiInsert \o WikiDetail
WikiCreate == <<"name">> \o WikiCreateAll
WikiCreateEmptyAll == WikiInsert \o WikiDetail
WikiCreateEmpty == <<"name", "flag">> \o WikiCreateEmptyAll
WikiSetFiles == WikiUpdate("saveFiles")
WikiEditAll ==
    WikiDetail \o <<"purge", "upload">> \o WikiSetFiles \o WikiUpdate("saveRest")
WikiEdit == <<"name">> \o WikiEditAll
WikiSetParent == <<"find", "descendant", "parent", "saveRest">>
WikiMove == WikiSetParent
WikiSetPublic == WikiUpdate("savePublic")
WikiPublish == <<"flag">> \o WikiSetPublic
WikiRemove == WikiDetail \o <<"purge">> \o WikiSoftRemove

(* Announcements: no files, and order 0 for a new one; their edits are in   *)
(* module Announcement.                                                    *)
AnnouncementCreate == <<"insert">>
AnnouncementRemove == <<"find", "published", "remove">>
AnnouncementPublish == <<"find", "incomplete", "savePublic">>
AnnouncementReorder == [reads |-> "locking", missing |-> "refuses"]

(* Categories of contents: one table for all the sections of the site.     *)
(* Their endpoints do the same and differ in what they check before it.    *)
CategoryInsert == <<"insert">>
CategoryUpdate(save) == <<"find", save>>
CategorySoftRemove == <<"find", "remove">>
CategoryOps == [create |-> CategoryInsert, edit |-> CategoryUpdate("savePublic"),
                order |-> CategoryUpdate("saveOrder"), remove |-> CategorySoftRemove]
Checked(ops, checks) ==
    [op \in DOMAIN CategoryOps |->
       IF op \in ops THEN checks \o CategoryOps[op] ELSE CategoryOps[op]]
NewsCategories == Checked({"edit", "order", "remove"}, <<"uuid">>)
LumirCategories == CategoryOps
VideoCategories == CategoryOps
BrochureCategories == CategoryOps
DisclosureCategories == Checked({"edit", "order", "remove"}, <<"uuid">>)
IrCategories ==
    [Checked({"edit", "order", "remove"}, <<"uuid">>) EXCEPT !.create = <<"name">> \o @]
PopupCategories ==
    [Checked({"remove"}, <<"uuid">>) EXCEPT !.create = <<"name", "description", "order">> \o @,
                                            !.order = <<"order">> \o @]
MeetingCategories ==
    [Checked({"edit", "order", "remove"}, <<"uuid">>) EXCEPT !.create = <<"name">> \o @]
AnnouncementCategories == CategoryOps
-----------------------------------------------------------------------------
Script ==
    [news |-> [create |-> NewsCreate, edit |-> NewsEdit,
               publish |-> NewsPublish, remove |-> NewsRemove],
     lumir |-> [create |-> LumirCreate, edit |-> LumirEdit,
                publish |-> LumirPublish, remove |-> LumirRemove],
     video |-> [create |-> VideoCreate, edit |-> VideoEdit,
                publish |-> VideoPublish, remove |-> VideoRemove],
     brochure |-> [create |-> BrochureCreate, sample |-> BrochureSamples,
                   edit |-> BrochureEdit, publish |-> BrochurePublish,
                   remove |-> BrochureRemove, removeSample |-> BrochureRemoveSamples],
     disclosure |-> [create |-> DisclosureCreate, edit |-> DisclosureEdit,
                     publish |-> DisclosurePublish, remove |-> DisclosureRemove],
     ir |-> [create |-> IrCreate, edit |-> IrEdit,
             publish |-> IrPublish, remove |-> IrRemove],
     popup |-> [create |-> PopupCreate, edit |-> PopupEdit,
                publish |-> PopupPublish, remove |-> PopupRemove],
     meeting |-> [create |-> MeetingCreate, edit |-> MeetingEdit,
                  publish |-> MeetingPublish, remove |-> MeetingRemove],
     wiki |-> [create |-> WikiCreate, empty |-> WikiCreateEmpty, edit |-> WikiEdit,
               move |-> WikiMove, publish |-> WikiPublish, remove |-> WikiRemove],
     announcement |-> [create |-> AnnouncementCreate, publish |-> AnnouncementPublish,
                       remove |-> AnnouncementRemove]]

Reorder ==
    [news |-> NewsReorder, lumir |-> LumirReorder, video |-> VideoReorder,
     brochure |-> BrochureReorder, disclosure |-> DisclosureReorder,
     ir |-> IrReorder, popup |-> PopupReorder, meeting |-> MeetingReorder,
     announcement |-> AnnouncementReorder]

Categories ==
    [news |-> NewsCategories, lumir |-> LumirCategories, video |-> VideoCategories,
     brochure |-> BrochureCategories, disclosure |-> DisclosureCategories,
     ir |-> IrCategories, popup |-> PopupCategories, meeting |-> MeetingCategories,
     announcement |-> AnnouncementCategories]

(* What is left of a script for a request with a flaw, as far as a machine *)
(* that interprets the statements of steps sees it: the statements before  *)
(* the check that refuses it, and the refusal.                             *)
Names(s) == {s[i] : i \in DOMAIN s}
Flaws(s) == {"none"} \cup (Names(s) \ Await)
Before(s, name) ==
    SubSeq(s, 1, (CHOOSE i \in DOMAIN s : s[i] = name /\ \A j \in 1..(i - 1) : s[j] # name) - 1)
(* The elements of s that are in steps, in order: a recursive function, as *)
(* the provers know nothing of SelectSeq.                                  *)
Chosen(s, steps) ==
    LET part[i \in 0..Len(s)] ==
          IF i = 0 THEN <<>>
          ELSE IF s[i] \in steps THEN Append(part[i - 1], s[i]) ELSE part[i - 1]
    IN  part[Len(s)]
Plan(s, flaw, steps) ==
    IF flaw = "none" THEN Chosen(s, steps)
    ELSE Chosen(Before(s, flaw), steps) \o <<"refuse">>
=============================================================================
