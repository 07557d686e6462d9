---------------------------- MODULE Attachments -----------------------------
(***************************************************************************)
(* The files of a content: rows of the database that name files of the     *)
(* storage, and requests that run the scripts of Contents statement by     *)
(* statement, with no transaction over the two.  An edit replaces all the  *)
(* files: it purges the old ones, uploads the new ones and only then       *)
(* writes the row.                                                         *)
(***************************************************************************)
EXTENDS Contents, FiniteSets

CONSTANTS Content,  \* rows a table may get
          File,     \* names in the storage; no name is given twice
          Editor,   \* requests under way at a time
          Kinds,    \* kinds of content to look at
          Storages  \* "s3" or "local"

StoredKinds == {"news", "lumir", "video", "brochure", "disclosure", "ir",
                "popup", "meeting", "wiki"}

ASSUME KindsAssumption == Kinds \subseteq StoredKinds

VARIABLES system,  \* the kind of content and the storage of this process
          row,     \* the table
          store,   \* the files that are stored
          request, \* what each request runs, and what it holds in memory
          torn,    \* contents that may name a file that is gone, see Tears
          lost     \* files a failure, a refusal or a stale save leaves behind

vars == <<system, row, store, request, torn, lost>>

(* The statements this machine runs.  It does not tell the columns that    *)
(* are no files apart: they are saved by one action, SaveBack.             *)
Steps == {"detail", "purge", "upload", "insert", "insertSample", "find",
          "saveFiles", "savePublic", "saveRest", "remove"}
Saves == {"savePublic", "saveRest"}
Inserts == {"insert", "insertSample"}
Writes == Inserts \cup Saves \cup {"saveFiles", "remove"}
Creating == {"create", "sample", "empty"}

Plans == [k \in StoredKinds |-> [op \in DOMAIN Script[k] |->
            {Plan(Script[k][op], flaw, Steps) : flaw \in Flaws(Script[k][op])}]]
AllPlans == UNION {UNION {Plans[k][op] : op \in DOMAIN Plans[k]} : k \in StoredKinds}

Row == [at : {"absent", "live", "deleted"}, files : SUBSET File]

(* seen: the files detail read.  copy: the files of the row find loaded.   *)
(* up: the files uploaded.                                                 *)
Request == [item : Content, plan : AllPlans, n : Nat \ {0},
            seen : SUBSET File, copy : SUBSET File, up : SUBSET File]
Idle == [plan |-> <<>>]
-----------------------------------------------------------------------------
Busy(e) == request[e].plan # <<>>
At(e, step) == Busy(e) /\ request[e].plan[request[e].n] = step
On(c) == {e \in Editor : Busy(e) /\ request[e].item = c}

Done(r) == {r.plan[i] : i \in 1..(r.n - 1)}
Pending(r) == {r.plan[i] : i \in r.n..Len(r.plan)}

(* Between the purge of the old files and the statement that makes the row *)
(* forget them; what happens there leaves the row naming purged files.     *)
Mid(r) == "purge" \in Done(r) /\ Done(r) \cap {"saveFiles", "remove"} = {}
Tears(r) ==
    /\ Mid(r)
    /\ row[r.item].at = "live"
    /\ row[r.item].files \cap r.seen # {}

(* Uploaded, and in no row yet. *)
Loose(r) == IF Done(r) \cap {"insert", "saveFiles"} = {} THEN r.up ELSE {}

Held(r) == r.seen \cup r.copy \cup r.up
InUse == (UNION {row[c].files : c \in Content})
           \cup (UNION {Held(request[e]) : e \in {d \in Editor : Busy(d)}})
Fresh == File \ (store \cup lost \cup InUse)
-----------------------------------------------------------------------------
Init ==
    /\ system \in [kind : Kinds, storage : Storages]
    /\ row = [c \in Content |-> [at |-> "absent", files |-> {}]]
    /\ store = {}
    /\ request = [e \in Editor |-> Idle]
    /\ torn = {}
    /\ lost = {}

(* A request arrives, with the flaw its checks will find or none.  Nobody  *)
(* knows the identifier of a row before it is inserted.                    *)
Start(e, c) ==
    /\ ~Busy(e)
    /\ \E op \in DOMAIN Plans[system.kind] :
         /\ IF op \in Creating
            THEN row[c].at = "absent" /\ On(c) = {}
            ELSE row[c].at # "absent"
         /\ \E plan \in Plans[system.kind][op] :
              request' = [request EXCEPT ![e] =
                 [item |-> c, plan |-> plan, n |-> 1, seen |-> {}, copy |-> {}, up |-> {}]]
    /\ UNCHANGED <<system, row, store, torn, lost>>

(* Mutant: a request that goes on after its last statement. *)
GoesOn(e, r) == request' = [request EXCEPT ![e] = [r EXCEPT !.n = r.n + 1]]

(* The request e goes on with r in memory, or ends. *)
Goes(e, r) ==
    request' = [request EXCEPT ![e] =
                  IF r.n = Len(r.plan) THEN Idle ELSE [r EXCEPT !.n = r.n + 1]]

(* The request e ends before its script does. *)
Stops(e) ==
    /\ request' = [request EXCEPT ![e] = Idle]
    /\ lost' = lost \cup Loose(request[e])

NotFound(e) ==
    /\ At(e, "detail") \/ At(e, "find")
    /\ row[request[e].item].at # "live"
    /\ Stops(e)
    /\ UNCHANGED <<system, row, store, torn>>

Detail(e) ==
    /\ At(e, "detail")
    /\ row[request[e].item].at = "live"
    /\ Goes(e, [request[e] EXCEPT !.seen = row[request[e].item].files])
    /\ UNCHANGED <<system, row, store, torn, lost>>

Purge(e) ==
    /\ At(e, "purge")
    /\ system.storage = "s3" \/ request[e].seen \subseteq store
    /\ store' = store \ request[e].seen
    /\ Goes(e, request[e])
    /\ UNCHANGED <<system, row, torn, lost>>

(* The local storage refuses to delete a file it does not have; the other  *)
(* deletions of the list are under way and take place.                     *)
PurgeMissing(e) ==
    /\ At(e, "purge")
    /\ system.storage = "local" /\ ~ (request[e].seen \subseteq store)
    /\ store' = store \ request[e].seen
    /\ torn' = IF row[request[e].item].files \cap request[e].seen # {}
               THEN torn \cup {request[e].item} ELSE torn
    /\ Stops(e)
    /\ UNCHANGED <<system, row>>

Upload(e) ==
    /\ At(e, "upload")
    /\ \E new \in SUBSET Fresh :
         /\ store' = store \cup new
         /\ Goes(e, [request[e] EXCEPT !.up = new])
    /\ UNCHANGED <<system, row, torn, lost>>

Insert(e) ==
    /\ At(e, "insert")
    /\ row' = [row EXCEPT ![request[e].item] = [at |-> "live", files |-> request[e].up]]
    /\ Goes(e, request[e])
    /\ UNCHANGED <<system, store, torn, lost>>

(* The sample brochures name a file at an address outside the storage. *)
InsertSample(e) ==
    /\ At(e, "insertSample")
    /\ \E f \in Fresh :
         row' = [row EXCEPT ![request[e].item] = [at |-> "live", files |-> {f}]]
    /\ torn' = torn \cup {request[e].item}
    /\ Goes(e, request[e])
    /\ UNCHANGED <<system, store, lost>>

Find(e) ==
    /\ At(e, "find")
    /\ row[request[e].item].at = "live"
    /\ Goes(e, [request[e] EXCEPT !.copy = row[request[e].item].files])
    /\ UNCHANGED <<system, row, store, torn, lost>>

(* The copy is written with its new files.  Files another request gave the *)
(* row since this one read it were not purged, and nothing names them now. *)
SaveFiles(e) ==
    LET r == request[e]
    IN  /\ At(e, "saveFiles")
        /\ row' = [row EXCEPT ![r.item] = [at |-> "live", files |-> r.up]]
        /\ torn' = torn \ {r.item}
        /\ lost' = lost \cup (row[r.item].files \ r.seen)
        /\ Goes(e, r)
        /\ UNCHANGED <<system, store>>

(* The copy is written with other changes: what another request did to the *)
(* row since it was loaded is undone, a deletion too.                      *)
SaveBack(e) ==
    LET r == request[e]
        stale == row[r.item].files # r.copy \/ row[r.item].at # "live"
    IN  /\ \E save \in Saves : At(e, save)
        /\ row' = [row EXCEPT ![r.item] = [at |-> "live", files |-> r.copy]]
        /\ torn' = IF stale THEN torn \cup {r.item} ELSE torn
        /\ lost' = lost \cup (row[r.item].files \ r.copy)
        /\ Goes(e, r)
        /\ UNCHANGED <<system, store>>

Remove(e) ==
    /\ At(e, "remove")
    /\ row' = [row EXCEPT ![request[e].item].at = "deleted"]
    /\ Goes(e, request[e])
    /\ UNCHANGED <<system, store, torn, lost>>

(* A check finds the flaw of the request. *)
Refuse(e) ==
    /\ At(e, "refuse")
    /\ torn' = IF Tears(request[e]) THEN torn \cup {request[e].item} ELSE torn
    /\ Stops(e)
    /\ UNCHANGED <<system, row, store>>

(* A statement fails, or the process stops.  Deletions and uploads go out  *)
(* in parallel, so some of a list may have taken place.                    *)
Fail(e) ==
    LET r == request[e]
    IN  /\ Busy(e)
        /\ \E gone \in SUBSET (IF At(e, "purge") THEN r.seen ELSE {}),
              new \in SUBSET (IF At(e, "upload") THEN Fresh ELSE {}) :
             /\ store' = (store \ gone) \cup new
             /\ torn' = IF Tears(r) \/ row[r.item].files \cap gone # {}
                        THEN torn \cup {r.item} ELSE torn
             /\ lost' = lost \cup Loose(r) \cup new
        /\ request' = [request EXCEPT ![e] = Idle]
        /\ UNCHANGED <<system, row>>

Step(e) ==
    \/ \E c \in Content : Start(e, c)
    \/ NotFound(e) \/ Detail(e) \/ Purge(e) \/ PurgeMissing(e) \/ Upload(e)
    \/ Insert(e) \/ InsertSample(e) \/ Find(e) \/ SaveFiles(e) \/ SaveBack(e)
    \/ Remove(e) \/ Refuse(e) \/ Fail(e)

Next == \E e \in Editor : Step(e)

Spec == Init /\ [][Next]_vars
-----------------------------------------------------------------------------
TypeOK ==
    /\ system \in [kind : Kinds, storage : Storages]
    /\ row \in [Content -> Row]
    /\ store \subseteq File
    /\ request \in [Editor -> Request \cup {Idle}]
    /\ \A e \in Editor : Busy(e) => request[e].n \in DOMAIN request[e].plan
    /\ torn \subseteq Content
    /\ lost \subseteq File

(* What an edit of a video gallery runs when its links are no array of     *)
(* strings.                                                                *)
BadLinks == Plan(VideoEdit, "links", Steps)

(* What the scripts owe each other: an edit reads the files before it      *)
(* purges them and purges them before it names others; what is uploaded is *)
(* named unless the request is refused; only a creation inserts, and it    *)
(* does so before anything else is written.                                *)
Ordered(k) ==
    \A op \in DOMAIN Plans[k] : \A plan \in Plans[k][op] :
      LET Earlier(i) == {plan[j] : j \in 1..(i - 1)}
          Has(name) == \E i \in DOMAIN plan : plan[i] = name
      IN  /\ plan \in Seq(Steps \cup {"refuse"}) \ {<<>>}
          /\ \A i \in DOMAIN plan :
               /\ plan[i] = "detail" => "purge" \notin Earlier(i)
               /\ plan[i] = "purge" =>
                    Earlier(i) \cap {"purge", "saveFiles", "remove"} = {}
               /\ plan[i] = "upload" =>
                    Earlier(i) \cap {"upload", "insert", "saveFiles"} = {}
               /\ plan[i] = "saveFiles" =>
                    "purge" \in Earlier(i) /\ Earlier(i) \cap {"insert", "saveFiles"} = {}
               /\ plan[i] \in Inserts =>
                    op \in Creating /\ Earlier(i) \cap Writes = {}
               /\ plan[i] = "refuse" /\ ~ (k = "video" /\ plan = BadLinks)
                  /\ "purge" \in Earlier(i) =>
                    Earlier(i) \cap {"saveFiles", "remove"} # {}
          /\ plan[Len(plan)] # "refuse" =>
               /\ Has("upload") => Has("insert") \/ Has("saveFiles")
               /\ Has("purge") => Has("saveFiles") \/ Has("remove")

(* Every file a live content names is stored, or has been purged by a      *)
(* request that is about to replace it, or the content is torn: a request  *)
(* failed between the purge and the save, or a save wrote back a copy      *)
(* older than the last replacement.  Two requests that merely cross tear   *)
(* nothing.                                                                *)
NamedFilesStored ==
    \A c \in Content : row[c].at = "live" /\ c \notin torn =>
        row[c].files \subseteq
            store \cup (UNION {request[e].seen : e \in {d \in On(c) : Mid(request[d])}})

(* Every stored file is named by a row or held by a request that will name *)
(* it, unless a failure, a refusal after the upload or a save over a newer *)
(* replacement left it behind: a request that completes cleans up.         *)
NothingLeaks ==
    store \subseteq lost \cup (UNION {row[c].files : c \in Content})
                         \cup (UNION {Loose(request[e]) : e \in {d \in Editor : Busy(d)}})

(* A request that is going to be refused has purged no file its row still  *)
(* names: every check of the edits comes before the purge or after the row *)
(* is saved, except the one on the links of a video gallery, which comes   *)
(* when the new videos are stored.                                         *)
RefusedBeforePurge ==
    \A e \in Editor : At(e, "refuse") /\ Tears(request[e]) =>
        system.kind = "video" /\ request[e].plan = BadLinks
=============================================================================
