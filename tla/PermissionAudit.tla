-------------------------- MODULE PermissionAudit ---------------------------
(***************************************************************************)
(* The permission audit over the announcements                             *)
(* (src/src/context/announcement-context/announcement-permission.scheduler.ts*)
(* and its twin wiki-permission.scheduler.ts).                             *)
(*                                                                         *)
(* A run reads the live items, asks the SSO service about the departments  *)
(* they list, closes the open logs whose departments are active again, and *)
(* opens a log for every item with an inactive department.  The cron job,  *)
(* the manual endpoint and the list endpoints all start runs, and nothing  *)
(* keeps two runs apart; every await lets the others in.                   *)
(***************************************************************************)
EXTENDS Announcement, FiniteSets

CONSTANTS
    Run,             \* runs that may be in progress at once
    LogId,           \* identifiers the log table may still hand out
    BatchSize,       \* items checked in parallel (10 in the code)
    ErrorsIsolated,  \* TRUE: announcements, a failed item is skipped;
                     \* FALSE: wiki, a failed item ends the run
    MaxChanges       \* bound: changes by SSO, requests, faults and restarts

ASSUME BatchAssumption == BatchSize \in Nat \ {0}
ASSUME ErrorsAssumption == ErrorsIsolated \in BOOLEAN
ASSUME ChangesAssumption == MaxChanges \in Nat

VARIABLES
    sso,          \* sso[d]: what the SSO service knows of department d
    log,          \* log[l]: the permission log table
    pc,           \* pc[r]: where run r is
    seen,         \* seen[r][i]: departments of item i when r read the items
    due,          \* due[r]: items r has read and not started to check
    ask,          \* ask[r]: departments r still has to ask about one by one
    answer,       \* answer[r][d]: r's map from departments to their info
    resolve,      \* resolve[r]: open logs r is going to close
    batch,        \* batch[r]: items about to look for an open log
    insert,       \* insert[r]: items that found none and will insert one
    changes,      \* how much of MaxChanges is used
    quiet,        \* history: the run alone and undisturbed since it began
    everInactive, \* history: departments that have been inactive
    overlap,      \* history: two runs have been in progress at once
    seenActive,   \* history: departments seen active since log l was made
    opener        \* history: the run that opened log l

runvars == <<pc, seen, due, ask, answer, resolve, batch, insert>>
calm == <<changes, quiet>>
auxvars == <<everInactive, overlap, seenActive, opener>>
vars == <<avars, sso, log, runvars, calm, auxvars>>

SsoState == {"active", "inactive", "gone"}
Info == {"active", "inactive", "none"}
NoLog == [status |-> "none", item |-> "none", invalid |-> {}, by |-> "none"]
Log == [status : {"detected", "resolved"}, item : Item, invalid : SUBSET Dept,
        by : {"nobody", "admin"}]

Open(l) == log[l].status = "detected"
Exists(l) == log[l] # NoLog

(* Faulty variant: a deleted department is not mapped to null. *)
ReplyUnmapped(d) == sso[d]

Reply(d) == IF sso[d] = "gone" THEN "none" ELSE sso[d]
Listed(r) == UNION {seen[r][i] : i \in due[r]}

(* Faulty variants: missing information counts as invalid; missing         *)
(* information counts as active; every department asked about must be      *)
(* active again, not only the ones the log names.                          *)
InvalidIfMissing(r, i) == {d \in seen[r][i] : answer[r][d] # "active"}
ReactivatedIfMissing(r, l) == \A d \in log[l].invalid : answer[r][d] # "inactive"
ReactivatedIfAll(r, l) == \A d \in Listed(r) : answer[r][d] = "active"

(* Missing information counts as valid: only isActive = false is invalid. *)
Invalid(r, i) == {d \in seen[r][i] : answer[r][d] = "inactive"}
Reactivated(r, l) == \A d \in log[l].invalid : answer[r][d] = "active"

(* A change by others, or a fault, that a run may run into. *)
Changed ==
    /\ changes < MaxChanges
    /\ changes' = changes + 1
    /\ quiet' = {}
-----------------------------------------------------------------------------
Init ==
    /\ AInit
    /\ sso \in [Dept -> SsoState]
    /\ log = [l \in LogId |-> NoLog]
    /\ pc = [r \in Run |-> "idle"]
    /\ seen = [r \in Run |-> [i \in Item |-> {}]]
    /\ due = [r \in Run |-> {}]
    /\ ask = [r \in Run |-> {}]
    /\ answer = [r \in Run |-> [d \in Dept |-> "none"]]
    /\ resolve = [r \in Run |-> {}]
    /\ batch = [r \in Run |-> {}]
    /\ insert = [r \in Run |-> {}]
    /\ changes = 0
    /\ quiet = {}
    /\ everInactive = {d \in Dept : sso[d] = "inactive"}
    /\ overlap = FALSE
    /\ seenActive = [l \in LogId |-> {}]
    /\ opener = [l \in LogId |-> "nobody"]

(* 1-2. Read the live items and collect their departments. *)
StartRun(r) ==
    /\ pc[r] = "idle"
    /\ Live # {}
    /\ LET held == [i \in Item |-> IF i \in Live THEN Range(row[i].depts) ELSE {}] IN
         /\ seen' = [seen EXCEPT ![r] = held]
         /\ pc' = [pc EXCEPT ![r] = IF \A i \in Item : held[i] = {} THEN "logs" ELSE "sso"]
    /\ due' = [due EXCEPT ![r] = Live]
    /\ overlap' = (overlap \/ \E q \in Run \ {r} : pc[q] # "idle")
    /\ quiet' = {q \in {r} : \A p \in Run \ {r} : pc[p] = "idle"}
    /\ UNCHANGED <<avars, sso, log, ask, answer, resolve, batch, insert, changes,
                   everInactive, seenActive, opener>>

(* A run that finds no live item returns at once. *)
EmptyRun(r) == pc[r] = "idle" /\ Live = {} /\ UNCHANGED vars

(* History: the logs that exist have now been seen with these active. *)
SawActive(D) == seenActive' = [l \in LogId |-> IF Exists(l) THEN seenActive[l] \cup D
                                                          ELSE seenActive[l]]

(* 3. The SSO service answers for all the departments at once. *)
BulkAnswer(r) ==
    /\ pc[r] = "sso"
    /\ answer' = [answer EXCEPT ![r] =
                    [d \in Dept |-> IF d \in Listed(r) THEN Reply(d) ELSE "none"]]
    /\ SawActive({d \in Listed(r) : Reply(d) = "active"})
    /\ pc' = [pc EXCEPT ![r] = "logs"]
    /\ UNCHANGED <<avars, sso, log, seen, due, ask, resolve, batch, insert, calm,
                   everInactive, overlap, opener>>

(* The bulk call fails: fall back to one call for each department. *)
BulkFails(r) ==
    /\ pc[r] = "sso"
    /\ Changed
    /\ ask' = [ask EXCEPT ![r] = Listed(r)]
    /\ pc' = [pc EXCEPT ![r] = "each"]
    /\ UNCHANGED <<avars, sso, log, seen, due, answer, resolve, batch, insert, auxvars>>

(* The call for one department answers. *)
AskOne(r, d) ==
    /\ pc[r] = "each"
    /\ d \in ask[r]
    /\ answer' = [answer EXCEPT ![r][d] = Reply(d)]
    /\ SawActive(IF Reply(d) = "active" THEN {d} ELSE {})
    /\ ask' = [ask EXCEPT ![r] = @ \ {d}]
    /\ pc' = [pc EXCEPT ![r] = IF ask[r] = {d} THEN "logs" ELSE "each"]
    /\ UNCHANGED <<avars, sso, log, seen, due, resolve, batch, insert, calm,
                   everInactive, overlap, opener>>

(* The call for one department fails: logged, and null goes into the map. *)
AskOneFails(r, d) ==
    /\ pc[r] = "each"
    /\ d \in ask[r]
    /\ Changed
    /\ ask' = [ask EXCEPT ![r] = @ \ {d}]
    /\ pc' = [pc EXCEPT ![r] = IF ask[r] = {d} THEN "logs" ELSE "each"]
    /\ UNCHANGED <<avars, sso, log, seen, due, answer, resolve, batch, insert, auxvars>>

(* 4. Load the open logs of these items; keep the ones to close. *)
ReadOpenLogs(r) ==
    /\ pc[r] = "logs"
    /\ resolve' = [resolve EXCEPT ![r] =
                     {l \in LogId : Open(l) /\ log[l].item \in due[r] /\ Reactivated(r, l)}]
    /\ pc' = [pc EXCEPT ![r] = "work"]
    /\ UNCHANGED <<avars, sso, log, seen, due, ask, answer, batch, insert, calm, auxvars>>

(* Faulty variant: closing a log also clears what it reported. *)
ResolveAndClear(r, l) ==
    /\ pc[r] = "work"
    /\ l \in resolve[r]
    /\ log' = [log EXCEPT ![l].status = "resolved", ![l].invalid = {}]
    /\ resolve' = [resolve EXCEPT ![r] = @ \ {l}]
    /\ UNCHANGED <<avars, sso, pc, seen, due, ask, answer, batch, insert, calm, auxvars>>

(* Close one log: an UPDATE by identifier, whatever the log is by now. *)
ResolveLog(r, l) ==
    /\ pc[r] = "work"
    /\ l \in resolve[r]
    /\ log' = [log EXCEPT ![l].status = "resolved", ![l].by = "nobody"]
    /\ resolve' = [resolve EXCEPT ![r] = @ \ {l}]
    /\ UNCHANGED <<avars, sso, pc, seen, due, ask, answer, batch, insert, calm, auxvars>>

(* Loading or closing logs fails.  Announcements go on with the check of   *)
(* the items; the wiki run ends.                                           *)
RevalidationFails(r) ==
    /\ pc[r] = "logs" \/ (pc[r] = "work" /\ resolve[r] # {})
    /\ Changed
    /\ pc' = [pc EXCEPT ![r] = "work"]
    /\ resolve' = [resolve EXCEPT ![r] = {}]
    /\ due' = IF ErrorsIsolated THEN due ELSE [due EXCEPT ![r] = {}]
    /\ UNCHANGED <<avars, sso, log, seen, ask, answer, batch, insert, auxvars>>

Settled(r) == pc[r] = "work" /\ resolve[r] = {} /\ batch[r] = {} /\ insert[r] = {}

(* 5. Start the next batch; items without an invalid department are done. *)
BeginBatch(r) ==
    /\ Settled(r)
    /\ due[r] # {}
    /\ \E B \in SUBSET due[r] :
         /\ Cardinality(B) = BatchSize \/ (B = due[r] /\ Cardinality(B) < BatchSize)
         /\ due' = [due EXCEPT ![r] = @ \ B]
         /\ batch' = [batch EXCEPT ![r] = {i \in B : Invalid(r, i) # {}}]
    /\ UNCHANGED <<avars, sso, log, pc, seen, ask, answer, resolve, insert, calm, auxvars>>

(* Faulty variants: insert without looking; let a resolved log count too. *)
NoLookup(r, i) ==
    /\ i \in batch[r]
    /\ batch' = [batch EXCEPT ![r] = @ \ {i}]
    /\ insert' = [insert EXCEPT ![r] = @ \cup {i}]
    /\ UNCHANGED <<avars, sso, log, pc, seen, due, ask, answer, resolve, calm, auxvars>>

FindAnyLog(r, i) ==
    /\ i \in batch[r]
    /\ batch' = [batch EXCEPT ![r] = @ \ {i}]
    /\ insert' = IF \E l \in LogId : Exists(l) /\ log[l].item = i
                 THEN insert ELSE [insert EXCEPT ![r] = @ \cup {i}]
    /\ UNCHANGED <<avars, sso, log, pc, seen, due, ask, answer, resolve, calm, auxvars>>

(* Look for an open log of the item; go on to insert only if there is none. *)
FindOpenLog(r, i) ==
    /\ i \in batch[r]
    /\ batch' = [batch EXCEPT ![r] = @ \ {i}]
    /\ insert' = IF \E l \in LogId : Open(l) /\ log[l].item = i
                 THEN insert ELSE [insert EXCEPT ![r] = @ \cup {i}]
    /\ UNCHANGED <<avars, sso, log, pc, seen, due, ask, answer, resolve, calm, auxvars>>

InsertLog(r, i, l) ==
    /\ i \in insert[r]
    /\ ~ Exists(l)
    /\ log' = [log EXCEPT ![l] = [status |-> "detected", item |-> i,
                                  invalid |-> Invalid(r, i), by |-> "nobody"]]
    /\ insert' = [insert EXCEPT ![r] = @ \ {i}]
    /\ opener' = [opener EXCEPT ![l] = r]
    /\ UNCHANGED <<avars, sso, pc, seen, due, ask, answer, resolve, batch, calm,
                   everInactive, overlap, seenActive>>

(* The check of one item fails.  The rest of its batch, already started,   *)
(* goes on in either version; a wiki run starts no further batch.          *)
ItemFails(r, i) ==
    /\ i \in batch[r] \cup insert[r]
    /\ Changed
    /\ batch' = [batch EXCEPT ![r] = @ \ {i}]
    /\ insert' = [insert EXCEPT ![r] = @ \ {i}]
    /\ due' = IF ErrorsIsolated THEN due ELSE [due EXCEPT ![r] = {}]
    /\ UNCHANGED <<avars, sso, log, pc, seen, ask, answer, resolve, auxvars>>

(* Every promise of the run has settled. *)
EndRun(r) ==
    /\ Settled(r)
    /\ due[r] = {}
    /\ pc' = [pc EXCEPT ![r] = "idle"]
    /\ seen' = [seen EXCEPT ![r] = [i \in Item |-> {}]]
    /\ answer' = [answer EXCEPT ![r] = [d \in Dept |-> "none"]]
    /\ quiet' = quiet \ {r}
    /\ UNCHANGED <<avars, sso, log, due, ask, resolve, batch, insert, changes, auxvars>>
-----------------------------------------------------------------------------
(* An administrator disables, enables or deletes a department. *)
SsoChange(d) ==
    /\ Changed
    /\ \E s \in SsoState \ {sso[d]} :
         /\ sso' = [sso EXCEPT ![d] = s]
         /\ everInactive' = IF s = "inactive" THEN everInactive \cup {d} ELSE everInactive
    /\ UNCHANGED <<avars, log, runvars, overlap, seenActive, opener>>

(* A request on the announcements takes a step. *)
EditStep ==
    /\ EditNext
    /\ Changed
    /\ UNCHANGED <<sso, log, runvars, auxvars>>

(* The replacement and the log that records it are one transaction; the    *)
(* open log that reported the department stays open.                       *)
ReplaceAndLog(i, ms, l) ==
    /\ Replace(i, ms)
    /\ ~ Exists(l)
    /\ log' = [log EXCEPT ![l] = [status |-> "resolved", item |-> i,
                                  invalid |-> {}, by |-> "admin"]]
    /\ Changed
    /\ UNCHANGED <<sso, runvars, auxvars>>

(* The process restarts: runs and requests are lost, the tables are not. *)
Crash ==
    /\ Changed
    /\ Restart
    /\ pc' = [r \in Run |-> "idle"]
    /\ seen' = [r \in Run |-> [i \in Item |-> {}]]
    /\ answer' = [r \in Run |-> [d \in Dept |-> "none"]]
    /\ due' = [r \in Run |-> {}]
    /\ ask' = [r \in Run |-> {}]
    /\ resolve' = [r \in Run |-> {}]
    /\ batch' = [r \in Run |-> {}]
    /\ insert' = [r \in Run |-> {}]
    /\ UNCHANGED <<sso, log, auxvars>>

RunProgress(r) ==
    \/ BulkAnswer(r) \/ (\E d \in Dept : AskOne(r, d))
    \/ ReadOpenLogs(r) \/ (\E l \in LogId : ResolveLog(r, l))
    \/ BeginBatch(r) \/ (\E i \in Item : FindOpenLog(r, i))
    \/ (\E i \in Item, l \in LogId : InsertLog(r, i, l)) \/ EndRun(r)

RunFault(r) ==
    \/ BulkFails(r) \/ (\E d \in Dept : AskOneFails(r, d))
    \/ RevalidationFails(r) \/ (\E i \in Item : ItemFails(r, i))

Environment ==
    \/ \E d \in Dept : SsoChange(d)
    \/ EditStep
    \/ \E i \in Item, ms \in Mappings, l \in LogId : ReplaceAndLog(i, ms, l)
    \/ Crash

Next ==
    \/ \E r \in Run : StartRun(r) \/ EmptyRun(r) \/ RunProgress(r) \/ RunFault(r)
    \/ Environment

Spec == Init /\ [][Next]_vars

(* The cron job keeps starting runs, and each await of a run returns. *)
Fairness == \A r \in Run : WF_vars(StartRun(r)) /\ WF_vars(RunProgress(r))

FairSpec == Spec /\ Fairness
-----------------------------------------------------------------------------
(* The shape of the log table and of the local state of each run. *)
AuditTypeOK ==
    /\ sso \in [Dept -> SsoState]
    /\ log \in [LogId -> Log \cup {NoLog}]
    /\ pc \in [Run -> {"idle", "sso", "each", "logs", "work"}]
    /\ seen \in [Run -> [Item -> SUBSET Dept]]
    /\ due \in [Run -> SUBSET Item]
    /\ ask \in [Run -> SUBSET Dept]
    /\ answer \in [Run -> [Dept -> Info]]
    /\ resolve \in [Run -> SUBSET LogId]
    /\ batch \in [Run -> SUBSET Item]
    /\ insert \in [Run -> SUBSET Item]
    /\ changes \in 0..MaxChanges
    /\ quiet \in SUBSET Run
    /\ everInactive \in SUBSET Dept
    /\ overlap \in BOOLEAN
    /\ seenActive \in [LogId -> SUBSET Dept]

(* Announcements, requests, logs and runs keep their shapes: a map a run   *)
(* builds from SSO answers holds an info or null for every department.     *)
TypeOK == ATypeOK /\ AuditTypeOK /\ opener \in [LogId -> Run \cup {"nobody"}]

(* A log the audit opened names departments, and only ones the SSO service *)
(* really reported inactive: what a failed call or the map of another run  *)
(* leaves out never ends up in a log.  Nor does a deleted department: the  *)
(* code counts one the SSO service has no information on as valid, where   *)
(* the comment on the class says that deleted departments are logged too.  *)
LogsAreTruthful ==
    \A l \in LogId : Exists(l) /\ log[l].by = "nobody" =>
        log[l].invalid # {} /\ log[l].invalid \subseteq everInactive

(* At most one open log for an item, for as long as no two runs have ever  *)
(* been in progress together: the findOne before the insert is enough then.*)
NoDuplicateWithoutOverlap ==
    ~ overlap => \A l, m \in LogId :
        Open(l) /\ Open(m) /\ log[l].item = log[m].item => l = m

(* Runs that overlap may open several logs for one item, but never two of  *)
(* the same run: as many at most as runs may be in progress at once, with  *)
(* failures, restarts and any number of runs before and after them.        *)
OneOpenLogEach ==
    \A l, m \in LogId :
        Open(l) /\ Open(m) /\ log[l].item = log[m].item /\ opener[l] = opener[m] => l = m

(* A log the audit closed had each of its departments seen active after    *)
(* the log was opened, for as long as no two runs have been in progress    *)
(* together: the map a run uses is then never older than the log.          *)
FreshResolveWithoutOverlap ==
    ~ overlap => \A l \in LogId :
        log[l].status = "resolved" => log[l].invalid \subseteq seenActive[l]

(* A log is permanent: no step of any run, overlapping or not, removes it, *)
(* rewrites what it reports, or opens it again once it is resolved.        *)
LogsArePermanent ==
    [][\A l \in LogId : Exists(l) =>
         /\ log'[l] # NoLog
         /\ log'[l].item = log[l].item
         /\ log'[l].invalid = log[l].invalid
         /\ ~ Open(l) => log'[l] = log[l]]_vars

Lists(i, d) == i \in Live /\ d \in Range(row[i].depts)

(* A run that has done all it read, and that nothing disturbed: no other   *)
(* run, no request, no change of a department and no fault, leaves the log *)
(* table telling what is.  Every item that lists an inactive department    *)
(* has an open log, and no log of a live item is open whose departments    *)
(* are all active and still listed.                                        *)
QuietRunSettlesLogs ==
    \A r \in quiet : Settled(r) /\ due[r] = {} =>
        /\ \A i \in Item, d \in Dept :
             Lists(i, d) /\ sso[d] = "inactive" => \E l \in LogId : Open(l) /\ log[l].item = i
        /\ \A l \in LogId : Open(l) /\ log[l].item \in Live =>
             \E d \in log[l].invalid : sso[d] # "active" \/ \A i \in Item : ~ Lists(i, d)

(* An item that keeps listing a department that stays inactive ends up     *)
(* with an open log for good.                                              *)
InactiveItemReported ==
    \A i \in Item, d \in Dept :
        <>[](Lists(i, d) /\ sso[d] = "inactive")
            => <>[](\E l \in LogId : Open(l) /\ log[l].item = i)

(* An open log whose departments stay active is closed, provided its item  *)
(* stays live and the departments stay listed somewhere: only the listed   *)
(* ones are asked about.                                                   *)
ReactivatedLogResolved ==
    \A l \in LogId :
        ~ <>[](/\ Open(l)
               /\ log[l].item \in Live
               /\ \A d \in log[l].invalid : sso[d] = "active" /\ \E i \in Item : Lists(i, d))

(* What the scheduler says it does: every inactive department of an item   *)
(* is on record in some log of the item.                                   *)
InactiveDepartmentReported ==
    \A i \in Item, d \in Dept :
        <>[](Lists(i, d) /\ sso[d] = "inactive")
            => <>(\E l \in LogId : log[l].item = i /\ d \in log[l].invalid)
=============================================================================
