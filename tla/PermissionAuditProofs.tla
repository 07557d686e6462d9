----------------------- MODULE PermissionAuditProofs ------------------------
(***************************************************************************)
(* Proofs about PermissionAudit, for any sets of announcements,            *)
(* departments, concurrent runs and log identifiers, any batch size, and   *)
(* both ways of treating a failed item; and first about the requests of    *)
(* Announcement that run beside the audit.                                 *)
(***************************************************************************)
EXTENDS PermissionAudit, SequenceTheorems, TLAPS

(* A mapping keeps the length of a permission list and puts only            *)
(* departments into it.                                                    *)
LEMMA MapOneType ==
    ASSUME NEW s \in Seq(Dept), NEW m \in Mapping
    PROVE  MapOne(s, m) \in Seq(Dept) /\ Len(MapOne(s, m)) = Len(s)
<1>1. Len(s) \in Nat /\ \A k \in 1..Len(s) : s[k] \in Dept
    OBVIOUS
<1>2. MapOne(s, m) \in [1..Len(s) -> Dept]
    BY <1>1 DEF MapOne, Mapping
<1>3. MapOne(s, m) \in Seq(Dept)
    BY <1>1, <1>2, SeqDef
<1>4. DOMAIN MapOne(s, m) = 1..Len(s)
    BY <1>2
<1> QED BY <1>1, <1>3, <1>4, LenProperties

(* The list after all the mappings of a replacement request, as long as     *)
(* the list before it.                                                     *)
LEMMA MapAllType ==
    ASSUME NEW s \in Seq(Dept), NEW ms \in Mappings
    PROVE  MapAll(s, ms) \in Seq(Dept) /\ Len(MapAll(s, ms)) = Len(s)
<1>1. CASE \E m \in Mapping : ms = <<m>>
    <2>1. PICK m \in Mapping : ms = <<m>>
        BY <1>1
    <2>2. Len(ms) = 1 /\ ms[1] = m
        BY <2>1
    <2> QED BY <2>2, MapOneType DEF MapAll
<1>2. CASE ms \in Mapping \X Mapping
    <2>1. Len(ms) = 2 /\ ms[1] \in Mapping /\ ms[2] \in Mapping
        BY <1>2
    <2>2. MapOne(s, ms[1]) \in Seq(Dept) /\ Len(MapOne(s, ms[1])) = Len(s)
        BY <2>1, MapOneType
    <2>3. /\ MapOne(MapOne(s, ms[1]), ms[2]) \in Seq(Dept)
          /\ Len(MapOne(MapOne(s, ms[1]), ms[2])) = Len(s)
        BY <2>1, <2>2, MapOneType
    <2> QED BY <2>1, <2>3 DEF MapAll
<1> QED BY <1>1, <1>2 DEF Mappings

(* The lists a request sends are sequences of departments. *)
LEMMA DeptListsType == DeptLists \subseteq Seq(Dept)
<1>1. ASSUME NEW s \in DeptLists PROVE s \in Seq(Dept)
    <2>1. PICK n \in 0..MaxDepts : s \in [1..n -> Dept]
        BY DEF DeptLists
    <2>2. n \in Nat
        BY BoundsAssumption
    <2> QED BY <2>1, <2>2, SeqDef
<1> QED BY <1>1

(* The rows a create request produces are rows of the table. *)
LEMMA CreatedType == Created \subseteq Row
BY DeptListsType DEF Created, Row

(* The departments of a list are departments. *)
LEMMA RangeType ==
    ASSUME NEW s \in Seq(Dept)
    PROVE  Range(s) \subseteq Dept
BY DEF Range
-----------------------------------------------------------------------------
(* A request in flight passed its check, at the time it was made, on the   *)
(* live row it holds a copy of; that row is still in the table.            *)
Checked ==
    \A e \in Editor : request[e] # Idle =>
        /\ row[request[e].item] # Absent
        /\ request[e].copy.status = "live"
        /\ Accepts(request[e].op, request[e].copy, request[e].at)

AInv == ATypeOK /\ Checked

(* A row a request holds, and what the finished operation makes of it. *)
LEMMA RequestType ==
    ASSUME ATypeOK, NEW e \in Editor, request[e] # Idle
    PROVE  /\ request[e].op \in Op
           /\ request[e].item \in Item
           /\ request[e].copy \in Row
           /\ request[e].at \in 0..MaxNow
BY DEF ATypeOK, Request

(* A stored row is not the absent one. *)
LEMMA RowNotAbsent == \A r \in Row : r # Absent
<1>1. Absent.status = "absent"
    BY DEF Absent
<1> QED BY <1>1 DEF Row

(* AInv holds on the database the process starts with.                     *)
THEOREM AInit_AInv == AInit => AInv
<1> SUFFICES ASSUME AInit PROVE AInv
    OBVIOUS
<1>1. now \in 0..MaxNow
    BY BoundsAssumption DEF AInit
<1>2. ATypeOK
    BY <1>1, CreatedType DEF AInit, ATypeOK
<1>3. Checked
    BY DEF AInit, Checked
<1> QED BY <1>2, <1>3 DEF AInv

(* A created row is a row of the table, and no request holds its item.     *)
LEMMA CreateStep ==
    ASSUME AInv, NEW i \in Item, Create(i) PROVE AInv'
<1>1. PICK r \in Created : row' = [row EXCEPT ![i] = r]
    BY DEF Create
<1>2. r \in Row /\ r # Absent
    BY CreatedType, RowNotAbsent
<1>3. row' \in [Item -> Row \cup {Absent}]
    BY <1>1, <1>2 DEF AInv, ATypeOK
<1>4. \A j \in Item : row[j] # Absent => row'[j] # Absent
    BY <1>1, <1>2 DEF AInv, ATypeOK
<1>5. \A e \in Editor : request[e] # Idle => request[e].item \in Item
    BY RequestType DEF AInv
<1>6. request' = request
    BY DEF Create
<1>7. ATypeOK'
    BY <1>3 DEF AInv, ATypeOK, Create
<1>8. Checked'
    BY <1>4, <1>5, <1>6 DEF AInv, Checked, Accepts, Published
<1> QED BY <1>7, <1>8 DEF AInv

(* A loaded copy is live, and passed its check at this instant.            *)
LEMMA LoadStep ==
    ASSUME AInv, NEW e \in Editor, NEW op \in Op, NEW i \in Item, Load(e, op, i)
    PROVE  AInv'
<1>1. row[i] \in Row /\ row[i].status = "live"
    BY DEF AInv, ATypeOK, Load, Live, Row, Absent
<1> DEFINE q == [op |-> op, item |-> i, copy |-> row[i], at |-> now]
<1>2. q \in Request
    BY <1>1 DEF AInv, ATypeOK, Request
<1>3. request' = [request EXCEPT ![e] = q]
    BY DEF Load
<1>4. ATypeOK'
    BY <1>2, <1>3 DEF AInv, ATypeOK, Load
<1>5. q.copy.status = "live" /\ Accepts(q.op, q.copy, q.at)
    BY <1>1 DEF Load
<1>6. Checked'
    <2> SUFFICES ASSUME NEW f \in Editor, request'[f] # Idle
                 PROVE  /\ row'[request'[f].item] # Absent
                        /\ request'[f].copy.status = "live"
                        /\ Accepts(request'[f].op, request'[f].copy, request'[f].at)
        BY DEF Checked, Accepts, Published
    <2>1. CASE f = e
        BY <2>1, <1>1, <1>3, <1>5, RowNotAbsent DEF AInv, ATypeOK, Load
    <2>2. CASE f # e
        BY <2>2, <1>3 DEF AInv, ATypeOK, Checked, Load
    <2> QED BY <2>1, <2>2
<1> QED BY <1>4, <1>6 DEF AInv

(* A request that ends leaves the other requests as they were. *)
LEMMA FinishKeepsRequests ==
    ASSUME AInv, NEW e \in Editor, Finish(e),
           \A j \in Item : row[j] # Absent => row'[j] # Absent
    PROVE  request' \in [Editor -> {Idle} \cup Request] /\ Checked'
<1>1. request' \in [Editor -> {Idle} \cup Request]
    BY DEF AInv, ATypeOK, Finish
<1>2. \A f \in Editor : request'[f] # Idle => request'[f] = request[f]
    BY DEF AInv, ATypeOK, Finish
<1>3. \A f \in Editor : request[f] # Idle => request[f].item \in Item
    BY RequestType DEF AInv
<1> QED BY <1>1, <1>2, <1>3 DEF AInv, Checked, Accepts, Published

(* A request that saves is not idle. *)
LEMMA SavingIsBusy ==
    ASSUME NEW e \in Editor, Save(e) PROVE request[e] # Idle
<1>1. request[e].op \in {"edit", "publish", "hide", "place", "delete"}
    BY DEF Save, SaveEdit, SavePublic, SavePlace, SoftRemove
<1>2. Idle.op = "idle"
    BY DEF Idle
<1> QED BY <1>1, <1>2

(* Saving a copy stores a row and leaves no announcement absent. *)
LEMMA StoreType ==
    ASSUME ATypeOK, NEW e \in Editor, request[e].item \in Item, NEW r \in Row, Store(e, r)
    PROVE  /\ row' \in [Item -> Row \cup {Absent}]
           /\ \A j \in Item : row[j] # Absent => row'[j] # Absent
BY RowNotAbsent DEF ATypeOK, Store

(* Every kind of save stores a row, and ends the request that held it.     *)
LEMMA SaveStep ==
    ASSUME AInv, NEW e \in Editor, Save(e) PROVE AInv'
<1>0. request[e] # Idle
    BY SavingIsBusy
<1>1. request[e].item \in Item /\ request[e].copy \in Row
    BY <1>0, RequestType DEF AInv
<1>t. ATypeOK
    BY DEF AInv
<1>2. CASE SaveEdit(e)
    <2>1. PICK t \in Text, w \in 0..MaxNow, d \in DeptLists \cup {request[e].copy.depts} :
             Store(e, [request[e].copy EXCEPT !.text = t, !.releasedAt = w, !.depts = d])
        BY <1>2 DEF SaveEdit
    <2>2. d \in Seq(Dept)
        BY <1>1, DeptListsType DEF Row
    <2>3. [request[e].copy EXCEPT !.text = t, !.releasedAt = w, !.depts = d] \in Row
        BY <1>1, <2>2 DEF Row
    <2>4. /\ row' \in [Item -> Row \cup {Absent}]
          /\ \A j \in Item : row[j] # Absent => row'[j] # Absent
        BY <1>1, <1>t, <2>1, <2>3, StoreType
    <2> QED BY <1>2, <1>t, <2>4, FinishKeepsRequests DEF AInv, ATypeOK, SaveEdit
<1>3. CASE SavePublic(e)
    <2>1. [request[e].copy EXCEPT !.public = (request[e].op = "publish")] \in Row
        BY <1>1 DEF Row
    <2>2. /\ row' \in [Item -> Row \cup {Absent}]
          /\ \A j \in Item : row[j] # Absent => row'[j] # Absent
        BY <1>1, <1>t, <1>3, <2>1, StoreType DEF SavePublic
    <2> QED BY <1>3, <1>t, <2>2, FinishKeepsRequests DEF AInv, ATypeOK, SavePublic
<1>4. CASE SavePlace(e)
    <2>1. PICK p \in Place : Store(e, [request[e].copy EXCEPT !.place = p])
        BY <1>4 DEF SavePlace
    <2>2. [request[e].copy EXCEPT !.place = p] \in Row
        BY <1>1 DEF Row
    <2>3. /\ row' \in [Item -> Row \cup {Absent}]
          /\ \A j \in Item : row[j] # Absent => row'[j] # Absent
        BY <1>1, <1>t, <2>1, <2>2, StoreType
    <2> QED BY <1>4, <1>t, <2>3, FinishKeepsRequests DEF AInv, ATypeOK, SavePlace
<1>5. CASE SoftRemove(e)
    <2> DEFINE i == request[e].item
    <2>1. row[i] \in Row
        BY <1>0, <1>1, <1>t DEF AInv, ATypeOK, Checked
    <2>2. [row[i] EXCEPT !.status = "deleted"] \in Row
        BY <2>1 DEF Row
    <2>3. row' = [row EXCEPT ![i] = [row[i] EXCEPT !.status = "deleted"]]
        BY <1>5 DEF SoftRemove
    <2>4. /\ row' \in [Item -> Row \cup {Absent}]
          /\ \A j \in Item : row[j] # Absent => row'[j] # Absent
        BY <1>1, <1>t, <2>2, <2>3, RowNotAbsent DEF ATypeOK
    <2> QED BY <1>5, <1>t, <2>4, FinishKeepsRequests DEF AInv, ATypeOK, SoftRemove
<1> QED BY <1>2, <1>3, <1>4, <1>5 DEF Save

(* Steps that leave the requests alone and remove no announcement.          *)
LEMMA SameRequests ==
    ASSUME AInv, UNCHANGED request, \A j \in Item : row[j] # Absent => row'[j] # Absent
    PROVE  Checked'
<1>1. \A e \in Editor : request[e] # Idle => request[e].item \in Item
    BY RequestType DEF AInv
<1> QED BY <1>1 DEF AInv, Checked, Accepts, Published

(* The batch reorder keeps rows rows, and touches no request.              *)
LEMMA BatchPlaceStep ==
    ASSUME AInv, BatchPlace PROVE AInv'
<1>s. PICK S \in SUBSET Live : \E g \in [S -> Place] :
         row' = [j \in Item |-> IF j \in S THEN [row[j] EXCEPT !.place = g[j]] ELSE row[j]]
    BY DEF BatchPlace
<1>1. PICK f \in [S -> Place] :
         row' = [j \in Item |-> IF j \in S THEN [row[j] EXCEPT !.place = f[j]] ELSE row[j]]
    BY <1>s
<1>2. ASSUME NEW j \in S
      PROVE  row[j] \in Row /\ [row[j] EXCEPT !.place = f[j]] \in Row
    <2>1. row[j] \in Row
        BY DEF AInv, ATypeOK, Live, Absent
    <2> QED BY <2>1 DEF Row
<1>3. /\ row' \in [Item -> Row \cup {Absent}]
      /\ \A j \in Item : row[j] # Absent => row'[j] # Absent
    BY <1>1, <1>2, RowNotAbsent DEF AInv, ATypeOK
<1>4. ATypeOK'
    BY <1>3 DEF AInv, ATypeOK, BatchPlace
<1> QED BY <1>3, <1>4, SameRequests DEF AInv, BatchPlace

(* The replacement keeps rows rows, and touches no request.                *)
LEMMA ReplaceStep ==
    ASSUME AInv, NEW i \in Item, NEW ms \in Mappings, Replace(i, ms) PROVE AInv'
<1>1. row[i] \in Row
    BY DEF AInv, ATypeOK, Replace, Live, Absent
<1>2. row[i].depts \in Seq(Dept)
    BY <1>1 DEF Row
<1> DEFINE new == MapAll(row[i].depts, ms)
<1>3. new \in Seq(Dept)
    BY <1>2, MapAllType
<1>4. [row[i] EXCEPT !.depts = new] \in Row
    BY <1>1, <1>3 DEF Row
<1>5. row' = [row EXCEPT ![i] = [row[i] EXCEPT !.depts = new]]
    BY DEF Replace
<1>6. /\ row' \in [Item -> Row \cup {Absent}]
      /\ \A j \in Item : row[j] # Absent => row'[j] # Absent
    BY <1>4, <1>5, RowNotAbsent DEF AInv, ATypeOK
<1>7. ATypeOK'
    BY <1>6 DEF AInv, ATypeOK, Replace
<1> QED BY <1>6, <1>7, SameRequests DEF AInv, Replace

(* The clock stays in its range.                                           *)
LEMMA TickStep ==
    ASSUME AInv, Tick PROVE AInv'
<1>1. now' \in 0..MaxNow
    BY BoundsAssumption DEF AInv, ATypeOK, Tick
<1> QED BY <1>1, SameRequests DEF AInv, ATypeOK, Tick

(* After a restart no request holds anything.                              *)
LEMMA RestartStep ==
    ASSUME AInv, Restart PROVE AInv'
<1>1. ATypeOK'
    BY DEF AInv, ATypeOK, Restart
<1>2. Checked'
    BY DEF Restart, Checked
<1> QED BY <1>1, <1>2 DEF AInv

(* AInv is inductive: every request, the replacement and a restart keep it. *)
THEOREM ANext_AInv == AInv /\ [ANext]_avars => AInv'
<1> SUFFICES ASSUME AInv, [ANext]_avars PROVE AInv'
    OBVIOUS
<1>1. CASE \E i \in Item : Create(i)
    BY <1>1, CreateStep
<1>2. CASE \E e \in Editor, op \in Op, i \in Item : Load(e, op, i)
    BY <1>2, LoadStep
<1>3. CASE \E e \in Editor : Save(e)
    BY <1>3, SaveStep
<1>4. CASE BatchPlace
    BY <1>4, BatchPlaceStep
<1>5. CASE Tick
    BY <1>5, TickStep
<1>6. CASE ReplaceNext
    BY <1>6, ReplaceStep DEF ReplaceNext
<1>7. CASE Restart
    BY <1>7, RestartStep
<1>8. CASE UNCHANGED avars
    BY <1>8 DEF avars, AInv, ATypeOK, Checked, Accepts, Published
<1> QED BY <1>1, <1>2, <1>3, <1>4, <1>5, <1>6, <1>7, <1>8 DEF ANext, EditNext

(* Types are kept by every behaviour of the announcements. *)
THEOREM AnnouncementTypeOK == ASpec => []ATypeOK
<1>1. AInv => ATypeOK
    BY DEF AInv
<1> QED BY AInit_AInv, ANext_AInv, <1>1, PTL DEF ASpec
-----------------------------------------------------------------------------
(* FreshSavesKeepPolicy as the formula about one step.                     *)
FreshPolicy ==
    \A i \in Item :
        (row'[i] # row[i] /\ \A e \in Editor : Finishes(e) => ~ Stale(e))
            => PolicyAllows(row[i], row'[i])

(* A save of an up-to-date copy keeps the publication policy: the guard    *)
(* that held at the load still holds, because neither the row nor the      *)
(* clock has moved.                                                        *)
LEMMA FreshSave ==
    ASSUME AInv, NEW e \in Editor, Save(e) PROVE FreshPolicy
<1> SUFFICES ASSUME NEW i \in Item, row'[i] # row[i],
                    \A f \in Editor : Finishes(f) => ~ Stale(f)
             PROVE  PolicyAllows(row[i], row'[i])
    BY DEF FreshPolicy
<1>t. ATypeOK
    BY DEF AInv
<1>0. request[e] # Idle
    BY SavingIsBusy
<1>1. request[e].item \in Item /\ request[e].copy \in Row
    BY <1>0, <1>t, RequestType
<1>2. Finishes(e)
    <2>1. Finish(e)
        BY DEF Save, SaveEdit, SavePublic, SavePlace, SoftRemove
    <2> QED BY <1>0, <1>t, <2>1 DEF Finish, Finishes, ATypeOK
<1>3. request[e].copy = row[request[e].item] /\ request[e].at = now
    BY <1>2 DEF Stale
<1>4. request[e].item = i
    BY <1>1, <1>t DEF Save, SaveEdit, SavePublic, SavePlace, SoftRemove, Store, ATypeOK
<1>5. row[i] \in Row /\ row[i].status = "live" /\ Accepts(request[e].op, row[i], now)
    BY <1>0, <1>1, <1>3, <1>4 DEF AInv, Checked
<1>6. CASE SaveEdit(e)
    <2>0. PICK t \in Text, w \in 0..MaxNow, d \in DeptLists \cup {request[e].copy.depts} :
             Store(e, [request[e].copy EXCEPT !.text = t, !.releasedAt = w, !.depts = d])
        BY <1>6 DEF SaveEdit
    <2>1. row'[i] = [row[i] EXCEPT !.text = t, !.releasedAt = w, !.depts = d]
        BY <1>t, <1>1, <1>3, <1>4, <2>0 DEF Store, ATypeOK
    <2>2. ~ Published(row[i], now)
        BY <1>5, <1>6 DEF SaveEdit, Accepts
    <2> QED BY <1>5, <2>1, <2>2 DEF PolicyAllows, Row
<1>7. CASE SavePublic(e)
    <2>1. row'[i] = [row[i] EXCEPT !.public = (request[e].op = "publish")]
        BY <1>t, <1>3, <1>4, <1>7 DEF SavePublic, Store, ATypeOK
    <2>2. request[e].op = "publish" => row[i].public \/ row[i].text \in Complete
        BY <1>5 DEF Accepts
    <2> QED BY <1>5, <2>1, <2>2 DEF PolicyAllows, Row
<1>8. CASE SavePlace(e)
    <2>1. PICK p \in Place : row'[i] = [row[i] EXCEPT !.place = p]
        BY <1>t, <1>3, <1>4, <1>8 DEF SavePlace, Store, ATypeOK
    <2> QED BY <1>5, <2>1 DEF PolicyAllows, Row
<1>9. CASE SoftRemove(e)
    <2>1. row'[i] = [row[i] EXCEPT !.status = "deleted"]
        BY <1>t, <1>4, <1>9 DEF SoftRemove, ATypeOK
    <2>2. ~ row[i].public
        BY <1>5, <1>9 DEF SoftRemove, Accepts
    <2> QED BY <1>5, <2>1, <2>2 DEF PolicyAllows, Row
<1> QED BY <1>6, <1>7, <1>8, <1>9 DEF Save


(* Loading an announcement changes no announcement. *)
LEMMA LoadKeepsRows ==
    ASSUME AInv, NEW e \in Editor, NEW op \in Op, NEW i \in Item, Load(e, op, i)
    PROVE  UNCHANGED row
BY DEF Load

(* The batch reorder changes positions of live rows and nothing else. *)
LEMMA BatchPlacePolicy ==
    ASSUME AInv, BatchPlace PROVE FreshPolicy
<1> SUFFICES ASSUME NEW i \in Item, row'[i] # row[i] PROVE PolicyAllows(row[i], row'[i])
    BY DEF FreshPolicy
<1>s. PICK S \in SUBSET Live : \E g \in [S -> Place] :
         row' = [j \in Item |-> IF j \in S THEN [row[j] EXCEPT !.place = g[j]] ELSE row[j]]
    BY DEF BatchPlace
<1>1. PICK f \in [S -> Place] :
         row' = [j \in Item |-> IF j \in S THEN [row[j] EXCEPT !.place = f[j]] ELSE row[j]]
    BY <1>s
<1>2. i \in S /\ row'[i] = [row[i] EXCEPT !.place = f[i]]
    BY <1>1
<1>3. row[i] \in Row /\ row[i].status = "live"
    BY <1>2 DEF AInv, ATypeOK, Live, Absent
<1> QED BY <1>2, <1>3 DEF PolicyAllows, Row

(* The replacement changes the departments of a live row one for one. *)
LEMMA ReplacePolicy ==
    ASSUME AInv, NEW i \in Item, NEW ms \in Mappings, Replace(i, ms) PROVE FreshPolicy
<1> SUFFICES ASSUME NEW j \in Item, row'[j] # row[j] PROVE PolicyAllows(row[j], row'[j])
    BY DEF FreshPolicy
<1> DEFINE new == MapAll(row[i].depts, ms)
<1>1. row' = [row EXCEPT ![i] = [row[i] EXCEPT !.depts = new]]
    BY DEF Replace
<1>2. j = i /\ row'[i] = [row[i] EXCEPT !.depts = new]
    BY <1>1 DEF AInv, ATypeOK
<1>3. row[i] \in Row /\ row[i].status = "live"
    BY DEF AInv, ATypeOK, Replace, Live, Absent
<1>4. Len(new) = Len(row[i].depts)
    BY <1>3, MapAllType DEF Row
<1> HIDE DEF new
<1> QED BY <1>2, <1>3, <1>4 DEF PolicyAllows, Row

(* A new row is not a change of an announcement. *)
LEMMA CreatePolicy ==
    ASSUME AInv, NEW i \in Item, Create(i) PROVE FreshPolicy
<1> SUFFICES ASSUME NEW j \in Item, row'[j] # row[j] PROVE PolicyAllows(row[j], row'[j])
    BY DEF FreshPolicy
<1>1. j = i /\ row[i] = Absent
    BY DEF AInv, ATypeOK, Create
<1> QED BY <1>1 DEF PolicyAllows, Absent

(* As long as nobody writes the row between check and save, the checks of   *)
(* the announcement service enforce the publication policy, for any number *)
(* of announcements and of concurrent requests.                            *)
THEOREM AnnouncementFreshSaves == ASpec => FreshSavesKeepPolicy
<1>1. AInv /\ [ANext]_avars => [FreshPolicy]_avars
    <2> SUFFICES ASSUME AInv, ANext PROVE FreshPolicy
        OBVIOUS
    <2>1. CASE \E i \in Item : Create(i)
        BY <2>1, CreatePolicy
    <2>2. CASE UNCHANGED row
        BY <2>2 DEF FreshPolicy
    <2>3. CASE \E e \in Editor : Save(e)
        BY <2>3, FreshSave
    <2>4. CASE BatchPlace
        BY <2>4, BatchPlacePolicy
    <2>5. CASE ReplaceNext
        BY <2>5, ReplacePolicy DEF ReplaceNext
    <2>6. Restart \/ Tick => UNCHANGED row
        BY DEF Restart, Tick
    <2> QED BY <2>1, <2>2, <2>3, <2>4, <2>5, <2>6, LoadKeepsRows DEF ANext, EditNext
<1>2. [][FreshPolicy]_avars <=> FreshSavesKeepPolicy
    BY DEF FreshPolicy, FreshSavesKeepPolicy
<1> QED BY AInit_AInv, ANext_AInv, <1>1, <1>2, PTL DEF ASpec
-----------------------------------------------------------------------------
(***************************************************************************)
(* The inductive invariant.  A run holds logs to close and items to check  *)
(* only while it works, and an answer only after it has asked; the logs it *)
(* is going to close exist and, like every open log, were opened by the    *)
(* audit; what it takes for inactive has been inactive.                    *)
(***************************************************************************)
HoldsOnlyAtWork ==
    \A r \in Run : /\ pc[r] # "work" => resolve[r] = {} /\ batch[r] = {} /\ insert[r] = {}
                   /\ pc[r] \in {"idle", "sso"} => \A d \in Dept : answer[r][d] = "none"

ClosesAuditLogs ==
    /\ \A l \in LogId : Open(l) => log[l].by = "nobody"
    /\ \A r \in Run : \A l \in resolve[r] : Exists(l) /\ log[l].by = "nobody"

InactiveIsTrue ==
    /\ \A d \in Dept : sso[d] = "inactive" => d \in everInactive
    /\ \A r \in Run, d \in Dept : answer[r][d] = "inactive" => d \in everInactive

ChecksInvalidItems ==
    \A r \in Run : \A i \in batch[r] \cup insert[r] : Invalid(r, i) # {}

(* Without overlap a run in progress is the only one, an item it is about  *)
(* to insert for has no open log, and every department it holds as active  *)
(* was seen active after each log it may still close was opened.           *)
Alone == ~ overlap => \A r, q \in Run : pc[r] # "idle" /\ pc[q] # "idle" => r = q

InsertsForFreeItems ==
    ~ overlap => \A r \in Run : \A i \in insert[r] : \A l \in LogId : Open(l) => log[l].item # i

AnswersAreFresh ==
    ~ overlap => \A r \in Run :
        /\ pc[r] \in {"each", "logs"} =>
             \A l \in LogId, d \in Dept : Open(l) /\ answer[r][d] = "active" => d \in seenActive[l]
        /\ \A l \in resolve[r] : log[l].invalid \subseteq seenActive[l]

TruthInv == HoldsOnlyAtWork /\ ClosesAuditLogs /\ InactiveIsTrue /\ ChecksInvalidItems
              /\ LogsAreTruthful
SerialInv == Alone /\ InsertsForFreeItems /\ NoDuplicateWithoutOverlap
FreshInv == AnswersAreFresh /\ FreshResolveWithoutOverlap

BaseInv == AInv /\ AuditTypeOK
Inv == BaseInv /\ TruthInv /\ SerialInv /\ FreshInv
-----------------------------------------------------------------------------
(* What a run or the SSO service does is no step of the announcements, and *)
(* the rest of Next is one of theirs.                                      *)
LEMMA AnnouncementStep == [Next]_vars => [ANext]_avars
<1> SUFFICES ASSUME [Next]_vars PROVE [ANext]_avars
    OBVIOUS
<1>1. ASSUME NEW r \in Run, StartRun(r) PROVE UNCHANGED avars
    BY <1>1 DEF StartRun
<1>2. ASSUME NEW r \in Run, EmptyRun(r) PROVE UNCHANGED avars
    BY <1>2 DEF EmptyRun, vars
<1>3. ASSUME NEW r \in Run, RunProgress(r) PROVE UNCHANGED avars
    BY <1>3 DEF RunProgress, BulkAnswer, AskOne, ReadOpenLogs, ResolveLog, BeginBatch,
                FindOpenLog, InsertLog, EndRun
<1>4. ASSUME NEW r \in Run, RunFault(r) PROVE UNCHANGED avars
    BY <1>4 DEF RunFault, BulkFails, AskOneFails, RevalidationFails, ItemFails
<1>5. ASSUME NEW d \in Dept, SsoChange(d) PROVE UNCHANGED avars
    BY <1>5 DEF SsoChange
<1>6. CASE EditStep
    BY <1>6 DEF EditStep, ANext
<1>7. CASE \E i \in Item, ms \in Mappings, l \in LogId : ReplaceAndLog(i, ms, l)
    BY <1>7 DEF ReplaceAndLog, ANext, ReplaceNext
<1>8. CASE Crash
    BY <1>8 DEF Crash, ANext
<1>9. CASE UNCHANGED vars
    BY <1>9 DEF vars
<1> QED BY <1>1, <1>2, <1>3, <1>4, <1>5, <1>6, <1>7, <1>8, <1>9 DEF Next, Environment

(* The departments of the live rows, as a run reads them. *)
LEMMA SeenType ==
    ASSUME ATypeOK, NEW i \in Live
    PROVE  Range(row[i].depts) \subseteq Dept
<1>1. row[i] \in Row
    BY DEF ATypeOK, Live, Absent
<1> QED BY <1>1, RangeType DEF Row

(* The invariant holds when no run has started and no log exists.          *)
LEMMA Init_Inv == Init => Inv
<1> SUFFICES ASSUME Init PROVE Inv
    OBVIOUS
<1>0. AuditTypeOK
    <2>1. changes \in 0..MaxChanges /\ quiet \in SUBSET Run
        BY ChangesAssumption DEF Init
    <2>2. log \in [LogId -> Log \cup {NoLog}]
        BY DEF Init
    <2>3. /\ sso \in [Dept -> SsoState]
          /\ everInactive \in SUBSET Dept
          /\ overlap \in BOOLEAN
          /\ seenActive \in [LogId -> SUBSET Dept]
        BY DEF Init
    <2>4. /\ pc \in [Run -> {"idle", "sso", "each", "logs", "work"}]
          /\ seen \in [Run -> [Item -> SUBSET Dept]]
          /\ answer \in [Run -> [Dept -> Info]]
        BY DEF Init, Info
    <2>5. /\ due \in [Run -> SUBSET Item]
          /\ ask \in [Run -> SUBSET Dept]
          /\ resolve \in [Run -> SUBSET LogId]
          /\ batch \in [Run -> SUBSET Item]
          /\ insert \in [Run -> SUBSET Item]
        BY DEF Init
    <2> QED BY <2>1, <2>2, <2>3, <2>4, <2>5 DEF AuditTypeOK
<1>1. BaseInv
    BY <1>0, AInit_AInv DEF Init, BaseInv
<1>2. \A l \in LogId : log[l] = NoLog /\ ~ Open(l) /\ ~ Exists(l) /\ log[l].status # "resolved"
    BY DEF Init, NoLog, Open, Exists
<1>3. TruthInv
    BY <1>2 DEF Init, TruthInv, HoldsOnlyAtWork, ClosesAuditLogs, InactiveIsTrue,
                ChecksInvalidItems, LogsAreTruthful
<1>4. SerialInv
    BY <1>2 DEF Init, SerialInv, Alone, InsertsForFreeItems, NoDuplicateWithoutOverlap
<1>5. FreshInv
    BY <1>2 DEF Init, FreshInv, AnswersAreFresh, FreshResolveWithoutOverlap
<1> QED BY <1>1, <1>3, <1>4, <1>5 DEF Inv
-----------------------------------------------------------------------------
(* Types. *)
LEMMA SawActiveType ==
    ASSUME AuditTypeOK, NEW D \in SUBSET Dept, SawActive(D)
    PROVE  seenActive' \in [LogId -> SUBSET Dept]
BY DEF AuditTypeOK, SawActive

(* A reply of the SSO service is an info or null.                          *)
LEMMA ReplyType ==
    ASSUME AuditTypeOK, NEW d \in Dept
    PROVE  Reply(d) \in Info
BY DEF AuditTypeOK, Reply, SsoState, Info

(* Types, when a run starts.                                               *)
LEMMA StartRunTypes ==
    ASSUME BaseInv, NEW r \in Run, StartRun(r) PROVE AuditTypeOK'
<1>1. ASSUME NEW i \in Item
      PROVE  (IF i \in Live THEN Range(row[i].depts) ELSE {}) \in SUBSET Dept
    BY SeenType DEF BaseInv, AInv
<1>2. seen' \in [Run -> [Item -> SUBSET Dept]]
    BY <1>1 DEF StartRun, BaseInv, AuditTypeOK
<1> QED BY <1>2 DEF StartRun, BaseInv, AuditTypeOK, Live

(* Types, when a run asks the SSO service, all at once or one by one.      *)
LEMMA AnswerTypes ==
    ASSUME AuditTypeOK, NEW r \in Run,
           BulkAnswer(r) \/ BulkFails(r) \/ \E d \in Dept : AskOne(r, d) \/ AskOneFails(r, d)
    PROVE  AuditTypeOK'
<1> USE DEF AuditTypeOK
<1>1. CASE BulkAnswer(r)
    <2>1. answer' \in [Run -> [Dept -> Info]]
        BY <1>1, ReplyType DEF BulkAnswer, Info
    <2>2. seenActive' \in [LogId -> SUBSET Dept]
        BY <1>1, SawActiveType DEF BulkAnswer, Listed
    <2> QED BY <1>1, <2>1, <2>2 DEF BulkAnswer, calm
<1>2. CASE BulkFails(r)
    <2>1. Listed(r) \subseteq Dept
        BY DEF Listed
    <2>2. changes' \in 0..MaxChanges /\ quiet' \in SUBSET Run
        BY <1>2, ChangesAssumption DEF BulkFails, Changed
    <2> QED BY <1>2, <2>1, <2>2 DEF BulkFails, auxvars, calm
<1>3. ASSUME NEW d \in Dept, AskOne(r, d) PROVE AuditTypeOK'
    <2>1. answer' \in [Run -> [Dept -> Info]]
        BY <1>3, ReplyType DEF AskOne
    <2>2. seenActive' \in [LogId -> SUBSET Dept]
        BY <1>3, SawActiveType DEF AskOne
    <2> QED BY <1>3, <2>1, <2>2 DEF AskOne, calm
<1>4. ASSUME NEW d \in Dept, AskOneFails(r, d) PROVE AuditTypeOK'
    <2>1. changes' \in 0..MaxChanges /\ quiet' \in SUBSET Run
        BY <1>4, ChangesAssumption DEF AskOneFails, Changed
    <2> QED BY <1>4, <2>1 DEF AskOneFails, auxvars, calm
<1> QED BY <1>1, <1>2, <1>3, <1>4

(* Types, when a run loads and closes open logs.                           *)
LEMMA RevalidationTypes ==
    ASSUME AuditTypeOK, TruthInv, NEW r \in Run,
           ReadOpenLogs(r) \/ RevalidationFails(r) \/ \E l \in LogId : ResolveLog(r, l)
    PROVE  AuditTypeOK'
<1> USE DEF AuditTypeOK
<1>1. CASE ReadOpenLogs(r)
    BY <1>1 DEF ReadOpenLogs, auxvars, calm
<1>2. CASE RevalidationFails(r)
    <2>1. changes' \in 0..MaxChanges /\ quiet' \in SUBSET Run
        BY <1>2, ChangesAssumption DEF RevalidationFails, Changed
    <2> QED BY <1>2, <2>1 DEF RevalidationFails, auxvars, calm
<1>3. ASSUME NEW l \in LogId, ResolveLog(r, l) PROVE AuditTypeOK'
    <2>1. log[l] \in Log
        BY <1>3 DEF ResolveLog, TruthInv, ClosesAuditLogs, Exists
    <2>2. [log[l] EXCEPT !.status = "resolved", !.by = "nobody"] \in Log
        BY <2>1 DEF Log
    <2>3. log' = [log EXCEPT ![l] = [log[l] EXCEPT !.status = "resolved", !.by = "nobody"]]
        BY <1>3 DEF ResolveLog
    <2>4. log' \in [LogId -> Log \cup {NoLog}]
        BY <2>2, <2>3
    <2> QED BY <1>3, <2>4 DEF ResolveLog, auxvars, calm
<1> QED BY <1>1, <1>2, <1>3

(* Types, when a run checks items, opens logs and ends.                    *)
LEMMA CheckTypes ==
    ASSUME AuditTypeOK, NEW r \in Run,
           BeginBatch(r) \/ EndRun(r) \/ \E i \in Item : \/ FindOpenLog(r, i)
                                                      \/ ItemFails(r, i)
                                                      \/ \E l \in LogId : InsertLog(r, i, l)
    PROVE  AuditTypeOK'
<1> USE DEF AuditTypeOK
<1>1. CASE BeginBatch(r)
    <2>1. PICK B \in SUBSET due[r] :
             /\ due' = [due EXCEPT ![r] = @ \ B]
             /\ batch' = [batch EXCEPT ![r] = {i \in B : Invalid(r, i) # {}}]
        BY <1>1 DEF BeginBatch
    <2> QED BY <1>1, <2>1 DEF BeginBatch, auxvars, calm
<1>2. CASE EndRun(r)
    BY <1>2 DEF EndRun, auxvars, calm, Info
<1>3. ASSUME NEW i \in Item, FindOpenLog(r, i) PROVE AuditTypeOK'
    BY <1>3 DEF FindOpenLog, auxvars, calm
<1>4. ASSUME NEW i \in Item, ItemFails(r, i) PROVE AuditTypeOK'
    <2>1. changes' \in 0..MaxChanges /\ quiet' \in SUBSET Run
        BY <1>4, ChangesAssumption DEF ItemFails, Changed
    <2> QED BY <1>4, <2>1 DEF ItemFails, auxvars, calm
<1>5. ASSUME NEW i \in Item, NEW l \in LogId, InsertLog(r, i, l) PROVE AuditTypeOK'
    <2>1. [status |-> "detected", item |-> i, invalid |-> Invalid(r, i), by |-> "nobody"] \in Log
        BY DEF Log, Invalid
    <2> QED BY <1>5, <2>1 DEF InsertLog, auxvars, calm
<1> QED BY <1>1, <1>2, <1>3, <1>4, <1>5

(* Types, when anything but a run takes a step.                            *)
LEMMA EnvironmentTypes ==
    ASSUME AuditTypeOK, Environment PROVE AuditTypeOK'
<1> USE DEF AuditTypeOK
<1>0. Changed => changes' \in 0..MaxChanges /\ quiet' \in SUBSET Run
    BY ChangesAssumption DEF Changed
<1>1. ASSUME NEW d \in Dept, SsoChange(d) PROVE AuditTypeOK'
    BY <1>0, <1>1 DEF SsoChange, runvars, SsoState
<1>2. CASE EditStep
    BY <1>0, <1>2 DEF EditStep, runvars, auxvars, calm
<1>3. ASSUME NEW i \in Item, NEW ms \in Mappings, NEW l \in LogId, ReplaceAndLog(i, ms, l)
      PROVE  AuditTypeOK'
    <2>1. [status |-> "resolved", item |-> i, invalid |-> {}, by |-> "admin"] \in Log
        BY DEF Log
    <2> QED BY <1>0, <1>3, <2>1 DEF ReplaceAndLog, runvars, auxvars, calm
<1>4. CASE Crash
    BY <1>0, <1>4 DEF Crash, auxvars, calm, Info
<1> QED BY <1>1, <1>2, <1>3, <1>4 DEF Environment

(* Every step keeps the types.                                             *)
LEMMA BaseStep == BaseInv /\ TruthInv /\ [Next]_vars => BaseInv'
<1> SUFFICES ASSUME BaseInv, TruthInv, [Next]_vars PROVE BaseInv'
    OBVIOUS
<1>1. AInv'
    BY AnnouncementStep, ANext_AInv DEF BaseInv
<1>2. AuditTypeOK'
    <2> USE DEF BaseInv
    <2>1. ASSUME NEW r \in Run, StartRun(r) PROVE AuditTypeOK'
        BY <2>1, StartRunTypes
    <2>2. ASSUME NEW r \in Run, RunProgress(r) PROVE AuditTypeOK'
        BY <2>2, AnswerTypes, RevalidationTypes, CheckTypes DEF RunProgress
    <2>3. ASSUME NEW r \in Run, RunFault(r) PROVE AuditTypeOK'
        BY <2>3, AnswerTypes, RevalidationTypes, CheckTypes DEF RunFault
    <2>4. CASE Environment
        BY <2>4, EnvironmentTypes
    <2>5. CASE UNCHANGED vars
        BY <2>5 DEF vars, runvars, auxvars, calm, AuditTypeOK
    <2>6. ASSUME NEW r \in Run, EmptyRun(r) PROVE UNCHANGED vars
        BY <2>6 DEF EmptyRun
    <2> QED BY <2>1, <2>2, <2>3, <2>4, <2>5, <2>6 DEF Next
<1> QED BY <1>1, <1>2 DEF BaseInv
-----------------------------------------------------------------------------
(* What a run holds, and what the logs say, is true. *)
LEMMA StartRunTruth ==
    ASSUME BaseInv, TruthInv, NEW r \in Run, StartRun(r) PROVE TruthInv'
<1> USE DEF BaseInv, AuditTypeOK
<1>1. HoldsOnlyAtWork'
    BY DEF StartRun, TruthInv, HoldsOnlyAtWork
<1>2. ClosesAuditLogs'
    BY DEF StartRun, TruthInv, ClosesAuditLogs, Exists, Open
<1>3. InactiveIsTrue'
    BY DEF StartRun, TruthInv, InactiveIsTrue
<1>4. ChecksInvalidItems'
    BY DEF StartRun, TruthInv, ChecksInvalidItems, HoldsOnlyAtWork, Invalid
<1>5. LogsAreTruthful'
    BY DEF StartRun, TruthInv, LogsAreTruthful, Exists
<1> QED BY <1>1, <1>2, <1>3, <1>4, <1>5 DEF TruthInv

(* What a run takes for inactive was reported inactive.                    *)
LEMMA AnswerTruth ==
    ASSUME BaseInv, TruthInv, NEW r \in Run,
           BulkAnswer(r) \/ BulkFails(r) \/ \E d \in Dept : AskOne(r, d) \/ AskOneFails(r, d)
    PROVE  TruthInv'
<1> USE DEF BaseInv, AuditTypeOK
<1>0. /\ UNCHANGED <<log, sso, seen, resolve, batch, insert, everInactive>>
      /\ pc[r] \in {"sso", "each"}
      /\ pc'[r] \in {"each", "logs"}
      /\ \A q \in Run : q # r => pc'[q] = pc[q] /\ answer'[q] = answer[q]
    BY DEF BulkAnswer, BulkFails, AskOne, AskOneFails, auxvars, calm
<1>1. HoldsOnlyAtWork'
    BY <1>0 DEF TruthInv, HoldsOnlyAtWork
<1>2. ClosesAuditLogs'
    BY <1>0 DEF TruthInv, ClosesAuditLogs, Exists, Open
<1>3. InactiveIsTrue'
    <2>1. ASSUME NEW d \in Dept, answer'[r][d] = "inactive" PROVE d \in everInactive
        <3>1. CASE BulkAnswer(r)
            BY <2>1, <3>1 DEF BulkAnswer, Reply, TruthInv, InactiveIsTrue
        <3>2. CASE BulkFails(r) \/ \E c \in Dept : AskOneFails(r, c)
            BY <2>1, <3>2 DEF BulkFails, AskOneFails, TruthInv, InactiveIsTrue
        <3>3. ASSUME NEW c \in Dept, AskOne(r, c) PROVE d \in everInactive
            BY <2>1, <3>3 DEF AskOne, Reply, TruthInv, InactiveIsTrue
        <3> QED BY <3>1, <3>2, <3>3
    <2> QED BY <1>0, <2>1 DEF TruthInv, InactiveIsTrue
<1>4. ChecksInvalidItems'
    <2>1. batch[r] \cup insert[r] = {}
        BY <1>0 DEF TruthInv, HoldsOnlyAtWork
    <2>2. \A q \in Run \ {r}, i \in Item : Invalid(q, i)' = Invalid(q, i)
        BY <1>0 DEF Invalid
    <2>3. ASSUME NEW q \in Run, NEW i \in batch[q] \cup insert[q]
          PROVE  Invalid(q, i)' # {}
        <3>1. q # r /\ i \in Item
            BY <2>1
        <3>2. Invalid(q, i) # {}
            BY DEF TruthInv, ChecksInvalidItems
        <3> QED BY <2>2, <3>1, <3>2
    <2> QED BY <1>0, <2>3 DEF ChecksInvalidItems
<1>5. LogsAreTruthful'
    BY <1>0 DEF TruthInv, LogsAreTruthful, Exists
<1> QED BY <1>1, <1>2, <1>3, <1>4, <1>5 DEF TruthInv

(* A run closes only logs that the audit opened.                           *)
LEMMA RevalidationTruth ==
    ASSUME BaseInv, TruthInv, NEW r \in Run,
           ReadOpenLogs(r) \/ RevalidationFails(r) \/ \E l \in LogId : ResolveLog(r, l)
    PROVE  TruthInv'
<1> USE DEF BaseInv, AuditTypeOK
<1>0. /\ UNCHANGED <<sso, seen, answer, batch, insert, everInactive>>
      /\ pc[r] \in {"logs", "work"}
      /\ pc'[r] = "work"
      /\ \A q \in Run : q # r => pc'[q] = pc[q] /\ resolve'[q] = resolve[q]
    BY DEF ReadOpenLogs, RevalidationFails, ResolveLog, auxvars, calm
<1>1. HoldsOnlyAtWork'
    BY <1>0 DEF TruthInv, HoldsOnlyAtWork
<1>2. ClosesAuditLogs'
    <2>1. CASE ReadOpenLogs(r)
        <3>1. \A l \in LogId : Open(l) => Exists(l)
            BY DEF Open, Exists, NoLog
        <3>2. \A l \in resolve'[r] : Open(l) /\ l \in LogId
            BY <2>1 DEF ReadOpenLogs
        <3> QED BY <1>0, <2>1, <3>1, <3>2 DEF ReadOpenLogs, TruthInv, ClosesAuditLogs, Exists, Open, auxvars, calm
    <2>2. CASE RevalidationFails(r)
        <3>1. resolve'[r] = {} /\ UNCHANGED log
            BY <2>2 DEF RevalidationFails
        <3> QED BY <1>0, <3>1 DEF TruthInv, ClosesAuditLogs, Exists, Open
    <2>3. ASSUME NEW l \in LogId, ResolveLog(r, l) PROVE ClosesAuditLogs'
        <3>1. log[l] \in Log
            BY <2>3 DEF ResolveLog, TruthInv, ClosesAuditLogs, Exists
        <3>2. /\ log'[l].status = "resolved" /\ log'[l].by = "nobody"
              /\ \A m \in LogId : m # l => log'[m] = log[m]
            BY <2>3, <3>1 DEF ResolveLog, Log
        <3>3. log'[l] # NoLog
            BY <3>2 DEF NoLog
        <3>4. resolve'[r] \subseteq resolve[r]
            BY <2>3 DEF ResolveLog
        <3> QED BY <1>0, <3>2, <3>3, <3>4 DEF TruthInv, ClosesAuditLogs, Exists, Open
    <2> QED BY <2>1, <2>2, <2>3
<1>3. InactiveIsTrue'
    BY <1>0 DEF TruthInv, InactiveIsTrue
<1>4. ChecksInvalidItems'
    BY <1>0 DEF TruthInv, ChecksInvalidItems, Invalid
<1>5. LogsAreTruthful'
    <2>1. CASE UNCHANGED log
        BY <1>0, <2>1 DEF TruthInv, LogsAreTruthful, Exists
    <2>2. ASSUME NEW l \in LogId, ResolveLog(r, l) PROVE LogsAreTruthful'
        <3>1. log[l] \in Log /\ Exists(l) /\ log[l].by = "nobody"
            BY <2>2 DEF ResolveLog, TruthInv, ClosesAuditLogs, Exists
        <3>2. /\ log'[l].invalid = log[l].invalid
              /\ \A m \in LogId : m # l => log'[m] = log[m]
            BY <2>2, <3>1 DEF ResolveLog, Log
        <3> QED BY <1>0, <3>1, <3>2 DEF TruthInv, LogsAreTruthful, Exists
    <2> QED BY <2>1, <2>2 DEF ReadOpenLogs, RevalidationFails, auxvars, calm
<1> QED BY <1>1, <1>2, <1>3, <1>4, <1>5 DEF TruthInv

(* A run opens logs only for items with an invalid department.             *)
LEMMA CheckTruth ==
    ASSUME BaseInv, TruthInv, NEW r \in Run,
           BeginBatch(r) \/ EndRun(r) \/ \E i \in Item : \/ FindOpenLog(r, i)
                                                      \/ ItemFails(r, i)
                                                      \/ \E l \in LogId : InsertLog(r, i, l)
    PROVE  TruthInv'
<1> USE DEF BaseInv, AuditTypeOK
<1>0. /\ UNCHANGED <<sso, resolve, everInactive>>
      /\ \A q \in Run : q # r => /\ pc'[q] = pc[q] /\ answer'[q] = answer[q]
                                 /\ seen'[q] = seen[q] /\ batch'[q] = batch[q]
                                 /\ insert'[q] = insert[q]
      /\ \A d \in Dept : answer'[r][d] = answer[r][d] \/ answer'[r][d] = "none"
    BY DEF BeginBatch, EndRun, FindOpenLog, ItemFails, InsertLog, auxvars, calm
<1>a. pc[r] = "work"
    BY DEF BeginBatch, EndRun, Settled, FindOpenLog, ItemFails, InsertLog, TruthInv, HoldsOnlyAtWork
<1>b. CASE EndRun(r)
    <2>1. /\ resolve[r] = {} /\ batch'[r] = {} /\ insert'[r] = {}
          /\ \A d \in Dept : answer'[r][d] = "none"
          /\ UNCHANGED <<log, batch, insert>>
        BY <1>b DEF EndRun, Settled
    <2>2. HoldsOnlyAtWork'
        BY <1>0, <2>1 DEF TruthInv, HoldsOnlyAtWork
    <2>3. ClosesAuditLogs'
        BY <1>0, <2>1 DEF TruthInv, ClosesAuditLogs, Exists, Open
    <2>4. InactiveIsTrue'
        BY <1>0 DEF TruthInv, InactiveIsTrue
    <2>5. ChecksInvalidItems'
        <3>1. ASSUME NEW q \in Run, NEW i \in batch'[q] \cup insert'[q]
              PROVE  (Invalid(q, i) # {})'
            <4>1. q # r /\ i \in batch[q] \cup insert[q]
                BY <1>0, <2>1, <3>1
            <4>2. Invalid(q, i) # {}
                BY <4>1 DEF TruthInv, ChecksInvalidItems
            <4> QED BY <1>0, <4>1, <4>2 DEF Invalid
        <3> QED BY <3>1 DEF ChecksInvalidItems
    <2>6. LogsAreTruthful'
        BY <1>0, <2>1 DEF TruthInv, LogsAreTruthful, Exists
    <2> QED BY <2>2, <2>3, <2>4, <2>5, <2>6 DEF TruthInv
<1>c. CASE ~ EndRun(r)
    <2>0. UNCHANGED <<pc, seen, answer>>
        BY <1>c DEF BeginBatch, FindOpenLog, ItemFails, InsertLog
    <2>1. \A i \in batch'[r] \cup insert'[r] : Invalid(r, i) # {}
        <3>1. \A i \in batch[r] \cup insert[r] : Invalid(r, i) # {}
            BY DEF TruthInv, ChecksInvalidItems
        <3>2. CASE BeginBatch(r)
            BY <3>1, <3>2 DEF BeginBatch
        <3>3. ASSUME NEW i \in Item, \/ FindOpenLog(r, i) \/ ItemFails(r, i)
                                     \/ \E l \in LogId : InsertLog(r, i, l)
              PROVE  batch'[r] \cup insert'[r] \subseteq batch[r] \cup insert[r]
            BY <3>3 DEF FindOpenLog, ItemFails, InsertLog
        <3> QED BY <1>c, <3>1, <3>2, <3>3
    <2>2. HoldsOnlyAtWork'
        BY <1>0, <1>a, <2>0 DEF TruthInv, HoldsOnlyAtWork
    <2>3. InactiveIsTrue'
        BY <1>0, <2>0 DEF TruthInv, InactiveIsTrue
    <2>4. ChecksInvalidItems'
        <3>1. ASSUME NEW q \in Run, NEW i \in batch'[q] \cup insert'[q]
              PROVE  (Invalid(q, i) # {})'
            <4>1. Invalid(q, i) # {}
                BY <1>0, <2>1 DEF TruthInv, ChecksInvalidItems
            <4> QED BY <2>0, <4>1 DEF Invalid
        <3> QED BY <3>1 DEF ChecksInvalidItems
    <2>5. ClosesAuditLogs' /\ LogsAreTruthful'
        <3>1. CASE UNCHANGED log
            BY <1>0, <3>1 DEF TruthInv, ClosesAuditLogs, LogsAreTruthful, Exists, Open
        <3>2. ASSUME NEW i \in Item, NEW l \in LogId, InsertLog(r, i, l)
              PROVE  ClosesAuditLogs' /\ LogsAreTruthful'
            <4>1. /\ log'[l].status = "detected" /\ log'[l].by = "nobody"
                  /\ log'[l].invalid = Invalid(r, i)
                  /\ \A m \in LogId : m # l => log'[m] = log[m]
                BY <3>2 DEF InsertLog
            <4>2. log'[l] # NoLog
                BY <4>1 DEF NoLog
            <4>e. everInactive' = everInactive /\ resolve' = resolve
                BY <1>0
            <4>3. Invalid(r, i) # {} /\ Invalid(r, i) \subseteq everInactive
                BY <3>2 DEF InsertLog, TruthInv, ChecksInvalidItems, InactiveIsTrue, Invalid
            <4>4. ClosesAuditLogs'
                BY <4>e, <4>1, <4>2 DEF TruthInv, ClosesAuditLogs, Exists, Open
            <4>5. LogsAreTruthful'
                BY <4>e, <4>1, <4>3 DEF TruthInv, LogsAreTruthful, Exists
            <4> QED BY <4>4, <4>5
        <3> QED BY <1>c, <3>1, <3>2 DEF BeginBatch, FindOpenLog, ItemFails
    <2> QED BY <2>2, <2>3, <2>4, <2>5 DEF TruthInv
<1> QED BY <1>b, <1>c

(* What SSO, the requests and a restart do makes no log untrue.            *)
LEMMA EnvironmentTruth ==
    ASSUME BaseInv, TruthInv, Environment PROVE TruthInv'
<1> USE DEF BaseInv, AuditTypeOK
<1>1. ASSUME NEW d \in Dept, SsoChange(d) PROVE TruthInv'
    <2>0. UNCHANGED <<log, runvars>> /\ everInactive \subseteq everInactive'
        BY <1>1 DEF SsoChange
    <2>1. InactiveIsTrue'
        BY <1>1, <2>0 DEF SsoChange, runvars, TruthInv, InactiveIsTrue
    <2>2. HoldsOnlyAtWork' /\ ClosesAuditLogs'
        BY <2>0 DEF runvars, TruthInv, HoldsOnlyAtWork, ClosesAuditLogs, Exists, Open
    <2>3. ChecksInvalidItems' /\ LogsAreTruthful'
        BY <2>0 DEF runvars, TruthInv, ChecksInvalidItems, LogsAreTruthful, Exists, Invalid
    <2> QED BY <2>1, <2>2, <2>3 DEF TruthInv
<1>2. CASE EditStep
    BY <1>2 DEF EditStep, runvars, auxvars, calm, TruthInv, HoldsOnlyAtWork, ClosesAuditLogs,
                InactiveIsTrue, ChecksInvalidItems, LogsAreTruthful, Exists, Open, Invalid
<1>3. ASSUME NEW i \in Item, NEW ms \in Mappings, NEW l \in LogId, ReplaceAndLog(i, ms, l)
      PROVE  TruthInv'
    <2>0. UNCHANGED <<sso, runvars, everInactive>>
        BY <1>3 DEF ReplaceAndLog, auxvars, calm
    <2>1. /\ ~ Exists(l)
          /\ log'[l].status = "resolved" /\ log'[l].by = "admin"
          /\ \A m \in LogId : m # l => log'[m] = log[m]
        BY <1>3 DEF ReplaceAndLog
    <2>2. HoldsOnlyAtWork' /\ InactiveIsTrue' /\ ChecksInvalidItems'
        BY <2>0 DEF runvars, TruthInv, HoldsOnlyAtWork, InactiveIsTrue, ChecksInvalidItems, Invalid
    <2>3. ClosesAuditLogs'
        BY <2>0, <2>1 DEF runvars, TruthInv, ClosesAuditLogs, Exists, Open
    <2>4. LogsAreTruthful'
        BY <2>0, <2>1 DEF TruthInv, LogsAreTruthful, Exists
    <2> QED BY <2>2, <2>3, <2>4 DEF TruthInv
<1>4. CASE Crash
    <2>1. UNCHANGED <<sso, log, everInactive>>
        BY <1>4 DEF Crash, auxvars, calm
    <2>2. HoldsOnlyAtWork' /\ ChecksInvalidItems'
        BY <1>4 DEF Crash, HoldsOnlyAtWork, ChecksInvalidItems
    <2>3. ClosesAuditLogs' /\ InactiveIsTrue'
        BY <1>4, <2>1 DEF Crash, TruthInv, ClosesAuditLogs, InactiveIsTrue, Exists, Open
    <2>4. LogsAreTruthful'
        BY <2>1 DEF TruthInv, LogsAreTruthful, Exists
    <2> QED BY <2>2, <2>3, <2>4 DEF TruthInv
<1> QED BY <1>1, <1>2, <1>3, <1>4 DEF Environment

(* Every step keeps TruthInv.                                              *)
LEMMA TruthStep == BaseInv /\ TruthInv /\ [Next]_vars => TruthInv'
<1> SUFFICES ASSUME BaseInv, TruthInv, [Next]_vars PROVE TruthInv'
    OBVIOUS
<1>1. ASSUME NEW r \in Run, RunProgress(r) PROVE TruthInv'
    BY <1>1, AnswerTruth, RevalidationTruth, CheckTruth DEF RunProgress
<1>2. ASSUME NEW r \in Run, RunFault(r) PROVE TruthInv'
    BY <1>2, AnswerTruth, RevalidationTruth, CheckTruth DEF RunFault
<1>3. CASE UNCHANGED vars
    BY <1>3 DEF vars, runvars, auxvars, calm, TruthInv, HoldsOnlyAtWork, ClosesAuditLogs,
                InactiveIsTrue, ChecksInvalidItems, LogsAreTruthful, Exists, Open, Invalid
<1>4. ASSUME NEW r \in Run, EmptyRun(r) PROVE UNCHANGED vars
    BY <1>4 DEF EmptyRun
<1> QED BY <1>1, <1>2, <1>3, <1>4, StartRunTruth, EnvironmentTruth DEF Next

-----------------------------------------------------------------------------
(***************************************************************************)
(* Runs that follow one another.                                           *)
(***************************************************************************)

(* A step that starts no run, picks no item for insertion and opens no log *)
(* keeps SerialInv.                                                        *)
LEMMA QuietSerial ==
    ASSUME SerialInv, UNCHANGED overlap,
           \A q \in Run : pc'[q] # "idle" => pc[q] # "idle",
           \A q \in Run : insert'[q] \subseteq insert[q],
           \A l \in LogId : log'[l].status = "detected" =>
                            log[l].status = "detected" /\ log'[l].item = log[l].item
    PROVE  SerialInv'
<1>1. Alone'
    BY DEF SerialInv, Alone
<1>2. InsertsForFreeItems'
    BY DEF SerialInv, InsertsForFreeItems, Open
<1>3. NoDuplicateWithoutOverlap'
    BY DEF SerialInv, NoDuplicateWithoutOverlap, Open
<1> QED BY <1>1, <1>2, <1>3 DEF SerialInv

(* A run that starts beside another one sets overlap.                      *)
LEMMA StartRunSerial ==
    ASSUME Inv, NEW r \in Run, StartRun(r) PROVE SerialInv'
<1>0. /\ UNCHANGED <<log, insert>>
      /\ overlap' = (overlap \/ \E q \in Run \ {r} : pc[q] # "idle")
      /\ \A q \in Run \ {r} : pc'[q] = pc[q]
    BY DEF StartRun, Inv, BaseInv, AuditTypeOK
<1>1. Alone'
    <2>1. ASSUME NEW p \in Run, NEW q \in Run, ~ overlap', pc'[p] # "idle", pc'[q] # "idle"
          PROVE  p = q
        <3>1. \A x \in Run \ {r} : pc'[x] = "idle"
            BY <1>0, <2>1
        <3>2. p = r /\ q = r
            BY <2>1, <3>1
        <3> QED BY <3>2
    <2> QED BY <2>1 DEF Alone
<1>2. InsertsForFreeItems' /\ NoDuplicateWithoutOverlap'
    BY <1>0 DEF Inv, SerialInv, InsertsForFreeItems, NoDuplicateWithoutOverlap, Open
<1> QED BY <1>1, <1>2 DEF SerialInv

(* The item picked for insertion has no open log at that moment. *)
LEMMA FindOpenLogSerial ==
    ASSUME Inv, NEW r \in Run, NEW i \in Item, FindOpenLog(r, i) PROVE SerialInv'
<1>0. UNCHANGED <<pc, log, overlap>>
    BY DEF FindOpenLog, auxvars, calm
<1>1. \A q \in Run : \A j \in insert'[q] :
         j \in insert[q] \/ (j = i /\ \A l \in LogId : Open(l) => log[l].item # i)
    BY DEF FindOpenLog, Inv, BaseInv, AuditTypeOK
<1>2. InsertsForFreeItems'
    BY <1>0, <1>1 DEF Inv, SerialInv, InsertsForFreeItems, Open
<1>3. Alone' /\ NoDuplicateWithoutOverlap'
    BY <1>0 DEF Inv, SerialInv, Alone, NoDuplicateWithoutOverlap, Open
<1> QED BY <1>2, <1>3 DEF SerialInv

(* Nobody else is at work, so the item is still free when its log is made, *)
(* and no other item waits for a log of this one.                          *)
LEMMA InsertLogSerial ==
    ASSUME Inv, NEW r \in Run, NEW i \in Item, NEW l \in LogId, InsertLog(r, i, l)
    PROVE  SerialInv'
<1>0. /\ UNCHANGED <<pc, overlap>>
      /\ i \in insert[r]
      /\ log'[l].status = "detected" /\ log'[l].item = i
      /\ \A m \in LogId : m # l => log'[m] = log[m]
      /\ insert'[r] = insert[r] \ {i}
      /\ \A q \in Run : q # r => insert'[q] = insert[q]
    BY DEF InsertLog, auxvars, calm, Inv, BaseInv, AuditTypeOK
<1>1. Alone'
    BY <1>0 DEF Inv, SerialInv, Alone
<1>2. ASSUME ~ overlap, NEW q \in Run, NEW j \in insert'[q] PROVE j # i /\ j \in insert[q]
    <2>1. pc[r] = "work" /\ (insert[q] # {} => pc[q] = "work")
        BY <1>0 DEF Inv, TruthInv, HoldsOnlyAtWork
    <2>2. j \in insert[q]
        BY <1>0
    <2>3. q = r
        BY <1>2, <2>1, <2>2 DEF Inv, SerialInv, Alone
    <2> QED BY <1>0, <2>2, <2>3
<1>3. InsertsForFreeItems'
    BY <1>0, <1>2 DEF Inv, SerialInv, InsertsForFreeItems, Open
<1>4. NoDuplicateWithoutOverlap'
    BY <1>0 DEF Inv, SerialInv, InsertsForFreeItems, NoDuplicateWithoutOverlap, Open
<1> QED BY <1>1, <1>3, <1>4 DEF SerialInv

(* Closing a log changes its status and nothing that it reports. *)
LEMMA ResolveLogEffect ==
    ASSUME Inv, NEW r \in Run, NEW l \in LogId, ResolveLog(r, l)
    PROVE  /\ log[l] \in Log
           /\ log'[l] = [log[l] EXCEPT !.status = "resolved", !.by = "nobody"]
           /\ log'[l].status = "resolved"
           /\ log'[l].item = log[l].item /\ log'[l].invalid = log[l].invalid
           /\ log'[l].by = log[l].by
           /\ \A m \in LogId : m # l => log'[m] = log[m]
<1>1. log[l] \in Log /\ log[l].by = "nobody"
    BY DEF ResolveLog, Inv, BaseInv, AuditTypeOK, TruthInv, ClosesAuditLogs, Exists
<1>2. log' = [log EXCEPT ![l] = [log[l] EXCEPT !.status = "resolved", !.by = "nobody"]]
    BY DEF ResolveLog
<1> QED BY <1>1, <1>2 DEF Inv, BaseInv, AuditTypeOK, Log

(* Every step keeps SerialInv.                                             *)
LEMMA SerialStep == Inv /\ [Next]_vars => SerialInv'
<1> SUFFICES ASSUME Inv, [Next]_vars PROVE SerialInv'
    OBVIOUS
<1>a. SerialInv
    BY DEF Inv
<1> USE DEF Inv, BaseInv, AuditTypeOK
<1>1. ASSUME NEW r \in Run,
             \/ BulkAnswer(r) \/ BulkFails(r) \/ ReadOpenLogs(r) \/ RevalidationFails(r)
             \/ BeginBatch(r) \/ EndRun(r)
             \/ \E d \in Dept : AskOne(r, d) \/ AskOneFails(r, d)
             \/ \E i \in Item : ItemFails(r, i)
      PROVE  SerialInv'
    <2>0. UNCHANGED log
        BY <1>1 DEF BulkAnswer, BulkFails, ReadOpenLogs, RevalidationFails, BeginBatch, EndRun,
                    AskOne, AskOneFails, ItemFails
    <2>1. UNCHANGED overlap
        BY <1>1 DEF BulkAnswer, BulkFails, ReadOpenLogs, RevalidationFails, BeginBatch, EndRun,
                    AskOne, AskOneFails, ItemFails, auxvars, calm
    <2>3. UNCHANGED insert \/ \E i \in Item : ItemFails(r, i)
        BY <1>1 DEF BulkAnswer, BulkFails, ReadOpenLogs, RevalidationFails, BeginBatch, EndRun,
                    AskOne, AskOneFails
    <2>5. ASSUME NEW i \in Item, ItemFails(r, i)
          PROVE  \A q \in Run : insert'[q] \subseteq insert[q]
        BY <2>5 DEF ItemFails
    <2>4. \A q \in Run : insert'[q] \subseteq insert[q]
        BY <2>3, <2>5
    <2>2. \A q \in Run : pc'[q] # "idle" => pc[q] # "idle"
        BY <1>1 DEF BulkAnswer, BulkFails, ReadOpenLogs, RevalidationFails, BeginBatch, EndRun,
                    AskOne, AskOneFails, ItemFails, auxvars, calm
    <2> QED BY <1>a, <2>0, <2>1, <2>2, <2>4, QuietSerial
<1>2. ASSUME NEW r \in Run, NEW l \in LogId, ResolveLog(r, l) PROVE SerialInv'
    <2>1. UNCHANGED <<pc, insert, overlap>>
        BY <1>2 DEF ResolveLog, auxvars, calm
    <2> QED BY <1>2, <1>a, <2>1, ResolveLogEffect, QuietSerial
<1>3. CASE Environment
    <2>1. ASSUME NEW d \in Dept, SsoChange(d) PROVE SerialInv'
        BY <1>a, <2>1, QuietSerial DEF SsoChange, runvars
    <2>2. CASE EditStep
        BY <1>a, <2>2, QuietSerial DEF EditStep, runvars, auxvars, calm
    <2>3. ASSUME NEW i \in Item, NEW ms \in Mappings, NEW l \in LogId, ReplaceAndLog(i, ms, l)
          PROVE  SerialInv'
        <3>1. UNCHANGED <<runvars, overlap>>
            BY <2>3 DEF ReplaceAndLog, auxvars, calm
        <3>2. /\ log'[l].status = "resolved"
              /\ \A m \in LogId : m # l => log'[m] = log[m]
            BY <2>3 DEF ReplaceAndLog
        <3> QED BY <1>a, <3>1, <3>2, QuietSerial DEF runvars
    <2>4. CASE Crash
        BY <1>a, <2>4, QuietSerial DEF Crash, auxvars, calm
    <2> QED BY <1>3, <2>1, <2>2, <2>3, <2>4 DEF Environment
<1>4. CASE UNCHANGED vars
    BY <1>4, <1>a, QuietSerial DEF vars, runvars, auxvars, calm
<1>5. ASSUME NEW r \in Run, EmptyRun(r) PROVE UNCHANGED vars
    BY <1>5 DEF EmptyRun
<1>6. ASSUME NEW r \in Run, RunProgress(r) PROVE SerialInv'
    BY <1>6, <1>1, <1>2, FindOpenLogSerial, InsertLogSerial DEF RunProgress
<1>7. ASSUME NEW r \in Run, RunFault(r) PROVE SerialInv'
    BY <1>7, <1>1 DEF RunFault
<1> QED BY <1>3, <1>4, <1>5, <1>6, <1>7, StartRunSerial DEF Next

-----------------------------------------------------------------------------
(* With overlap several runs may find an item without an open log at once; *)
(* each of them opens one, and looks again before it opens another.        *)
InsertsItsFirst ==
    \A r \in Run : \A i \in insert[r] : \A l \in LogId :
        Open(l) /\ log[l].item = i => opener[l] # r

OpenerType == opener \in [LogId -> Run \cup {"nobody"}]

OpenerInv == OpenerType /\ InsertsItsFirst /\ OneOpenLogEach

(* A step that picks no item for insertion and opens no log keeps it. *)
LEMMA QuietOpener ==
    ASSUME OpenerInv, UNCHANGED opener,
           \A q \in Run : insert'[q] \subseteq insert[q],
           \A l \in LogId : log'[l].status = "detected" =>
                            log[l].status = "detected" /\ log'[l].item = log[l].item
    PROVE  OpenerInv'
<1>1. InsertsItsFirst'
    BY DEF OpenerInv, InsertsItsFirst, Open
<1>2. OneOpenLogEach'
    BY DEF OpenerInv, OneOpenLogEach, Open
<1> QED BY <1>1, <1>2 DEF OpenerInv, OpenerType

(* The item picked for insertion has no open log at that moment. *)
LEMMA FindOpenLogOpener ==
    ASSUME BaseInv, OpenerInv, NEW r \in Run, NEW i \in Item, FindOpenLog(r, i) PROVE OpenerInv'
<1>0. UNCHANGED <<log, opener>>
    BY DEF FindOpenLog, auxvars
<1>1. \A q \in Run : \A j \in insert'[q] :
         j \in insert[q] \/ (j = i /\ \A l \in LogId : Open(l) => log[l].item # i)
    BY DEF FindOpenLog, BaseInv, AuditTypeOK
<1>2. InsertsItsFirst'
    BY <1>0, <1>1 DEF OpenerInv, InsertsItsFirst, Open
<1>3. OneOpenLogEach'
    BY <1>0 DEF OpenerInv, OneOpenLogEach, Open
<1> QED BY <1>0, <1>2, <1>3 DEF OpenerInv, OpenerType

(* The run that opens a log had opened none for the item that is open, and *)
(* no longer waits to open one.                                            *)
LEMMA InsertLogOpener ==
    ASSUME BaseInv, OpenerInv, NEW r \in Run, NEW i \in Item, NEW l \in LogId, InsertLog(r, i, l)
    PROVE  OpenerInv'
<1>0. /\ i \in insert[r]
      /\ log'[l].status = "detected" /\ log'[l].item = i /\ opener'[l] = r
      /\ \A m \in LogId : m # l => log'[m] = log[m] /\ opener'[m] = opener[m]
      /\ insert'[r] = insert[r] \ {i}
      /\ \A q \in Run : q # r => insert'[q] = insert[q]
    BY DEF InsertLog, BaseInv, AuditTypeOK, OpenerInv, OpenerType
<1>1. InsertsItsFirst'
    BY <1>0 DEF OpenerInv, InsertsItsFirst, Open
<1>2. OneOpenLogEach'
    BY <1>0 DEF OpenerInv, InsertsItsFirst, OneOpenLogEach, Open
<1>3. OpenerType'
    BY DEF InsertLog, OpenerInv, OpenerType
<1> QED BY <1>1, <1>2, <1>3 DEF OpenerInv

(* Every step keeps OpenerInv. *)
LEMMA OpenerStep == Inv /\ OpenerInv /\ [Next]_vars => OpenerInv'
<1> SUFFICES ASSUME Inv, OpenerInv, [Next]_vars PROVE OpenerInv'
    OBVIOUS
<1>a. BaseInv
    BY DEF Inv
<1>1. ASSUME NEW r \in Run,
             \/ StartRun(r) \/ BulkAnswer(r) \/ BulkFails(r) \/ ReadOpenLogs(r)
             \/ RevalidationFails(r) \/ BeginBatch(r) \/ EndRun(r)
             \/ \E d \in Dept : AskOne(r, d) \/ AskOneFails(r, d)
      PROVE  OpenerInv'
    <2>1. UNCHANGED <<log, insert, opener>>
        BY <1>1 DEF StartRun, BulkAnswer, BulkFails, ReadOpenLogs, RevalidationFails, BeginBatch,
                    EndRun, AskOne, AskOneFails, auxvars
    <2> QED BY <2>1, QuietOpener
<1>2. ASSUME NEW r \in Run, NEW i \in Item, ItemFails(r, i) PROVE OpenerInv'
    <2>1. UNCHANGED <<log, opener>> /\ \A q \in Run : insert'[q] \subseteq insert[q]
        BY <1>2, <1>a DEF ItemFails, auxvars, BaseInv, AuditTypeOK
    <2> QED BY <2>1, QuietOpener
<1>3. ASSUME NEW r \in Run, NEW l \in LogId, ResolveLog(r, l) PROVE OpenerInv'
    <2>1. UNCHANGED <<insert, opener>>
        BY <1>3 DEF ResolveLog, auxvars
    <2> QED BY <1>3, <2>1, ResolveLogEffect, QuietOpener
<1>4. CASE Environment
    <2>1. ASSUME NEW d \in Dept, SsoChange(d) PROVE OpenerInv'
        BY <2>1, QuietOpener DEF SsoChange, runvars
    <2>2. CASE EditStep
        BY <2>2, QuietOpener DEF EditStep, runvars, auxvars
    <2>3. ASSUME NEW i \in Item, NEW ms \in Mappings, NEW l \in LogId, ReplaceAndLog(i, ms, l)
          PROVE  OpenerInv'
        <3>1. UNCHANGED <<insert, opener>>
            BY <2>3 DEF ReplaceAndLog, runvars, auxvars
        <3>2. /\ log'[l].status = "resolved"
              /\ \A m \in LogId : m # l => log'[m] = log[m]
            BY <2>3, <1>a DEF ReplaceAndLog, BaseInv, AuditTypeOK
        <3> QED BY <3>1, <3>2, QuietOpener
    <2>4. CASE Crash
        BY <2>4, QuietOpener DEF Crash, auxvars
    <2> QED BY <1>4, <2>1, <2>2, <2>3, <2>4 DEF Environment
<1>5. CASE UNCHANGED vars
    BY <1>5, QuietOpener DEF vars, runvars, auxvars
<1>6. ASSUME NEW r \in Run, EmptyRun(r) PROVE UNCHANGED vars
    BY <1>6 DEF EmptyRun
<1>7. ASSUME NEW r \in Run, RunProgress(r) PROVE OpenerInv'
    BY <1>1, <1>3, <1>7, <1>a, FindOpenLogOpener, InsertLogOpener DEF RunProgress
<1>8. ASSUME NEW r \in Run, RunFault(r) PROVE OpenerInv'
    BY <1>1, <1>2, <1>8 DEF RunFault
<1> QED BY <1>1, <1>4, <1>5, <1>6, <1>7, <1>8 DEF Next
-----------------------------------------------------------------------------
(* A step that leaves the logs alone, keeps what was seen active, and      *)
(* gives no run new answers or logs to close keeps FreshInv.                *)
LEMMA QuietFresh ==
    ASSUME FreshInv, UNCHANGED <<log, overlap>>,
           resolve \in [Run -> SUBSET LogId],
           \A l \in LogId : seenActive[l] \subseteq seenActive'[l],
           \A q \in Run : resolve'[q] \subseteq resolve[q],
           \A q \in Run : pc'[q] \in {"each", "logs"} =>
                pc[q] \in {"each", "logs"} /\ answer'[q] = answer[q]
    PROVE  FreshInv'
<1>1. AnswersAreFresh'
    BY DEF FreshInv, AnswersAreFresh, Open
<1>2. FreshResolveWithoutOverlap'
    BY DEF FreshInv, FreshResolveWithoutOverlap
<1> QED BY <1>1, <1>2 DEF FreshInv

(* A run starts with an empty map, also when it asks nothing. *)
LEMMA StartRunFresh ==
    ASSUME Inv, NEW r \in Run, StartRun(r) PROVE FreshInv'
<1>0. /\ UNCHANGED <<log, resolve, answer, seenActive>>
      /\ ~ overlap' => ~ overlap
      /\ pc[r] = "idle"
      /\ \A q \in Run \ {r} : pc'[q] = pc[q]
    BY DEF StartRun, Inv, BaseInv, AuditTypeOK
<1>1. \A d \in Dept : answer[r][d] = "none"
    BY <1>0 DEF Inv, TruthInv, HoldsOnlyAtWork
<1>2. AnswersAreFresh'
    BY <1>0, <1>1 DEF Inv, FreshInv, AnswersAreFresh, Open
<1>3. FreshResolveWithoutOverlap'
    BY <1>0 DEF Inv, FreshInv, FreshResolveWithoutOverlap
<1> QED BY <1>2, <1>3 DEF FreshInv

(* What a run learns to be active is seen active by every log there is. *)
LEMMA AnswerFresh ==
    ASSUME Inv, NEW r \in Run,
           BulkAnswer(r) \/ BulkFails(r) \/ \E d \in Dept : AskOne(r, d)
    PROVE  FreshInv'
<1> USE DEF Inv, BaseInv, AuditTypeOK
<1>0. /\ UNCHANGED <<log, resolve, overlap>>
      /\ \A q \in Run \ {r} : pc'[q] = pc[q] /\ answer'[q] = answer[q]
    BY DEF BulkAnswer, BulkFails, AskOne, auxvars, calm
<1>1. \A l \in LogId : seenActive[l] \subseteq seenActive'[l]
    BY DEF BulkAnswer, BulkFails, AskOne, SawActive, auxvars, calm
<1>2. ASSUME ~ overlap, NEW l \in LogId, Open(l), NEW d \in Dept, answer'[r][d] = "active"
      PROVE  d \in seenActive'[l]
    <2>0. Exists(l)
        BY <1>2 DEF Open, Exists, NoLog
    <2>1. CASE BulkAnswer(r)
        BY <1>2, <2>0, <2>1 DEF BulkAnswer, SawActive
    <2>2. CASE BulkFails(r)
        BY <1>2, <2>2 DEF BulkFails, TruthInv, HoldsOnlyAtWork
    <2>3. ASSUME NEW c \in Dept, AskOne(r, c) PROVE d \in seenActive'[l]
        <3>1. CASE d = c
            BY <1>2, <2>0, <2>3, <3>1 DEF AskOne, SawActive
        <3>2. CASE d # c
            <4>1. answer[r][d] = "active" /\ pc[r] = "each"
                BY <1>2, <2>3, <3>2 DEF AskOne
            <4>2. d \in seenActive[l]
                BY <1>2, <4>1 DEF FreshInv, AnswersAreFresh
            <4> QED BY <1>1, <4>2
        <3> QED BY <3>1, <3>2
    <2> QED BY <2>1, <2>2, <2>3
<1>3. AnswersAreFresh'
    <2>1. ASSUME ~ overlap, NEW q \in Run, pc'[q] \in {"each", "logs"}, NEW l \in LogId,
                 NEW d \in Dept, Open(l), answer'[q][d] = "active"
          PROVE  d \in seenActive'[l]
        BY <1>0, <1>1, <1>2, <2>1 DEF FreshInv, AnswersAreFresh
    <2>2. ASSUME ~ overlap, NEW q \in Run, NEW l \in resolve[q]
          PROVE  log[l].invalid \subseteq seenActive'[l]
        <3>1. log[l].invalid \subseteq seenActive[l] /\ l \in LogId
            BY <2>2 DEF FreshInv, AnswersAreFresh
        <3> QED BY <1>1, <3>1
    <2>3. UNCHANGED log /\ UNCHANGED resolve /\ UNCHANGED overlap
        BY <1>0
    <2>4. \A l \in LogId : Open(l)' <=> Open(l)
        BY <2>3 DEF Open
    <2> QED BY <2>1, <2>2, <2>3, <2>4 DEF AnswersAreFresh
<1>4. FreshResolveWithoutOverlap'
    BY <1>0, <1>1 DEF FreshInv, FreshResolveWithoutOverlap
<1> QED BY <1>3, <1>4 DEF FreshInv

(* The logs a run decides to close are open, with departments it holds as   *)
(* active.                                                                 *)
LEMMA ReadOpenLogsFresh ==
    ASSUME Inv, NEW r \in Run, ReadOpenLogs(r) PROVE FreshInv'
<1> USE DEF Inv, BaseInv, AuditTypeOK
<1>0. /\ UNCHANGED <<log, answer, overlap, seenActive>>
      /\ pc[r] = "logs" /\ pc'[r] = "work"
      /\ \A q \in Run \ {r} : pc'[q] = pc[q] /\ resolve'[q] = resolve[q]
    BY DEF ReadOpenLogs, auxvars, calm
<1>1. ASSUME ~ overlap, NEW l \in resolve'[r] PROVE log[l].invalid \subseteq seenActive[l]
    <2>1. l \in LogId /\ Open(l) /\ Reactivated(r, l)
        BY <1>1 DEF ReadOpenLogs
    <2>2. log[l] \in Log
        BY <2>1 DEF Open, NoLog
    <2>3. \A d \in log[l].invalid : d \in Dept /\ answer[r][d] = "active"
        BY <2>1, <2>2 DEF Reactivated, Log
    <2> QED BY <1>0, <1>1, <2>1, <2>3 DEF FreshInv, AnswersAreFresh
<1>2. AnswersAreFresh'
    BY <1>0, <1>1 DEF FreshInv, AnswersAreFresh, Open
<1>3. FreshResolveWithoutOverlap'
    BY <1>0 DEF FreshInv, FreshResolveWithoutOverlap
<1> QED BY <1>2, <1>3 DEF FreshInv

(* A log that is closed had its departments seen active since it was opened. *)
LEMMA ResolveLogFresh ==
    ASSUME Inv, NEW r \in Run, NEW l \in LogId, ResolveLog(r, l) PROVE FreshInv'
<1>0. /\ UNCHANGED <<pc, answer, overlap, seenActive>>
      /\ l \in resolve[r]
      /\ \A q \in Run : resolve'[q] \subseteq resolve[q]
      /\ \A q \in Run : resolve'[q] \in SUBSET LogId
    BY DEF ResolveLog, auxvars, calm, Inv, BaseInv, AuditTypeOK
<1>1. /\ log'[l].status = "resolved"
      /\ log'[l].invalid = log[l].invalid
      /\ \A m \in LogId : m # l => log'[m] = log[m]
    BY ResolveLogEffect
<1>2. AnswersAreFresh'
    <2>1. \A m \in LogId : /\ log'[m].status = "detected" => log[m].status = "detected"
                          /\ log'[m].invalid = log[m].invalid
        BY <1>1
    <2>2. ASSUME ~ overlap, NEW q \in Run, NEW m \in resolve'[q]
          PROVE  log'[m].invalid \subseteq seenActive[m]
        BY <1>0, <2>1, <2>2 DEF Inv, FreshInv, AnswersAreFresh
    <2> QED BY <1>0, <2>1, <2>2 DEF Inv, FreshInv, AnswersAreFresh, Open
<1>3. FreshResolveWithoutOverlap'
    BY <1>0, <1>1 DEF Inv, FreshInv, AnswersAreFresh, FreshResolveWithoutOverlap
<1> QED BY <1>2, <1>3 DEF FreshInv

(* The run that opens a log is past its questions, and it is alone. *)
LEMMA InsertLogFresh ==
    ASSUME Inv, NEW r \in Run, NEW i \in Item, NEW l \in LogId, InsertLog(r, i, l)
    PROVE  FreshInv'
<1>0. /\ UNCHANGED <<pc, answer, resolve, overlap, seenActive>>
      /\ i \in insert[r] /\ ~ Exists(l)
      /\ log'[l].status = "detected"
      /\ \A m \in LogId : m # l => log'[m] = log[m]
    BY DEF InsertLog, auxvars, calm, Inv, BaseInv, AuditTypeOK
<1>1. pc[r] = "work"
    BY <1>0 DEF Inv, TruthInv, HoldsOnlyAtWork
<1>2. ~ overlap => \A q \in Run : pc[q] \notin {"each", "logs"}
    BY <1>1 DEF Inv, SerialInv, Alone
<1>3. \A q \in Run : l \notin resolve[q] /\ resolve[q] \in SUBSET LogId
    BY <1>0 DEF Inv, BaseInv, AuditTypeOK, TruthInv, ClosesAuditLogs
<1>4. AnswersAreFresh'
    BY <1>0, <1>2, <1>3 DEF Inv, FreshInv, AnswersAreFresh
<1>5. FreshResolveWithoutOverlap'
    BY <1>0 DEF Inv, FreshInv, FreshResolveWithoutOverlap
<1> QED BY <1>4, <1>5 DEF FreshInv

(* The log of a replacement names no department, so nothing has to be seen. *)
LEMMA ReplaceFresh ==
    ASSUME Inv, NEW i \in Item, NEW ms \in Mappings, NEW l \in LogId, ReplaceAndLog(i, ms, l)
    PROVE  FreshInv'
<1>0. /\ UNCHANGED <<pc, answer, resolve, overlap, seenActive>>
      /\ ~ Exists(l)
      /\ log'[l].status = "resolved" /\ log'[l].invalid = {}
      /\ \A m \in LogId : m # l => log'[m] = log[m]
    BY DEF ReplaceAndLog, runvars, auxvars, calm, Inv, BaseInv, AuditTypeOK
<1>1. \A q \in Run : l \notin resolve[q] /\ resolve[q] \in SUBSET LogId
    BY <1>0 DEF Inv, BaseInv, AuditTypeOK, TruthInv, ClosesAuditLogs
<1>2. AnswersAreFresh'
    BY <1>0, <1>1 DEF Inv, FreshInv, AnswersAreFresh, Open
<1>3. FreshResolveWithoutOverlap'
    BY <1>0 DEF Inv, FreshInv, FreshResolveWithoutOverlap
<1> QED BY <1>2, <1>3 DEF FreshInv

(* Every step keeps FreshInv.                                              *)
LEMMA FreshStep == Inv /\ [Next]_vars => FreshInv'
<1> SUFFICES ASSUME Inv, [Next]_vars PROVE FreshInv'
    OBVIOUS
<1>a. FreshInv
    BY DEF Inv
<1> USE DEF Inv, BaseInv, AuditTypeOK
<1>1. ASSUME NEW r \in Run, RevalidationFails(r) \/ BeginBatch(r) \/ EndRun(r)
      PROVE  FreshInv'
    <2>1. UNCHANGED <<log, overlap, seenActive>> /\ \A q \in Run : resolve'[q] \subseteq resolve[q]
        BY <1>1 DEF RevalidationFails, BeginBatch, EndRun, auxvars, calm
    <2>2. \A q \in Run : pc'[q] \in {"each", "logs"} =>
              pc[q] \in {"each", "logs"} /\ answer'[q] = answer[q]
        BY <1>1 DEF RevalidationFails, BeginBatch, EndRun, auxvars, calm
    <2> QED BY <1>a, <2>1, <2>2, QuietFresh
<1>2. ASSUME NEW r \in Run, NEW i \in Item, FindOpenLog(r, i) \/ ItemFails(r, i)
      PROVE  FreshInv'
    BY <1>a, <1>2, QuietFresh DEF FindOpenLog, ItemFails, auxvars, calm
<1>3. ASSUME NEW r \in Run, NEW d \in Dept, AskOneFails(r, d) PROVE FreshInv'
    BY <1>a, <1>3, QuietFresh DEF AskOneFails, auxvars, calm
<1>4. CASE Environment
    <2>1. ASSUME NEW d \in Dept, SsoChange(d) PROVE FreshInv'
        BY <1>a, <2>1, QuietFresh DEF SsoChange, runvars
    <2>2. CASE EditStep
        BY <1>a, <2>2, QuietFresh DEF EditStep, runvars, auxvars, calm
    <2>3. CASE Crash
        BY <1>a, <2>3, QuietFresh DEF Crash, auxvars, calm
    <2> QED BY <1>4, <2>1, <2>2, <2>3, ReplaceFresh DEF Environment
<1>5. CASE UNCHANGED vars
    BY <1>5, <1>a, QuietFresh DEF vars, runvars, auxvars, calm
<1>6. ASSUME NEW r \in Run, EmptyRun(r) PROVE UNCHANGED vars
    BY <1>6 DEF EmptyRun
<1>7. ASSUME NEW r \in Run, RunProgress(r) PROVE FreshInv'
    BY <1>7, <1>1, <1>2, AnswerFresh, ReadOpenLogsFresh, ResolveLogFresh, InsertLogFresh
       DEF RunProgress
<1>8. ASSUME NEW r \in Run, RunFault(r) PROVE FreshInv'
    BY <1>8, <1>1, <1>2, <1>3, AnswerFresh DEF RunFault
<1> QED BY <1>4, <1>5, <1>6, <1>7, <1>8, StartRunFresh DEF Next

-----------------------------------------------------------------------------
(* The invariant holds in every behaviour of the audit. *)
LEMMA AuditInv == Spec => []Inv
<1>1. Inv /\ [Next]_vars => Inv'
    BY BaseStep, TruthStep, SerialStep, FreshStep DEF Inv
<1> QED BY Init_Inv, <1>1, PTL DEF Spec

LEMMA AuditOpenerInv == Spec => []OpenerInv
<1>1. Init => OpenerInv
    BY DEF Init, OpenerInv, OpenerType, InsertsItsFirst, OneOpenLogEach, Open, NoLog
<1> QED BY AuditInv, OpenerStep, <1>1, PTL DEF Spec

(* Every variable of the audit keeps its type, with any number of runs,    *)
(* announcements, departments and logs.                                    *)
THEOREM AuditTypes == Spec => []TypeOK
<1>1. Inv /\ OpenerInv => TypeOK
    BY DEF Inv, BaseInv, AInv, OpenerInv, OpenerType, TypeOK
<1> QED BY AuditInv, AuditOpenerInv, <1>1, PTL

(* However many runs overlap, and whatever fails between them, an item has *)
(* at most one open log of each: a set of runs of any size opens no more   *)
(* logs for the same problem than it has members.                          *)
THEOREM AuditOneOpenLogEach == Spec => []OneOpenLogEach
<1>1. OpenerInv => OneOpenLogEach
    BY DEF OpenerInv
<1> QED BY AuditOpenerInv, <1>1, PTL

(* A log the audit opened names at least one department, and only          *)
(* departments the SSO service really reported inactive, whatever runs     *)
(* overlap and whatever calls fail.                                        *)
THEOREM AuditLogsAreTruthful == Spec => []LogsAreTruthful
<1>1. Inv => LogsAreTruthful
    BY DEF Inv, TruthInv
<1> QED BY AuditInv, <1>1, PTL

(* The findOne before the insert keeps a second open log away for as long  *)
(* as no two runs have been in progress together.                          *)
THEOREM AuditNoDuplicate == Spec => []NoDuplicateWithoutOverlap
<1>1. Inv => NoDuplicateWithoutOverlap
    BY DEF Inv, SerialInv
<1> QED BY AuditInv, <1>1, PTL

(* The map of a run is never older than a log the run closes, for as long  *)
(* as no two runs have been in progress together.                          *)
THEOREM AuditFreshResolve == Spec => []FreshResolveWithoutOverlap
<1>1. Inv => FreshResolveWithoutOverlap
    BY DEF Inv, FreshInv
<1> QED BY AuditInv, <1>1, PTL

(* LogsArePermanent as the formula about one step.                         *)
PermanentStep ==
    \A l \in LogId : Exists(l) =>
         /\ log'[l] # NoLog
         /\ log'[l].item = log[l].item
         /\ log'[l].invalid = log[l].invalid
         /\ ~ Open(l) => log'[l] = log[l]

(* No step removes or rewrites a log, and a resolved log is final: a run    *)
(* that closes a log another run has closed changes its resolve time only, *)
(* which the model leaves out.                                             *)
THEOREM AuditLogsArePermanent == Spec => LogsArePermanent
<1>1. Inv /\ [Next]_vars => [PermanentStep]_vars
    <2> SUFFICES ASSUME Inv, Next PROVE PermanentStep
        OBVIOUS
    <2>1. CASE UNCHANGED log
        BY <2>1 DEF PermanentStep, Exists
    <2>2. ASSUME NEW r \in Run, NEW l \in LogId, ResolveLog(r, l) PROVE PermanentStep
        <3>0. NoLog.status = "none"
            BY DEF NoLog
        <3>1. log'[l] # NoLog
            BY <2>2, <3>0, ResolveLogEffect
        <3>2. log[l].by = "nobody"
            BY <2>2 DEF ResolveLog, Inv, TruthInv, ClosesAuditLogs
        <3>3. log[l].status = "resolved" => log'[l] = log[l]
            <4>1. \A x \in Log : x.status = "resolved" /\ x.by = "nobody"
                     => [x EXCEPT !.status = "resolved", !.by = "nobody"] = x
                BY DEF Log
            <4> QED BY <2>2, <3>2, <4>1, ResolveLogEffect
        <3>4. ~ Open(l) => log[l].status = "resolved"
            BY <2>2, ResolveLogEffect DEF Open, Log
        <3> QED BY <2>2, <3>1, <3>3, <3>4, ResolveLogEffect DEF PermanentStep, Exists
    <2>3. ASSUME NEW l \in LogId, ~ Exists(l), \A m \in LogId : m # l => log'[m] = log[m]
          PROVE  PermanentStep
        BY <2>3 DEF PermanentStep, Exists
    <2>4. ASSUME NEW r \in Run, NEW i \in Item, NEW l \in LogId, InsertLog(r, i, l)
          PROVE  PermanentStep
        BY <2>3, <2>4 DEF InsertLog, Inv, BaseInv, AuditTypeOK
    <2>5. ASSUME NEW i \in Item, NEW ms \in Mappings, NEW l \in LogId, ReplaceAndLog(i, ms, l)
          PROVE  PermanentStep
        BY <2>3, <2>5 DEF ReplaceAndLog, Inv, BaseInv, AuditTypeOK
    <2>6. ASSUME NEW r \in Run, StartRun(r) \/ EmptyRun(r) \/ RunFault(r) PROVE UNCHANGED log
        BY <2>6 DEF StartRun, EmptyRun, vars, RunFault, BulkFails, AskOneFails,
                    RevalidationFails, ItemFails
    <2>7. ASSUME NEW r \in Run, RunProgress(r) PROVE PermanentStep
        <3>1. CASE \E l \in LogId : ResolveLog(r, l)
            BY <2>2, <3>1
        <3>2. CASE \E i \in Item, l \in LogId : InsertLog(r, i, l)
            BY <2>4, <3>2
        <3>3. CASE \/ BulkAnswer(r) \/ ReadOpenLogs(r) \/ BeginBatch(r) \/ EndRun(r)
                   \/ \E d \in Dept : AskOne(r, d)
                   \/ \E i \in Item : FindOpenLog(r, i)
            <4>1. UNCHANGED log
                BY <3>3 DEF BulkAnswer, AskOne, ReadOpenLogs, BeginBatch, FindOpenLog, EndRun
            <4> QED BY <2>1, <4>1
        <3> QED BY <2>7, <3>1, <3>2, <3>3 DEF RunProgress
    <2>8. CASE Environment
        <3>1. (\E d \in Dept : SsoChange(d)) \/ EditStep \/ Crash => UNCHANGED log
            BY DEF SsoChange, EditStep, Crash
        <3> QED BY <2>1, <2>5, <2>8, <3>1 DEF Environment
    <2> QED BY <2>1, <2>6, <2>7, <2>8 DEF Next
<1>2. [][PermanentStep]_vars <=> LogsArePermanent
    BY DEF PermanentStep, LogsArePermanent
<1>3. Spec => []Inv /\ [][Next]_vars
    BY AuditInv DEF Spec
<1> QED BY <1>1, <1>2, <1>3, PTL

-----------------------------------------------------------------------------
(***************************************************************************)
(* A run that nothing disturbs.  It is the only one; what it has read of   *)
(* the items and heard of the departments is still so; until it has closed *)
(* its logs it has every live item before it; and when it works, an item   *)
(* that it is done with has no inactive department or an open log, and a   *)
(* log that it should close is one that it is going to close.              *)
(***************************************************************************)
Undisturbed(r) ==
    /\ pc[r] \in {"sso", "logs", "work"}
    /\ \A q \in Run : pc[q] # "idle" => q = r
    /\ \A i \in Item, d \in Dept : d \in seen[r][i] <=> Lists(i, d)

Unstarted(r) ==
    /\ due[r] \subseteq Live
    /\ pc[r] \in {"sso", "logs"} \/ resolve[r] # {} => due[r] = Live

Informed(r) ==
    pc[r] # "sso" =>
      \A d \in Dept : answer[r][d] = IF \E i \in Item : Lists(i, d) THEN Reply(d) ELSE "none"

Reports(r) ==
    pc[r] = "work" =>
      \A i \in Live : \/ i \in due[r] \cup batch[r] \cup insert[r]
                      \/ Invalid(r, i) = {}
                      \/ \E l \in LogId : Open(l) /\ log[l].item = i

Closes(r) ==
    pc[r] = "work" =>
      \A l \in LogId : Open(l) /\ log[l].item \in Live /\ Reactivated(r, l) => l \in resolve[r]

QuietInv ==
    \A r \in quiet :
        Undisturbed(r) /\ Unstarted(r) /\ Informed(r) /\ Reports(r) /\ Closes(r)

(* A run that starts alone has read the items as they are, and knows all   *)
(* there is to know when they list no department.                          *)
LEMMA StartRunQuiet ==
    ASSUME BaseInv, TruthInv, NEW r \in Run, StartRun(r) PROVE QuietInv'
<1> SUFFICES ASSUME \A q \in Run \ {r} : pc[q] = "idle"
             PROVE  /\ Undisturbed(r)' /\ Unstarted(r)' /\ Informed(r)'
                    /\ Reports(r)' /\ Closes(r)'
    BY DEF StartRun, QuietInv
<1> USE DEF BaseInv, AuditTypeOK
<1>1. /\ UNCHANGED <<row, sso, resolve, answer>> /\ pc[r] = "idle"
      /\ \A i \in Item : seen'[r][i] = IF i \in Live THEN Range(row[i].depts) ELSE {}
      /\ due'[r] = Live /\ pc'[r] \in {"sso", "logs"}
      /\ pc'[r] = "logs" => \A i \in Item : seen'[r][i] = {}
      /\ \A q \in Run \ {r} : pc'[q] = "idle"
    BY DEF StartRun, avars
<1>2. \A i \in Item, d \in Dept : (d \in seen'[r][i] <=> Lists(i, d)) /\ (Lists(i, d)' <=> Lists(i, d))
    BY <1>1 DEF Lists, Live
<1>3. Undisturbed(r)'
    BY <1>1, <1>2 DEF Undisturbed
<1>4. Unstarted(r)'
    BY <1>1 DEF Unstarted, Live
<1>5. \A d \in Dept : answer[r][d] = "none"
    BY <1>1 DEF TruthInv, HoldsOnlyAtWork
<1>6. Informed(r)'
    BY <1>1, <1>2, <1>5 DEF Informed
<1>7. Reports(r)' /\ Closes(r)'
    BY <1>1 DEF Reports, Closes
<1> QED BY <1>3, <1>4, <1>6, <1>7

(* The SSO service answers for all the departments that the items list. *)
LEMMA BulkAnswerQuiet ==
    ASSUME BaseInv, QuietInv, NEW r \in Run, BulkAnswer(r) PROVE QuietInv'
<1> USE DEF BaseInv, AuditTypeOK
<1>1. /\ pc[r] = "sso" /\ pc'[r] = "logs" /\ \A q \in Run : q # r => pc'[q] = pc[q]
      /\ UNCHANGED <<row, sso, log, seen, due, resolve, batch, insert, quiet>>
      /\ \A d \in Dept : answer'[r][d] = IF d \in Listed(r) THEN Reply(d) ELSE "none"
    BY DEF BulkAnswer, avars, calm
<1> SUFFICES ASSUME NEW q \in quiet
             PROVE  /\ Undisturbed(q)' /\ Unstarted(q)' /\ Informed(q)'
                    /\ Reports(q)' /\ Closes(q)'
    BY <1>1 DEF QuietInv
<1>2. q = r /\ Undisturbed(r) /\ Unstarted(r)
    <2>1. q \in Run /\ Undisturbed(q) /\ Unstarted(q)
        BY DEF QuietInv
    <2>2. q = r
        BY <1>1, <2>1 DEF Undisturbed
    <2> QED BY <2>1, <2>2
<1>3. \A i \in Item, d \in Dept : Lists(i, d)' <=> Lists(i, d)
    BY <1>1 DEF Lists, Live
<1>4. \A d \in Dept : d \in Listed(r) <=> \E i \in Item : Lists(i, d)
    <2>1. due[r] = Live /\ Live \subseteq Item
        BY <1>1, <1>2 DEF Unstarted, Live
    <2> QED BY <1>2, <2>1 DEF Undisturbed, Listed, Lists
<1>5. \A d \in Dept : Reply(d)' = Reply(d)
    BY <1>1 DEF Reply
<1>6. Informed(r)'
    BY <1>1, <1>3, <1>4, <1>5 DEF Informed
<1>7. Undisturbed(r)'
    BY <1>1, <1>2, <1>3 DEF Undisturbed
<1>8. Unstarted(r)'
    BY <1>1, <1>2 DEF Unstarted, Live
<1> QED BY <1>1, <1>2, <1>6, <1>7, <1>8 DEF Reports, Closes

(* A run at work: what it read and heard stays what it was. *)
LEMMA WorkQuiet ==
    ASSUME BaseInv, QuietInv, NEW r \in Run, pc[r] \in {"logs", "work"}, pc'[r] = "work",
           UNCHANGED <<row, sso, seen, answer, quiet>>,
           \A q \in Run : q # r => pc'[q] = pc[q],
           r \in quiet => Unstarted(r)' /\ Reports(r)' /\ Closes(r)'
    PROVE  QuietInv'
<1> SUFFICES ASSUME NEW q \in quiet
             PROVE  /\ Undisturbed(q)' /\ Unstarted(q)' /\ Informed(q)'
                    /\ Reports(q)' /\ Closes(q)'
    BY DEF QuietInv
<1>1. q = r /\ Undisturbed(r) /\ Informed(r)
    BY DEF QuietInv, Undisturbed
<1>2. \A i \in Item, d \in Dept : Lists(i, d)' <=> Lists(i, d)
    BY DEF Lists, Live
<1>3. \A d \in Dept : Reply(d)' = Reply(d)
    BY DEF Reply
<1>4. Undisturbed(r)'
    BY <1>1, <1>2 DEF Undisturbed
<1>5. Informed(r)'
    BY <1>1, <1>2, <1>3 DEF Informed
<1> QED BY <1>1, <1>4, <1>5

(* The run finds the open logs of the live items and picks those to close. *)
LEMMA ReadOpenLogsQuiet ==
    ASSUME BaseInv, QuietInv, NEW r \in Run, ReadOpenLogs(r) PROVE QuietInv'
<1> USE DEF BaseInv, AuditTypeOK
<1>1. /\ pc[r] = "logs" /\ pc'[r] = "work" /\ \A q \in Run : q # r => pc'[q] = pc[q]
      /\ UNCHANGED <<row, sso, log, seen, answer, due, batch, insert, quiet>>
      /\ resolve'[r] = {l \in LogId : Open(l) /\ log[l].item \in due[r] /\ Reactivated(r, l)}
    BY DEF ReadOpenLogs, avars, calm
<1>2. ASSUME r \in quiet PROVE Unstarted(r)' /\ Reports(r)' /\ Closes(r)'
    <2>1. due[r] = Live
        BY <1>1, <1>2 DEF QuietInv, Unstarted
    <2>2. \A l \in LogId : Reactivated(r, l)' <=> Reactivated(r, l)
        BY <1>1 DEF Reactivated
    <2> QED BY <1>1, <2>1, <2>2 DEF Unstarted, Reports, Closes, Live, Open
<1> QED BY <1>1, <1>2, WorkQuiet

(* It closes a log while every live item is still before it. *)
LEMMA ResolveLogQuiet ==
    ASSUME Inv, QuietInv, NEW r \in Run, NEW l \in LogId, ResolveLog(r, l) PROVE QuietInv'
<1> USE DEF Inv, BaseInv, AuditTypeOK
<1>1. /\ pc[r] = "work" /\ l \in resolve[r] /\ resolve'[r] = resolve[r] \ {l}
      /\ UNCHANGED <<row, sso, pc, seen, answer, due, batch, insert, quiet>>
    BY DEF ResolveLog, avars, calm
<1>2. log'[l].status = "resolved" /\ \A m \in LogId : m # l => log'[m] = log[m]
    BY ResolveLogEffect
<1>3. ASSUME r \in quiet PROVE Unstarted(r)' /\ Reports(r)' /\ Closes(r)'
    <2>1. due[r] = Live /\ Closes(r)
        BY <1>1, <1>3 DEF QuietInv, Unstarted
    <2>2. \A m \in LogId : m # l => (Reactivated(r, m)' <=> Reactivated(r, m))
        BY <1>1, <1>2 DEF Reactivated
    <2>3. Closes(r)'
        BY <1>1, <1>2, <2>1, <2>2 DEF Closes, Live, Open
    <2> QED BY <1>1, <2>1, <2>3 DEF Unstarted, Reports, Live
<1> QED BY <1>1, <1>3, WorkQuiet

(* It goes on to a batch when its logs are closed; an item that it leaves  *)
(* out has no inactive department.                                         *)
LEMMA BeginBatchQuiet ==
    ASSUME BaseInv, QuietInv, NEW r \in Run, BeginBatch(r) PROVE QuietInv'
<1> USE DEF BaseInv, AuditTypeOK
<1>1. /\ Settled(r) /\ UNCHANGED <<row, sso, log, pc, seen, answer, resolve, insert, quiet>>
    BY DEF BeginBatch, avars, calm
<1>2. PICK B \in SUBSET due[r] : /\ due'[r] = due[r] \ B
                                 /\ batch'[r] = {i \in B : Invalid(r, i) # {}}
    BY DEF BeginBatch
<1>3. ASSUME r \in quiet PROVE Unstarted(r)' /\ Reports(r)' /\ Closes(r)'
    <2>1. Unstarted(r) /\ Reports(r) /\ Closes(r)
        BY <1>3 DEF QuietInv
    <2>2. Reports(r)'
        <3>1. /\ Live' = Live /\ \A i \in Item : Invalid(r, i)' = Invalid(r, i)
              /\ \A l \in LogId : Open(l)' <=> Open(l)
            BY <1>1 DEF Live, Invalid, Open
        <3>2. ASSUME NEW i \in Live
              PROVE  \/ i \in due'[r] \cup batch'[r] \cup insert'[r] \/ Invalid(r, i) = {}
                     \/ \E l \in LogId : Open(l) /\ log[l].item = i
            BY <1>1, <1>2, <2>1 DEF Reports, Settled
        <3> QED BY <1>1, <3>1, <3>2 DEF Reports, Live
    <2>3. Closes(r)'
        BY <1>1, <2>1 DEF Closes, Reactivated, Live, Open
    <2> QED BY <1>1, <1>2, <2>1, <2>2, <2>3 DEF Unstarted, Settled, Live
<1> QED BY <1>1, <1>3, WorkQuiet DEF Settled

(* An item that has an open log needs none. *)
LEMMA FindOpenLogQuiet ==
    ASSUME BaseInv, TruthInv, QuietInv, NEW r \in Run, NEW i \in Item, FindOpenLog(r, i)
    PROVE  QuietInv'
<1> USE DEF BaseInv, AuditTypeOK
<1>1. /\ UNCHANGED <<row, sso, log, pc, seen, due, answer, resolve, quiet>>
      /\ batch'[r] = batch[r] \ {i}
      /\ \/ insert'[r] = insert[r] \cup {i}
         \/ insert'[r] = insert[r] /\ \E l \in LogId : Open(l) /\ log[l].item = i
    BY DEF FindOpenLog, avars, calm
<1>2. pc[r] = "work"
    BY DEF FindOpenLog, TruthInv, HoldsOnlyAtWork
<1>3. ASSUME r \in quiet PROVE Unstarted(r)' /\ Reports(r)' /\ Closes(r)'
    <2>1. Unstarted(r) /\ Reports(r) /\ Closes(r)
        BY <1>3 DEF QuietInv
    <2>2. Reports(r)'
        <3>1. /\ Live' = Live /\ \A j \in Item : Invalid(r, j)' = Invalid(r, j)
              /\ \A l \in LogId : Open(l)' <=> Open(l)
            BY <1>1 DEF Live, Invalid, Open
        <3>2. ASSUME NEW j \in Live
              PROVE  \/ j \in due[r] \cup batch'[r] \cup insert'[r] \/ Invalid(r, j) = {}
                     \/ \E l \in LogId : Open(l) /\ log[l].item = j
            BY <1>1, <1>2, <2>1 DEF Reports
        <3> QED BY <1>1, <3>1, <3>2 DEF Reports, Live
    <2>3. Closes(r)'
        BY <1>1, <2>1 DEF Closes, Reactivated, Live, Open
    <2> QED BY <1>1, <2>1, <2>2, <2>3 DEF Unstarted, Live
<1> QED BY <1>1, <1>2, <1>3, WorkQuiet

(* The log that it opens is not one to close. *)
LEMMA InsertLogQuiet ==
    ASSUME BaseInv, TruthInv, QuietInv, NEW r \in Run, NEW i \in Item, NEW l \in LogId,
           InsertLog(r, i, l)
    PROVE  QuietInv'
<1> USE DEF BaseInv, AuditTypeOK
<1>1. /\ UNCHANGED <<row, sso, pc, seen, due, answer, resolve, batch, quiet>>
      /\ i \in insert[r] /\ insert'[r] = insert[r] \ {i} /\ log[l] = NoLog
      /\ log'[l].status = "detected" /\ log'[l].item = i /\ log'[l].invalid = Invalid(r, i)
      /\ \A m \in LogId : m # l => log'[m] = log[m]
    BY DEF InsertLog, Exists, avars, calm
<1>2. pc[r] = "work" /\ Invalid(r, i) # {}
    BY <1>1 DEF TruthInv, HoldsOnlyAtWork, ChecksInvalidItems
<1>3. ASSUME r \in quiet PROVE Unstarted(r)' /\ Reports(r)' /\ Closes(r)'
    <2>1. Unstarted(r) /\ Reports(r) /\ Closes(r)
        BY <1>3 DEF QuietInv
    <2>2. ~ Open(l)
        BY <1>1 DEF Open, NoLog
    <2>3. Reports(r)'
        <3>1. \A m \in LogId : Open(m) => Open(m)' /\ log'[m].item = log[m].item
            BY <1>1, <2>2 DEF Open
        <3>2. /\ Open(l)' /\ Live' = Live
              /\ \A j \in Item : Invalid(r, j)' = Invalid(r, j)
            BY <1>1 DEF Open, Live, Invalid
        <3>3. ASSUME NEW j \in Live
              PROVE  \/ j \in due[r] \cup batch[r] \cup insert'[r] \/ Invalid(r, j) = {}
                     \/ \E m \in LogId : Open(m)' /\ log'[m].item = j
            <4>1. CASE j = i
                BY <1>1, <3>2, <4>1
            <4>2. CASE j # i
                BY <1>1, <1>2, <2>1, <3>1, <4>2 DEF Reports
            <4> QED BY <4>1, <4>2
        <3> QED BY <1>1, <3>2, <3>3 DEF Reports, Live
    <2>4. ~ Reactivated(r, l)'
        <3>1. PICK d \in Invalid(r, i) : answer[r][d] = "inactive"
            BY <1>2 DEF Invalid
        <3> QED BY <1>1, <3>1 DEF Reactivated
    <2>5. Closes(r)'
        <3>1. \A m \in LogId : m # l => /\ Open(m)' <=> Open(m)
                                        /\ Reactivated(r, m)' <=> Reactivated(r, m)
            BY <1>1 DEF Open, Reactivated
        <3> QED BY <1>1, <1>2, <2>1, <2>4, <3>1 DEF Closes, Live
    <2> QED BY <1>1, <2>1, <2>3, <2>5 DEF Unstarted, Live
<1> QED BY <1>1, <1>2, <1>3, WorkQuiet

(* Every step keeps QuietInv: one that disturbs a run makes it quiet no    *)
(* more.                                                                   *)
LEMMA QuietStep == Inv /\ QuietInv /\ [Next]_vars => QuietInv'
<1> SUFFICES ASSUME Inv, QuietInv, [Next]_vars PROVE QuietInv'
    OBVIOUS
<1>a. BaseInv /\ TruthInv
    BY DEF Inv
<1>1. ASSUME quiet' = {} PROVE QuietInv'
    BY <1>1 DEF QuietInv
<1>2. ASSUME Changed PROVE QuietInv'
    BY <1>1, <1>2 DEF Changed
<1>3. CASE Environment
    BY <1>2, <1>3 DEF Environment, SsoChange, EditStep, ReplaceAndLog, Crash
<1>4. ASSUME NEW r \in Run, RunFault(r) PROVE QuietInv'
    BY <1>2, <1>4 DEF RunFault, BulkFails, AskOneFails, RevalidationFails, ItemFails
<1>5. ASSUME NEW r \in Run, EndRun(r) PROVE QuietInv'
    <2>1. pc[r] # "idle" /\ quiet' = quiet \ {r} /\ quiet \subseteq Run
        BY <1>a, <1>5 DEF EndRun, Settled, BaseInv, AuditTypeOK
    <2> QED BY <1>1, <2>1 DEF QuietInv, Undisturbed
<1>6. ASSUME NEW r \in Run, NEW d \in Dept, AskOne(r, d) PROVE QuietInv'
    <2>1. pc[r] = "each" /\ UNCHANGED quiet
        BY <1>6 DEF AskOne, calm
    <2>2. quiet = {}
        BY <2>1 DEF QuietInv, Undisturbed
    <2> QED BY <1>1, <2>1, <2>2
<1>7. ASSUME NEW r \in Run, RunProgress(r) PROVE QuietInv'
    BY <1>a, <1>5, <1>6, <1>7, BulkAnswerQuiet, ReadOpenLogsQuiet, ResolveLogQuiet,
       BeginBatchQuiet, FindOpenLogQuiet, InsertLogQuiet DEF RunProgress
<1>8. CASE UNCHANGED vars
    <2>1. UNCHANGED <<row, sso, log, pc, seen, due, answer, resolve, batch, insert, quiet>>
        BY <1>8 DEF vars, avars, runvars, calm
    <2>2. /\ \A i \in Item, d \in Dept : Lists(i, d)' <=> Lists(i, d)
          /\ \A d \in Dept : Reply(d)' = Reply(d)
          /\ \A l \in LogId : Open(l)' <=> Open(l)
          /\ \A r \in Run, l \in LogId : Reactivated(r, l)' <=> Reactivated(r, l)
          /\ \A r \in Run, i \in Item : Invalid(r, i)' = Invalid(r, i)
          /\ Live' = Live /\ Live \subseteq Item /\ quiet \subseteq Run
        BY <1>a, <2>1 DEF Lists, Live, Reply, Open, Reactivated, Invalid, BaseInv, AuditTypeOK
    <2>3. ASSUME NEW r \in quiet
          PROVE  /\ Undisturbed(r)' /\ Unstarted(r)' /\ Informed(r)'
                 /\ Reports(r)' /\ Closes(r)'
        <3>1. Undisturbed(r) /\ Unstarted(r) /\ Informed(r) /\ Reports(r) /\ Closes(r) /\ r \in Run
            BY <2>2 DEF QuietInv
        <3>2. Undisturbed(r)' /\ Unstarted(r)' /\ Informed(r)'
            BY <2>1, <2>2, <3>1 DEF Undisturbed, Unstarted, Informed
        <3> QED BY <2>1, <2>2, <3>1, <3>2 DEF Reports, Closes
    <2> QED BY <2>1, <2>3 DEF QuietInv
<1>9. ASSUME NEW r \in Run, EmptyRun(r) PROVE QuietInv'
    BY <1>8, <1>9 DEF EmptyRun
<1> QED BY <1>a, <1>3, <1>4, <1>7, <1>8, <1>9, StartRunQuiet DEF Next

(* What a run that is done has made of the logs. *)
LEMMA QuietSettles == BaseInv /\ QuietInv => QuietRunSettlesLogs
<1> SUFFICES ASSUME BaseInv, QuietInv, NEW r \in quiet, Settled(r), due[r] = {}
             PROVE  /\ \A i \in Item, d \in Dept : Lists(i, d) /\ sso[d] = "inactive"
                         => \E l \in LogId : Open(l) /\ log[l].item = i
                    /\ \A l \in LogId : Open(l) /\ log[l].item \in Live =>
                         \E d \in log[l].invalid : sso[d] # "active" \/ \A i \in Item : ~ Lists(i, d)
    BY DEF QuietRunSettlesLogs
<1>1. /\ pc[r] = "work" /\ resolve[r] = {} /\ batch[r] = {} /\ insert[r] = {}
      /\ Undisturbed(r) /\ Informed(r) /\ Reports(r) /\ Closes(r)
    BY DEF Settled, QuietInv
<1>2. ASSUME NEW i \in Item, NEW d \in Dept, Lists(i, d), sso[d] = "inactive"
      PROVE  \E l \in LogId : Open(l) /\ log[l].item = i
    <2>1. d \in seen[r][i] /\ i \in Live
        BY <1>1, <1>2 DEF Undisturbed, Lists
    <2>2. answer[r][d] = "inactive"
        BY <1>1, <1>2 DEF Informed, Reply
    <2>3. Invalid(r, i) # {}
        BY <2>1, <2>2 DEF Invalid
    <2> QED BY <1>1, <2>1, <2>3 DEF Reports
<1>3. ASSUME NEW l \in LogId, Open(l), log[l].item \in Live
      PROVE  \E d \in log[l].invalid : sso[d] # "active" \/ \A i \in Item : ~ Lists(i, d)
    <2>1. PICK d \in log[l].invalid : answer[r][d] # "active"
        BY <1>1, <1>3 DEF Closes, Reactivated
    <2>2. d \in Dept
        <3>1. log[l] \in Log \cup {NoLog}
            BY DEF BaseInv, AuditTypeOK
        <3> QED BY <1>3, <2>1, <3>1 DEF Open, Log, NoLog
    <2> QED BY <1>1, <2>1, <2>2 DEF Informed, Reply
<1> QED BY <1>2, <1>3

(* QuietRunSettlesLogs: a run of the scheduler that nothing disturbs       *)
(* leaves an open log for every item with an inactive department, and none *)
(* that it should have closed, for any numbers of items, departments, logs *)
(* and runs, whatever runs, faults and restarts came before it.            *)
THEOREM AuditQuietRunSettles == Spec => []QuietRunSettlesLogs
<1>1. Init => QuietInv
    BY DEF Init, QuietInv
<1>2. Inv /\ QuietInv /\ [Next]_vars => QuietInv'
    BY QuietStep
<1>3. Inv /\ QuietInv => QuietRunSettlesLogs
    BY QuietSettles DEF Inv
<1> QED BY AuditInv, <1>1, <1>2, <1>3, PTL DEF Spec
=============================================================================
