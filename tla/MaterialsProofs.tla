--------------------------- MODULE MaterialsProofs ---------------------------
(***************************************************************************)
(* Theorems about Materials for any number of tasks, files, analyses and   *)
(* requests that are served at the same time.                              *)
(***************************************************************************)
EXTENDS Materials, TLAPS

USE MaterialAssumption

-----------------------------------------------------------------------------
(* What a request knows of its files.                                       *)

Storing == {"upload", "batch", "rebatch", "retest", "attach"}
Batches == {"batch", "rebatch"}
Sorts == {"sorts", "resorts"}
Busy(r) == analysis[r].status \in {"running", "sorting"}

\* The rows of its files are there; the file it is to record lies on the disk, and
\* nobody else records it; of the files it is to remove no row stands any more.
AskSound(q) ==
  LET a == ask[q]
  IN  /\ \A f \in a.files : doc[f].row # "none"
      /\ a.pc = "recording" =>
           /\ a.op # "retest" => doc[a.file].row = "none"
           /\ doc[a.file].row = "none" => /\ a.file \in disk
                                          /\ \A p \in Askers \ {q} : ask[p].file # a.file
      /\ a.pc = "queueing" /\ a.op \in Batches =>
           doc[a.file].row # "none" /\ doc[a.file].of \notin {"finding", "answer"}
      /\ a.pc = "purging" =>
           /\ a.op = "wipe" => \A f \in a.files : doc[f].of # "answer"
           /\ a.op = "discard" => \A f \in a.files : doc[f].of = "finding"
      /\ a.pc = "cleaning" => \A f \in a.files : ~Stands(f)
      /\ \A r \in a.checks : analysis[r].status # "none"
AsksSound == \A q \in Askers : AskSound(q)

\* An open transaction deletes rows of its tasks, and no other deletes rows of them.
Holds(q, t) ==
  /\ ask[q].pc = "committing"
  /\ \/ ask[q].files \cap ActiveOf(t) # {}
     \/ \E r \in ask[q].checks : ActiveCheck(r) /\ analysis[r].task = t
HoldersSound ==
  /\ \A q \in Askers : ask[q].pc = "committing" =>
       /\ \A f \in ask[q].files : doc[f].of \in Scope(q)
       /\ \A r \in ask[q].checks :
            ActiveCheck(r) => analysis[r].task \in Scope(q) \cup {"none"}
  /\ \A q, p \in Askers, t \in Reviews : Holds(q, t) /\ Holds(p, t) => q = p

-----------------------------------------------------------------------------
(* What is known of the analyses.                                           *)

\* Analyses are created in the order of their ids, and processed one at a time, oldest
\* first.
CheckInOrder(r) ==
  /\ analysis[r].status = "none" => \A p \in Analyses : p > r => analysis[p].status = "none"
  /\ Busy(r) => \A p \in Analyses : /\ Busy(p) => p = r
                                    /\ analysis[p].status = "queued" => p > r
\* An analysis has files with rows; one that sorts has one document, and no task before it
\* has sorted it.
RowSound(r) ==
  LET c == analysis[r]
  IN  /\ \A f \in c.files : doc[f].row # "none"
      /\ c.status \in {"queued", "running"} => (c.kind \in Sorts <=> c.task = "none")
      /\ c.status = "sorting" => c.kind \in Sorts
      /\ ActiveCheck(r) /\ c.kind \in Sorts =>
           /\ \A f, g \in c.files \cup c.read : f = g
           /\ \A f \in c.files \cup c.read : doc[f].row # "none" /\ doc[f].of \notin {"finding", "answer"}
           /\ c.status = "sorting" /\ c.task # "none" => \A f \in c.files : doc[f].of = c.task
ChecksSound == \A r \in Analyses : CheckInOrder(r) /\ RowSound(r)

\* ResetsStrandNoTask, with an analysis that is sure to write the task.
TasksChecked ==
  \A t \in Reviews : review[t].status = "in_progress" /\ t \notin slipped
    => \E r \in Analyses : ActiveCheck(r) /\ analysis[r].task = t /\ analysis[r].kind = "check"

-----------------------------------------------------------------------------
(* What is known of the documents of a task.                                *)

\* Active analyses of the task, without some.
Live(t, but) == {r \in Analyses \ but : ActiveCheck(r) /\ analysis[r].task = t}
Covers(r, t) ==
  \/ analysis[r].status = "queued" /\ {f \in analysis[r].files : doc[f].row = "active"} = ActiveOf(t)
  \/ analysis[r].status = "running" /\ analysis[r].read = ActiveOf(t)
\* The last of them is about the documents of the task, or one of them is still to
\* queue an analysis that is.
Current(t, but) ==
  Live(t, but) # {} =>
    \/ \E r \in Live(t, but) : analysis[r].status = "sorting"
    \/ \E r \in Live(t, but) : Covers(r, t) /\ \A p \in Live(t, but) : p <= r

\* Requests that will queue an analysis, or reset the task.
Queues(t) == \E q \in Askers : /\ ask[q].task = t /\ ask[q].op \in {"upload", "delete"}
                               /\ ask[q].pc = "queueing"
Deletes(t, pcs) == \E q \in Askers : ask[q].task = t /\ ask[q].op = "delete" /\ ask[q].pc \in pcs
Settles(t) ==
  \/ Deletes(t, {"erasing"})
  \/ \E q \in Askers : ask[q].task = t /\ ask[q].op = "delete" /\ Holds(q, t)

\* Unless such a request is under way, the last analysis is about the documents of the
\* task, whether open transactions that delete analyses of it commit or not, and
\* without an analysis the verdict is.
Covered(t) ==
  /\ ~Settles(t) /\ (ActiveOf(t) = {} \/ ~Queues(t)) => Current(t, {})
  /\ ~Deletes(t, {"erasing"}) /\ (ActiveOf(t) = {} \/ ~Queues(t)) => Current(t, HeldChecks)
  /\ /\ ~Deletes(t, {"erasing", "committing"}) /\ (ActiveOf(t) = {} \/ ~Queues(t))
     /\ Live(t, {}) = {} /\ review[t].status = "completed"
     => review[t].corpus = ActiveOf(t)
\* A check that was queued while rows are being deleted is about others.
Apart(t) ==
  (\E r \in Live(t, HeldChecks) : analysis[r].status # "sorting") => ActiveOf(t) \cap Held = {}
HeldApart == \A t \in Reviews : Apart(t)
DocumentsCovered == \A t \in Reviews \ (excused \cup slipped) : Covered(t)

-----------------------------------------------------------------------------
(* Every row is one that the tables and the requests can hold.              *)

LEMMA NoAskType == NoAsk \in AskRow
BY DEF NoAsk, Unseen, AskRow, Ops, ReviewStatus

\* What a request is at each of its steps, and what it knows there.
Shape(a) ==
  /\ a.pc \in {"saving", "recording"} =>
       a.op \in Storing /\ (a.op \in {"upload", "retest"} => a.task \in Reviews)
  /\ a.pc = "queueing" => a.op \in Batches \/ (a.op \in {"upload", "analyze", "delete"} /\ a.task \in Reviews)
  /\ a.pc = "recording" \/ (a.pc = "queueing" /\ a.op \in Batches) => a.file \in Files
  /\ a.pc \in {"unlinking", "dropping"} =>
       /\ (a.op = "detach" /\ a.task = "none") \/ (a.op = "delete" /\ a.task \in Reviews)
       /\ \E f \in Files : a.files = {f}
  /\ a.pc \in {"erasing", "committing"} =>
       a.op = "restart" \/ (a.op \in {"reset", "delete"} /\ a.task \in Reviews)
  /\ a.pc = "purging" => a.op \in {"clear", "remove", "wipe", "discard"}
  /\ a.op \in Batches \cup {"restart"} => a.task = "none"
AskTyped == MatTypeOK /\ \A q \in Askers : Shape(ask[q])

\* A request as it begins.
AskBegun(op, t, fs, pc) ==
  [op |-> op, pc |-> pc, task |-> t, file |-> 0, files |-> fs, checks |-> {},
   seen |-> [u \in Reviews |-> review[u].status]]

LEMMA BeginsFacts ==
  ASSUME MatTypeOK, NEW q \in Askers, NEW op, NEW t, NEW fs, NEW pc, Begins(q, op, t, fs, pc)
  PROVE  /\ ask[q].pc = "idle" /\ asks' \in 0 .. MaxAsks
         /\ ask' = [ask EXCEPT ![q] = AskBegun(op, t, fs, pc)]
         /\ ask'[q] = AskBegun(op, t, fs, pc)
<1>1. ask' = [ask EXCEPT ![q] = AskBegun(op, t, fs, pc)]
  <2>. DEFINE seen == [u \in Reviews |-> review[u].status]
              a == [NoAsk EXCEPT !.op = op, !.task = t, !.files = fs, !.pc = pc, !.seen = seen]
  <2>1. ask' = [ask EXCEPT ![q] = a]
    BY DEF Begins, Becomes
  <2>2. AskBegun(op, t, fs, pc) = [op |-> op, pc |-> pc, task |-> t, file |-> 0, files |-> fs,
                                checks |-> {}, seen |-> seen]
    BY DEF AskBegun
  <2>3. a = [NoAsk EXCEPT !.op = op, !.task = t, !.files = fs, !.pc = pc, !.seen = seen]
    OBVIOUS
  <2>. HIDE DEF seen, a
  <2>4. a = AskBegun(op, t, fs, pc)
    <3>1. a = [op |-> op, pc |-> pc, task |-> t, file |-> 0, files |-> fs, checks |-> {}, seen |-> seen]
      BY ONLY <2>3 DEF NoAsk
    <3>. QED
      BY <2>2, <3>1
  <2>. QED
    BY <2>1, <2>4
<1>. QED
  BY <1>1 DEF Begins, MatTypeOK

LEMMA BegunType ==
  ASSUME MatTypeOK, NEW op \in Ops, NEW t \in Reviews \cup {"none"}, NEW fs \in SUBSET Files,
         NEW pc \in {"saving", "queueing", "unlinking", "erasing", "purging"}
  PROVE  AskBegun(op, t, fs, pc) \in AskRow
BY DEF MatTypeOK, AskBegun, AskRow

LEMMA NoAskShape == Shape(NoAsk)
BY DEF Shape, NoAsk

\* The request alone changes.
LEMMA AsksTyped ==
  ASSUME AskTyped, NEW q \in Askers, NEW a \in AskRow, Shape(a), ask' = [ask EXCEPT ![q] = a]
  PROVE  ask' \in [Askers -> AskRow] /\ \A p \in Askers : Shape(ask'[p])
BY DEF AskTyped, MatTypeOK

LEMMA AskTypeInit == MatInit => AskTyped
<1>. SUFFICES ASSUME MatInit PROVE AskTyped
  OBVIOUS
<1>1. doc \in [Files -> FileRow]
  BY DEF MatInit, FileRow
<1>2. review \in [Reviews -> [status : ReviewStatus, corpus : SUBSET Files]]
  BY DEF MatInit, ReviewStatus
<1>3. analysis \in [Analyses -> CheckRow]
  BY DEF MatInit, NoCheck, CheckRow
<1>4. ask \in [Askers -> AskRow]
  BY NoAskType DEF MatInit
<1>5. ASSUME NEW q \in Askers PROVE Shape(ask[q])
  BY NoAskShape DEF MatInit
<1>. QED
  BY <1>1, <1>2, <1>3, <1>4, <1>5 DEF MatInit, MatTypeOK, AskTyped

\* A request begins.
LEMMA BeginTyped ==
  ASSUME AskTyped, NEW q \in Askers, NEW op \in Ops, NEW t \in Reviews \cup {"none"},
         NEW fs \in SUBSET Files, NEW pc \in {"saving", "queueing", "unlinking", "erasing", "purging"},
         Shape(AskBegun(op, t, fs, pc)),
         Begins(q, op, t, fs, pc), UNCHANGED <<disk, doc, review, analysis, Histories>>
  PROVE  AskTyped'
<1>1. ask' = [ask EXCEPT ![q] = AskBegun(op, t, fs, pc)]
  BY BeginsFacts DEF AskTyped
<1>2. AskBegun(op, t, fs, pc) \in AskRow
  BY BegunType DEF AskTyped
<1>3. ask' \in [Askers -> AskRow] /\ \A p \in Askers : Shape(ask'[p])
  BY <1>1, <1>2, AsksTyped
<1>. QED
  BY <1>3, BeginsFacts DEF MatTypeOK, Histories, AskTyped

LEMMA FilesTyped ==
  /\ \A t : ActiveOf(t) \in SUBSET Files
  /\ Documents \in SUBSET Files /\ Attachments \in SUBSET Files
  /\ {f \in Files : Stands(f)} \in SUBSET Files
BY DEF ActiveOf, Documents, Attachments

\* The requests that write nothing as they begin.
Beginning(q, op, t, fs, pc) ==
  /\ Begins(q, op, t, fs, pc) /\ UNCHANGED <<disk, doc, review, analysis, Histories>>
  /\ Shape(AskBegun(op, t, fs, pc)) /\ \A f \in fs : Stands(f)
  /\ op # "wipe" /\ (op = "discard" => \A f \in fs : doc[f].of = "finding")
  /\ op \in {"upload", "delete"} => pc \in {"saving", "unlinking"}

LEMMA RequestFacts ==
  ASSUME AskTyped, NEW q \in Askers, Request(q), ~BeginWipe(q)
  PROVE  \E op \in Ops, t \in Reviews \cup {"none"}, fs \in SUBSET Files,
            pc \in {"saving", "queueing", "unlinking", "erasing", "purging"} :
            Beginning(q, op, t, fs, pc)
<1>. USE DEF Ops, Storing, Batches, Shape, AskBegun, Beginning
<1>1. CASE BeginAttach(q)
  BY <1>1 DEF BeginAttach
<1>2. CASE BeginRestart(q)
  BY <1>2 DEF BeginRestart
<1>3. CASE BeginRemove(q)
  BY <1>3, FilesTyped DEF BeginRemove
<1>4. CASE \E op \in {"batch", "rebatch"} : BeginBatch(q, op)
  BY <1>4 DEF BeginBatch
<1>5. CASE \E t \in Reviews : BeginUpload(q, t)
  BY <1>5 DEF BeginUpload
<1>6. CASE \E t \in Reviews : BeginAnalyze(q, t)
  BY <1>6 DEF BeginAnalyze
<1>7. CASE \E t \in Reviews : BeginReset(q, t)
  BY <1>7 DEF BeginReset
<1>8. CASE \E t \in Reviews, fs \in SUBSET Files : BeginRetest(q, t, fs)
  BY <1>8 DEF BeginRetest, ActiveOf, Stands
<1>9. CASE \E t \in Reviews, f \in Files : BeginDelete(q, t, f)
  <2>1. PICK t \in Reviews, f \in Files : BeginDelete(q, t, f)
    BY <1>9
  <2>2. Beginning(q, "delete", t, {f}, "unlinking")
    BY <2>1 DEF BeginDelete, ActiveOf, Stands
  <2>. QED
    BY <2>2
<1>10. CASE \E f \in Files : BeginDetach(q, f)
  <2>1. PICK f \in Files : BeginDetach(q, f)
    BY <1>10
  <2>2. Beginning(q, "detach", "none", {f}, "unlinking")
    BY <2>1 DEF BeginDetach
  <2>. QED
    BY <2>2
<1>11. CASE \E fs \in SUBSET Files : BeginClear(q, fs)
  <2>1. PICK fs \in SUBSET Files : BeginClear(q, fs)
    BY <1>11
  <2>2. Beginning(q, "clear", "none", Documents \cup fs, "purging")
    BY <2>1 DEF BeginClear, Documents, Attachments
  <2>. QED
    BY <2>2, FilesTyped
<1>12. CASE \E fs \in SUBSET Files : BeginDiscard(q, fs)
  <2>1. PICK fs \in SUBSET Files : BeginDiscard(q, fs)
    BY <1>12
  <2>2. Beginning(q, "discard", "none", fs, "purging")
    BY <2>1 DEF BeginDiscard, Attachments
  <2>. QED
    BY <2>2
<1>. QED
  BY <1>1, <1>2, <1>3, <1>4, <1>5, <1>6, <1>7, <1>8, <1>9, <1>10, <1>11, <1>12 DEF Request

LEMMA RequestTyped ==
  ASSUME AskTyped, NEW q \in Askers, Request(q), ~BeginWipe(q)
  PROVE  AskTyped'
BY RequestFacts, BeginTyped DEF Beginning

\* Rows that go with a transaction, tasks that a reset writes, a new analysis.
LEMMA DroppedTyped ==
  ASSUME MatTypeOK, NEW fs, NEW rs, Dropped(fs, rs)
  PROVE  doc' \in [Files -> FileRow] /\ analysis' \in [Analyses -> CheckRow]
<1>1. doc' \in [Files -> FileRow]
  BY DEF MatTypeOK, Dropped, FileRow
<1>2. [NoCheck EXCEPT !.status = "deleted"] \in CheckRow
  BY DEF NoCheck, CheckRow
<1>3. ASSUME NEW r \in Analyses PROVE [analysis[r] EXCEPT !.files = @ \ fs] \in CheckRow
  BY DEF MatTypeOK, CheckRow
<1>. QED
  BY <1>1, <1>2, <1>3 DEF Dropped

LEMMA ResetTyped ==
  ASSUME MatTypeOK, NEW T, NEW seen
  PROVE  Reset(T, seen) \in [Reviews -> [status : ReviewStatus, corpus : SUBSET Files]]
BY DEF MatTypeOK, Reset, ReviewStatus

LEMMA CheckOfType ==
  ASSUME NEW t \in Reviews \cup {"none"}, NEW kind \in {"check", "retest", "sorts", "resorts"},
         NEW fs \in SUBSET Files
  PROVE  CheckOf(t, kind, fs) \in CheckRow
BY DEF CheckOf, CheckRow

\* A request goes on, or ends.
LEMMA GoesTyped ==
  ASSUME AskTyped, NEW q \in Askers,
         NEW pc \in {"idle", "saving", "recording", "queueing", "unlinking", "dropping",
                     "erasing", "committing", "purging", "cleaning", "rebuilding"},
         Goes(q, pc), Shape([ask[q] EXCEPT !.pc = pc])
  PROVE  ask' \in [Askers -> AskRow] /\ \A p \in Askers : Shape(ask'[p])
<1>1. [ask[q] EXCEPT !.pc = pc] \in AskRow
  BY DEF AskTyped, MatTypeOK, AskRow
<1>2. ask' = [ask EXCEPT ![q] = [ask[q] EXCEPT !.pc = pc]]
  BY DEF Goes, Becomes
<1>. QED
  BY <1>1, <1>2, AsksTyped

LEMMA EndsTyped ==
  ASSUME AskTyped, NEW q \in Askers, Ends(q)
  PROVE  ask' \in [Askers -> AskRow] /\ \A p \in Askers : Shape(ask'[p])
<1>1. ask' = [ask EXCEPT ![q] = NoAsk]
  BY DEF Ends, Becomes
<1>. QED
  BY <1>1, NoAskType, NoAskShape, AsksTyped

\* The request that rebuilds an assessment.
Wiping ==
  [op |-> "wipe", pc |-> "purging", task |-> "none", file |-> 0, files |-> Documents \cup Attachments,
   checks |-> {}, seen |-> [t \in Reviews |-> review'[t].status]]

LEMMA WipeFacts ==
  ASSUME NEW q, BeginWipe(q)
  PROVE  ask' = [ask EXCEPT ![q] = Wiping]
<1>. DEFINE seen == [t \in Reviews |-> review'[t].status]
            fs == Documents \cup Attachments
            a == [NoAsk EXCEPT !.op = "wipe", !.files = fs, !.pc = "purging", !.seen = seen]
<1>1. ask' = [ask EXCEPT ![q] = a]
  BY DEF BeginWipe, Becomes
<1>2. Wiping = [op |-> "wipe", pc |-> "purging", task |-> "none", file |-> 0, files |-> fs,
                checks |-> {}, seen |-> seen]
  BY DEF Wiping
<1>3. a = [NoAsk EXCEPT !.op = "wipe", !.files = fs, !.pc = "purging", !.seen = seen]
  OBVIOUS
<1>. HIDE DEF seen, fs, a
<1>4. a = [op |-> "wipe", pc |-> "purging", task |-> "none", file |-> 0, files |-> fs,
           checks |-> {}, seen |-> seen]
  BY ONLY <1>3 DEF NoAsk
<1>. QED
  BY <1>1, <1>2, <1>4

LEMMA WipeTyped ==
  ASSUME AskTyped, NEW q \in Askers, BeginWipe(q)
  PROVE  AskTyped'
<1>1. review' \in [Reviews -> [status : ReviewStatus, corpus : SUBSET Files]]
  BY DEF BeginWipe, AskTyped, MatTypeOK, ReviewStatus
<1>2. ASSUME NEW r \in Analyses PROVE [analysis[r] EXCEPT !.status = "ended"] \in CheckRow
  BY DEF AskTyped, MatTypeOK, CheckRow
<1>3. analysis' \in [Analyses -> CheckRow]
  BY <1>2 DEF BeginWipe, AskTyped, MatTypeOK
<1>4. Wiping \in AskRow
  BY <1>1, FilesTyped DEF Wiping, AskRow, Ops
<1>5. Shape(Wiping)
  BY DEF Shape, Wiping
<1>6. ask' \in [Askers -> AskRow] /\ \A p \in Askers : Shape(ask'[p])
  BY <1>4, <1>5, WipeFacts, AsksTyped
<1>7. excused' \subseteq Reviews
  <2>1. \A r \in Analyses : analysis[r].task \in Reviews \cup {"none"}
    BY DEF AskTyped, MatTypeOK, CheckRow
  <2>. QED
    BY <2>1 DEF BeginWipe, Excuse, AskTyped, MatTypeOK
<1>8. asks' \in 0 .. MaxAsks
  BY DEF BeginWipe, AskTyped, MatTypeOK
<1>. QED
  BY <1>1, <1>3, <1>6, <1>7, <1>8 DEF BeginWipe, AskTyped, MatTypeOK

\* Uploads, replacements and attachments.
LEMMA StoredTyped ==
  ASSUME AskTyped, NEW q \in Askers, NEW c \in Contents, NEW f \in Files, ask[q].pc = "saving",
         Stored(q, c, f)
  PROVE  /\ doc' \in [Files -> FileRow] /\ disk' \subseteq Files
         /\ ask' \in [Askers -> AskRow] /\ \A p \in Askers : Shape(ask'[p])
<1>. DEFINE a == ask[q]
<1>1. ask[q] \in AskRow
  BY DEF AskTyped, MatTypeOK
<1>2. ASSUME NEW g \in Files, NEW pc \in {"recording", "queueing"},
             Becomes(q, [ask[q] EXCEPT !.file = g, !.pc = pc]),
             pc = "queueing" => ask[q].op \in {"upload", "batch", "rebatch"}
      PROVE  ask' \in [Askers -> AskRow] /\ \A p \in Askers : Shape(ask'[p])
  <2>1. [ask[q] EXCEPT !.file = g, !.pc = pc] \in AskRow
    BY <1>1 DEF AskRow
  <2>2. ask' = [ask EXCEPT ![q] = [ask[q] EXCEPT !.file = g, !.pc = pc]]
    BY <1>2 DEF Becomes
  <2>3. Shape(ask[q])
    BY DEF AskTyped
  <2>4. Shape([ask[q] EXCEPT !.file = g, !.pc = pc])
    BY <1>1, <1>2, <2>3 DEF Shape, AskRow, Batches, Storing
  <2>. QED
    BY <2>1, <2>2, <2>4, AsksTyped
<1>3. ask[q].op \in Storing
  BY DEF AskTyped, Shape
<1>4. CASE Twins(q, c) = {}
  <2>1. Becomes(q, [ask[q] EXCEPT !.file = f, !.pc = "recording"])
    BY <1>4 DEF Stored
  <2>2. doc' = [doc EXCEPT ![f] = [@ EXCEPT !.content = c]] /\ disk' = disk \cup {f}
    BY <1>4 DEF Stored
  <2>3. doc' \in [Files -> FileRow]
    BY <2>2 DEF AskTyped, MatTypeOK, FileRow
  <2>. QED
    BY <2>1, <2>2, <2>3, <1>2, <1>3 DEF AskTyped, MatTypeOK
<1>5. CASE Twins(q, c) # {}
  <2>1. PICK twin \in Twins(q, c) :
          Becomes(q, [ask[q] EXCEPT !.file = twin,
                                    !.pc = IF ask[q].op = "retest" THEN "recording" ELSE "queueing"])
    BY <1>5 DEF Stored
  <2>2. twin \in Files
    <3>1. Twins(q, c) \in SUBSET Files
      BY <1>3, FilesTyped DEF Twins, Storing
    <3>. QED
      BY <3>1
  <2>3. UNCHANGED <<disk, doc>>
    BY <1>5 DEF Stored
  <2>4. ask' \in [Askers -> AskRow] /\ \A p \in Askers : Shape(ask'[p])
    <3>1. CASE ask[q].op = "retest"
      BY <3>1, <2>1, <2>2, <1>2, <1>3
    <3>2. CASE ask[q].op # "retest"
      <4>1. ask[q].op # "attach"
        BY <2>1 DEF Twins
      <4>. QED
        BY <3>2, <4>1, <2>1, <2>2, <1>2, <1>3 DEF Storing
    <3>. QED
      BY <3>1, <3>2
  <2>. QED
    BY <2>3, <2>4 DEF AskTyped, MatTypeOK
<1>. QED
  BY <1>4, <1>5

LEMMA NewRowTyped ==
  ASSUME MatTypeOK, NEW f \in Files, NEW of \in Reviews \cup {"unsorted", "finding", "answer"}
  PROVE  [doc EXCEPT ![f] = [@ EXCEPT !.row = "active", !.of = of]] \in [Files -> FileRow]
BY DEF MatTypeOK, FileRow

LEMMA ServeTyped1 ==
  ASSUME AskTyped, NEW q \in Askers,
         Save(q) \/ Record(q) \/ RecordAttachment(q) \/ RefuseRetest(q) \/ Unlink(q) \/ Clean(q)
  PROVE  AskTyped'
<1>. USE DEF AskTyped
<1>1. CASE Save(q)
  BY <1>1, StoredTyped DEF Save, MatTypeOK, Histories
<1>2. CASE Record(q)
  <2>1. ask[q].file \in Files /\ (ask[q].op = "upload" => ask[q].task \in Reviews)
    BY <1>2 DEF Record, Shape
  <2>2. doc' \in [Files -> FileRow]
    BY <1>2, <2>1, NewRowTyped DEF Record, Recorded
  <2>3. ask' \in [Askers -> AskRow] /\ \A p \in Askers : Shape(ask'[p])
    <3>1. Shape([ask[q] EXCEPT !.pc = "queueing"])
      BY <1>2, <2>1 DEF Record, Shape, MatTypeOK, AskRow, Batches
    <3>. QED
      BY <1>2, <3>1, GoesTyped DEF Record
  <2>. QED
    BY <1>2, <2>2, <2>3 DEF Record, MatTypeOK, Histories
<1>3. CASE RecordAttachment(q)
  <2>1. doc' \in [Files -> FileRow]
    <3>1. PICK of \in {"finding", "answer"} : doc' = Recorded(q, of)
      BY <1>3 DEF RecordAttachment
    <3>2. ask[q].file \in Files
      BY <1>3 DEF RecordAttachment, Shape
    <3>. QED
      BY <3>1, <3>2, NewRowTyped DEF Recorded
  <2>2. ask' \in [Askers -> AskRow] /\ \A p \in Askers : Shape(ask'[p])
    BY <1>3, EndsTyped DEF RecordAttachment
  <2>. QED
    BY <1>3, <2>1, <2>2 DEF RecordAttachment, MatTypeOK, Histories
<1>4. CASE RefuseRetest(q)
  BY <1>4, EndsTyped DEF RefuseRetest, MatTypeOK, Histories
<1>5. CASE Unlink(q)
  <2>1. ask' \in [Askers -> AskRow] /\ \A p \in Askers : Shape(ask'[p])
    <3>1. Shape([ask[q] EXCEPT !.pc = "dropping"])
      BY <1>5 DEF Unlink, Shape, MatTypeOK, AskRow
    <3>. QED
      BY <1>5, <3>1, GoesTyped DEF Unlink
  <2>2. ask[q].files \subseteq Files
    BY DEF MatTypeOK, AskRow
  <2>. QED
    BY <1>5, <2>1, <2>2 DEF Unlink, MatTypeOK
<1>6. CASE Clean(q)
  <2>1. ask' \in [Askers -> AskRow] /\ \A p \in Askers : Shape(ask'[p])
    <3>1. Shape([ask[q] EXCEPT !.pc = "rebuilding"])
      BY <1>6 DEF Clean, Shape, MatTypeOK, AskRow
    <3>. QED
      BY <1>6, <3>1, GoesTyped, EndsTyped DEF Clean
  <2>. QED
    BY <1>6, <2>1 DEF Clean, MatTypeOK, Histories
<1>. QED
  BY <1>1, <1>2, <1>3, <1>4, <1>5, <1>6

LEMMA RecordRetestTyped ==
  ASSUME AskTyped, NEW q \in Askers, RecordRetest(q)
  PROVE  AskTyped'
<1>. USE DEF AskTyped
<1>1. ask[q].task \in Reviews
  BY DEF RecordRetest, Shape
<1>2. doc' \in [Files -> FileRow]
  <2>1. ASSUME NEW f \in Files
        PROVE  /\ [doc[f] EXCEPT !.row = "replaced"] \in FileRow
               /\ [doc[f] EXCEPT !.row = "active", !.of = ask[q].task] \in FileRow
               /\ doc[f] \in FileRow
    BY <1>1 DEF MatTypeOK, FileRow
  <2>. QED
    BY <2>1 DEF RecordRetest
<1>3. analysis' \in [Analyses -> CheckRow]
  <2>1. PICK fs \in SUBSET Files, r \in Analyses :
          analysis' = [analysis EXCEPT ![r] = CheckOf(ask[q].task, "retest", fs)]
    BY DEF RecordRetest
  <2>. QED
    BY <1>1, <2>1, CheckOfType DEF MatTypeOK
<1>4. ask' \in [Askers -> AskRow] /\ \A p \in Askers : Shape(ask'[p])
  BY EndsTyped DEF RecordRetest
<1>. QED
  BY <1>2, <1>3, <1>4 DEF RecordRetest, MatTypeOK

LEMMA QueueTyped ==
  ASSUME AskTyped, NEW q \in Askers, Queue(q)
  PROVE  AskTyped'
<1>. USE DEF AskTyped
<1>1. ask[q] \in AskRow
  BY DEF MatTypeOK
<1>2. ask[q].task \in Reviews \cup {"none"}
  BY <1>1 DEF AskRow
<1>3. analysis' \in [Analyses -> CheckRow]
  <2>1. CASE UNCHANGED analysis
    BY <2>1 DEF MatTypeOK
  <2>2. CASE ~UNCHANGED analysis
    <3>1. PICK fs \in SUBSET Files, kind \in {"check", "sorts", "resorts"}, r \in Analyses :
            analysis' = [analysis EXCEPT ![r] = CheckOf(ask[q].task, kind, fs)]
      <4>1. {f \in {ask[q].file} : Stands(f)} \in SUBSET Files \/ ask[q].op \notin Batches
        BY DEF Queue, Shape
      <4>. QED
        BY <2>2, <4>1, FilesTyped DEF Queue, Batches
    <3>. QED
      BY <1>2, <3>1, CheckOfType DEF MatTypeOK
  <2>. QED
    BY <2>1, <2>2
<1>4. review' \in [Reviews -> [status : ReviewStatus, corpus : SUBSET Files]]
  <2>1. ASSUME NEW t \in Reviews
        PROVE  [status |-> Written(t, ask[q].seen[t], "in_progress"), corpus |-> {}]
                 \in [status : ReviewStatus, corpus : SUBSET Files]
    BY DEF MatTypeOK, Written, ReviewStatus
  <2>. QED
    BY <2>1 DEF Queue, MatTypeOK
<1>5. ask' \in [Askers -> AskRow] /\ \A p \in Askers : Shape(ask'[p])
  BY EndsTyped DEF Queue
<1>. QED
  BY <1>3, <1>4, <1>5 DEF Queue, MatTypeOK, Histories

\* Deletions, resets, clearings.
LEMMA DropTyped ==
  ASSUME AskTyped, NEW q \in Askers, Drop(q)
  PROVE  AskTyped'
<1>. USE DEF AskTyped
<1>1. ask[q] \in AskRow
  BY DEF MatTypeOK
<1>2. doc' \in [Files -> FileRow] /\ analysis' \in [Analyses -> CheckRow]
  BY DroppedTyped DEF Drop, MatTypeOK
<1>3. ask' \in [Askers -> AskRow] /\ \A p \in Askers : Shape(ask'[p])
  <2>1. CASE Ends(q)
    BY <2>1, EndsTyped
  <2>2. CASE ~Ends(q)
    <3>1. Becomes(q, [ask[q] EXCEPT !.files = {},
                        !.pc = IF ActiveOf(ask[q].task) \ ask[q].files = {} THEN "erasing" ELSE "queueing"])
      BY <2>2 DEF Drop
    <3>2. PICK pc \in {"erasing", "queueing"} :
            Becomes(q, [ask[q] EXCEPT !.files = {}, !.pc = pc])
      <4>. DEFINE pc == IF ActiveOf(ask[q].task) \ ask[q].files = {} THEN "erasing" ELSE "queueing"
      <4>1. pc \in {"erasing", "queueing"} /\ Becomes(q, [ask[q] EXCEPT !.files = {}, !.pc = pc])
        BY <3>1
      <4>. HIDE DEF pc
      <4>. QED
        BY <4>1
    <3>3. ask[q].op = "delete" /\ ask[q].task \in Reviews
      BY <2>2 DEF Drop, Shape
    <3>4. [ask[q] EXCEPT !.files = {}, !.pc = pc] \in AskRow
      BY <1>1 DEF AskRow
    <3>5. Shape([ask[q] EXCEPT !.files = {}, !.pc = pc])
      BY <3>3, <1>1 DEF Shape, AskRow, Batches
    <3>. QED
      BY <3>2, <3>4, <3>5, AsksTyped DEF Becomes
  <2>. QED
    BY <2>1, <2>2
<1>4. torn' \subseteq Files /\ excused' \subseteq Reviews
  BY DEF Drop, MatTypeOK
<1>. QED
  BY <1>2, <1>3, <1>4 DEF Drop, MatTypeOK

LEMMA EraseCommitTyped ==
  ASSUME AskTyped, NEW q \in Askers, Erase(q) \/ Commit(q)
  PROVE  AskTyped'
<1>. USE DEF AskTyped
<1>1. ask[q] \in AskRow
  BY DEF MatTypeOK
<1>2. CASE Erase(q)
  <2>1. PICK fs \in SUBSET Files, rs \in SUBSET Analyses :
          /\ Becomes(q, [ask[q] EXCEPT !.files = fs, !.checks = rs, !.pc = "committing"])
          /\ disk' = disk \ fs /\ torn' = torn \cup fs
    BY <1>2, FilesTyped DEF Erase
  <2>2. [ask[q] EXCEPT !.files = fs, !.checks = rs, !.pc = "committing"] \in AskRow
    BY <1>1 DEF AskRow
  <2>3. Shape([ask[q] EXCEPT !.files = fs, !.checks = rs, !.pc = "committing"])
    BY <1>1, <1>2 DEF Erase, Shape, AskRow
  <2>4. ask' \in [Askers -> AskRow] /\ \A p \in Askers : Shape(ask'[p])
    BY <2>1, <2>2, <2>3, AsksTyped DEF Becomes
  <2>. QED
    BY <1>2, <2>1, <2>4 DEF Erase, MatTypeOK
<1>3. CASE Commit(q)
  <2>1. doc' \in [Files -> FileRow] /\ analysis' \in [Analyses -> CheckRow]
    BY <1>3, DroppedTyped DEF Commit
  <2>2. ask' \in [Askers -> AskRow] /\ \A p \in Askers : Shape(ask'[p])
    BY <1>3, EndsTyped DEF Commit
  <2>3. review' \in [Reviews -> [status : ReviewStatus, corpus : SUBSET Files]]
    BY <1>3, ResetTyped DEF Commit
  <2>4. excused' \subseteq Reviews /\ slipped' \subseteq Reviews
    <3>1. Scope(q) \subseteq Reviews
      BY <1>1 DEF Scope, AskRow
    <3>. QED
      BY <3>1, <1>3 DEF Commit, Slips, MatTypeOK
  <2>. QED
    BY <1>3, <2>1, <2>2, <2>3, <2>4 DEF Commit, MatTypeOK
<1>. QED
  BY <1>2, <1>3

\* Requests that find their rows gone.
LEMMA FailsTyped ==
  ASSUME AskTyped, NEW p \in Askers, NEW q \in Askers
  PROVE  Fails(p, q) \in AskRow
<1>1. ask[p] \in AskRow /\ ask[q] \in AskRow
  BY DEF AskTyped, MatTypeOK
<1>2. [ask[q] EXCEPT !.pc = "cleaning"] \in AskRow /\ [ask[p] EXCEPT !.op = "detach", !.task = "none"] \in AskRow
  BY <1>1 DEF AskRow, Ops
<1>. QED
  BY <1>1, <1>2, NoAskType DEF Fails

LEMMA FailsShape ==
  ASSUME AskTyped, NEW p \in Askers, NEW q \in Askers
  PROVE  Shape(Fails(p, q))
<1>1. ask[p] \in AskRow /\ ask[q] \in AskRow /\ Shape(ask[p])
  BY DEF AskTyped, MatTypeOK
<1>2. CASE p = q
  BY <1>1, <1>2 DEF Fails, Shape, AskRow
<1>3. CASE p # q /\ (ask[p].op \in {"clear", "discard", "wipe", "remove"} \/ ask[p].pc = "idle")
  BY <1>1, <1>3 DEF Fails
<1>4. CASE p # q /\ ~(ask[p].op \in {"clear", "discard", "wipe", "remove"} \/ ask[p].pc = "idle")
  <2>1. CASE ask[p].pc \in {"unlinking", "dropping"}
    BY <1>1, <1>4, <2>1 DEF Fails, Shape, AskRow
  <2>2. CASE ask[p].pc \notin {"unlinking", "dropping"}
    BY <1>4, <2>2, NoAskShape DEF Fails
  <2>. QED
    BY <2>1, <2>2
<1>. QED
  BY <1>2, <1>3, <1>4

LEMMA PurgeTyped ==
  ASSUME AskTyped, NEW q \in Askers, Purge(q)
  PROVE  AskTyped'
<1>. USE DEF AskTyped
<1>1. doc' \in [Files -> FileRow] /\ analysis' \in [Analyses -> CheckRow]
  BY DroppedTyped DEF Purge
<1>2. CASE ask[q].op = "remove"
  <2>1. review' \in [Reviews -> [status : ReviewStatus, corpus : SUBSET Files]]
    BY <1>2 DEF Purge, ReviewStatus
  <2>2. ask' \in [Askers -> AskRow]
    BY <1>2, FailsTyped DEF Purge
  <2>3. ASSUME NEW p \in Askers PROVE Shape(ask'[p])
    BY <1>2, FailsShape DEF Purge
  <2>. QED
    BY <1>1, <1>2, <2>1, <2>2, <2>3 DEF Purge, MatTypeOK
<1>3. CASE ask[q].op # "remove"
  <2>1. review' \in [Reviews -> [status : ReviewStatus, corpus : SUBSET Files]]
    BY <1>3, ResetTyped DEF Purge
  <2>2. ask' \in [Askers -> AskRow] /\ \A p \in Askers : Shape(ask'[p])
    <3>1. Shape([ask[q] EXCEPT !.pc = "cleaning"])
      BY DEF Shape, MatTypeOK, AskRow
    <3>. QED
      BY <1>3, <3>1, GoesTyped DEF Purge
  <2>3. excused' \subseteq Reviews /\ slipped' \subseteq Reviews
    BY <1>3 DEF Purge, Slips, MatTypeOK
  <2>. QED
    BY <1>1, <1>3, <2>1, <2>2, <2>3 DEF Purge, MatTypeOK
<1>. QED
  BY <1>2, <1>3

LEMMA RebuildTyped ==
  ASSUME AskTyped, NEW q \in Askers, Rebuild(q)
  PROVE  AskTyped'
<1>. USE DEF AskTyped
<1>1. doc' \in [Files -> FileRow]
  BY DEF Rebuild, MatTypeOK, FileRow
<1>2. analysis' \in [Analyses -> CheckRow]
  <2>1. [NoCheck EXCEPT !.status = "deleted"] \in CheckRow
    BY DEF NoCheck, CheckRow
  <2>. QED
    BY <2>1 DEF Rebuild, MatTypeOK
<1>3. review' \in [Reviews -> [status : ReviewStatus, corpus : SUBSET Files]]
  BY DEF Rebuild, ReviewStatus
<1>4. ASSUME NEW p \in Askers PROVE ask'[p] \in AskRow /\ Shape(ask'[p])
  <2>1. CASE p = q
    BY <2>1, NoAskType, NoAskShape DEF Rebuild
  <2>2. CASE p # q /\ ask[p].op = "attach"
    <3>1. ask'[p] = ask[p]
      BY <2>2 DEF Rebuild
    <3>. QED
      BY <3>1 DEF MatTypeOK
  <2>3. CASE p # q /\ ask[p].op # "attach"
    <3>1. ask'[p] = Fails(p, q)
      BY <2>3 DEF Rebuild
    <3>. QED
      BY <3>1, FailsTyped, FailsShape
  <2>. QED
    BY <2>1, <2>2, <2>3
<1>5. ask' \in [Askers -> AskRow]
  BY <1>4 DEF Rebuild
<1>. QED
  BY <1>1, <1>2, <1>3, <1>4, <1>5 DEF Rebuild, MatTypeOK

\* The worker.
LEMMA ClosedTyped ==
  ASSUME MatTypeOK, NEW r \in Analyses
  PROVE  Closed(r) \in [Analyses -> CheckRow]
BY DEF MatTypeOK, Closed, CheckRow

LEMMA VerdictTyped ==
  ASSUME MatTypeOK, NEW t, NEW status \in ReviewStatus, NEW fs \in SUBSET Files
  PROVE  Verdict(t, status, fs) \in [Reviews -> [status : ReviewStatus, corpus : SUBSET Files]]
BY DEF MatTypeOK, Verdict

LEMMA SortedTyped ==
  ASSUME MatTypeOK, NEW kind, NEW t \in Reviews \cup {"unsorted"}, NEW f \in Files
  PROVE  SortedRows(kind, t, f) \in [Files -> FileRow]
<1>. DEFINE sorted == IF t = "unsorted" THEN doc ELSE [doc EXCEPT ![f] = [@ EXCEPT !.of = t]]
<1>1. t = "unsorted" \/ [doc[f] EXCEPT !.of = t] \in FileRow
  BY DEF MatTypeOK, FileRow
<1>2. sorted \in [Files -> FileRow]
  BY <1>1 DEF MatTypeOK
<1>3. SortedRows(kind, t, f) =
        [g \in Files |-> IF g \in Older(kind, t, f) THEN [sorted[g] EXCEPT !.row = "replaced"] ELSE sorted[g]]
  BY DEF SortedRows
<1>. HIDE DEF sorted
<1>4. ASSUME NEW g \in Files PROVE [sorted[g] EXCEPT !.row = "replaced"] \in FileRow
  BY <1>2 DEF FileRow
<1>. QED
  BY <1>2, <1>3, <1>4

LEMMA WorkTyped ==
  ASSUME AskTyped, NEW r \in Analyses, Work(r)
  PROVE  AskTyped'
<1>. USE DEF AskTyped
<1>1. analysis[r] \in CheckRow
  BY DEF MatTypeOK
<1>2. analysis[r].task \in Reviews \cup {"none"} /\ analysis[r].read \in SUBSET Files
  BY <1>1 DEF CheckRow
<1>3. Excuse({analysis[r].task}) => excused' \subseteq Reviews
  BY <1>2 DEF Excuse, MatTypeOK
<1>4. CASE Start(r)
  <2>1. [analysis[r] EXCEPT !.status = "running",
                            !.read = {f \in analysis[r].files : doc[f].row = "active"}] \in CheckRow
    BY <1>1 DEF CheckRow
  <2>. QED
    BY <1>4, <2>1 DEF Start, MatTypeOK, Histories
<1>5. CASE Judge(r)
  <2>1. review' \in [Reviews -> [status : ReviewStatus, corpus : SUBSET Files]]
    BY <1>2, <1>5, VerdictTyped DEF Judge, ReviewStatus
  <2>. QED
    BY <1>5, <2>1, ClosedTyped DEF Judge, MatTypeOK
<1>6. CASE CannotTell(r)
  <2>1. review' \in [Reviews -> [status : ReviewStatus, corpus : SUBSET Files]]
    BY <1>6, VerdictTyped DEF CannotTell, ReviewStatus
  <2>. QED
    BY <1>6, <2>1, ClosedTyped DEF CannotTell, MatTypeOK, Histories
<1>7. CASE Raise(r)
  <2>1. review' \in [Reviews -> [status : ReviewStatus, corpus : SUBSET Files]]
    BY <1>7, VerdictTyped DEF Raise, ReviewStatus, MatTypeOK
  <2>. QED
    BY <1>3, <1>7, <2>1, ClosedTyped DEF Raise, MatTypeOK
<1>8. CASE Sort(r)
  <2>1. PICK t \in Reviews \cup {"unsorted"}, readable \in BOOLEAN, f \in analysis[r].read :
          GivenTo(r, t, readable, f)
    BY <1>8 DEF Sort
  <2>2. f \in Files
    BY <1>2
  <2>3. doc' \in [Files -> FileRow]
    BY <2>1, <2>2, SortedTyped DEF GivenTo
  <2>4. analysis' \in [Analyses -> CheckRow]
    <3>. DEFINE task == IF t \in Reviews /\ (readable \/ analysis[r].kind = "resorts") THEN t ELSE "none"
    <3>1. task \in Reviews \cup {"none"}
      OBVIOUS
    <3>2. analysis' = [analysis EXCEPT ![r] = [analysis[r] EXCEPT !.status = "sorting", !.task = task]]
      BY <2>1 DEF GivenTo
    <3>. HIDE DEF task
    <3>3. [analysis[r] EXCEPT !.status = "sorting", !.task = task] \in CheckRow
      BY <3>1, <1>1 DEF CheckRow
    <3>. QED
      BY <3>2, <3>3 DEF MatTypeOK
  <2>5. review' \in [Reviews -> [status : ReviewStatus, corpus : SUBSET Files]]
    BY <2>1 DEF GivenTo, MatTypeOK, ReviewStatus
  <2>6. excused' \subseteq Reviews
    BY <2>1 DEF GivenTo, MatTypeOK
  <2>. QED
    BY <1>8, <2>3, <2>4, <2>5, <2>6 DEF Sort, MatTypeOK
<1>9. CASE QueueSorted(r)
  <2>1. analysis' \in [Analyses -> CheckRow]
    <3>1. CASE analysis' = Closed(r)
      BY <3>1, ClosedTyped
    <3>2. CASE analysis' # Closed(r)
      <4>1. PICK p \in Analyses, kind \in {"check", "retest"} :
              analysis' = [Closed(r) EXCEPT ![p] = CheckOf(analysis[r].task, kind, ActiveOf(analysis[r].task))]
        BY <1>9, <3>2 DEF QueueSorted
      <4>2. CheckOf(analysis[r].task, kind, ActiveOf(analysis[r].task)) \in CheckRow
        BY <1>2, CheckOfType, FilesTyped
      <4>. QED
        BY <4>1, <4>2, ClosedTyped
    <3>. QED
      BY <3>1, <3>2
  <2>2. review' \in [Reviews -> [status : ReviewStatus, corpus : SUBSET Files]]
    <3>1. review' = review \/ review' = Verdict(analysis[r].task, "in_progress", {})
      BY <1>9 DEF QueueSorted
    <3>2. Verdict(analysis[r].task, "in_progress", {})
            \in [Reviews -> [status : ReviewStatus, corpus : SUBSET Files]]
      BY VerdictTyped DEF ReviewStatus
    <3>. QED
      BY <3>1, <3>2 DEF MatTypeOK
  <2>3. excused' \subseteq Reviews
    BY <1>3, <1>9 DEF QueueSorted, MatTypeOK
  <2>. QED
    BY <1>9, <2>1, <2>2, <2>3 DEF QueueSorted, MatTypeOK
<1>10. CASE Stop(r)
  <2>1. review' \in [Reviews -> [status : ReviewStatus, corpus : SUBSET Files]]
    BY <1>10 DEF Stop, ReviewStatus, MatTypeOK
  <2>. QED
    BY <1>3, <1>10, <2>1, ClosedTyped DEF Stop, MatTypeOK
<1>. QED
  BY <1>4, <1>5, <1>6, <1>7, <1>8, <1>9, <1>10 DEF Work

LEMMA DieTyped ==
  ASSUME AskTyped, NEW q \in Askers, Die(q)
  PROVE  AskTyped'
BY EndsTyped DEF Die, AskTyped, MatTypeOK

LEMMA AskTypeNext == AskTyped /\ [MatNext]_matVars => AskTyped'
<1>. SUFFICES ASSUME AskTyped, [MatNext]_matVars PROVE AskTyped'
  OBVIOUS
<1>1. CASE UNCHANGED matVars
  BY <1>1 DEF matVars, AskTyped, MatTypeOK
<1>2. ASSUME NEW q \in Askers, Request(q) PROVE AskTyped'
  BY <1>2, RequestTyped, WipeTyped
<1>3. ASSUME NEW q \in Askers, Serve(q) PROVE AskTyped'
  BY <1>3, ServeTyped1, RecordRetestTyped, QueueTyped, DropTyped, EraseCommitTyped, PurgeTyped,
     RebuildTyped DEF Serve
<1>4. ASSUME NEW q \in Askers, Die(q) PROVE AskTyped'
  BY <1>4, DieTyped
<1>5. ASSUME NEW r \in Analyses, Work(r) PROVE AskTyped'
  BY <1>5, WorkTyped
<1>. QED
  BY <1>1, <1>2, <1>3, <1>4, <1>5 DEF MatNext

-----------------------------------------------------------------------------
(* What the steps do to the rows of files and analyses.                     *)

LEMMA DroppedFacts ==
  ASSUME AskTyped, NEW fs, NEW rs, Dropped(fs, rs)
  PROVE  /\ \A f \in Files : /\ doc'[f].row = IF f \in fs THEN "deleted" ELSE doc[f].row
                             /\ doc'[f].of = doc[f].of
         /\ \A r \in Analyses :
              IF r \in rs THEN /\ analysis'[r].status = "deleted" /\ analysis'[r].kind = "check"
                               /\ analysis'[r].task = "none" /\ analysis'[r].files = {}
              ELSE /\ analysis'[r].status = analysis[r].status /\ analysis'[r].kind = analysis[r].kind
                   /\ analysis'[r].task = analysis[r].task /\ analysis'[r].read = analysis[r].read
                   /\ analysis'[r].files = analysis[r].files \ fs
<1>1. ASSUME NEW f \in Files
      PROVE  /\ doc'[f].row = IF f \in fs THEN "deleted" ELSE doc[f].row
             /\ doc'[f].of = doc[f].of
  BY DEF Dropped, AskTyped, MatTypeOK, FileRow
<1>2. ASSUME NEW r \in Analyses, r \in rs
      PROVE  /\ analysis'[r].status = "deleted" /\ analysis'[r].kind = "check"
             /\ analysis'[r].task = "none" /\ analysis'[r].files = {}
  BY <1>2 DEF Dropped, NoCheck
<1>3. ASSUME NEW r \in Analyses, r \notin rs
      PROVE  /\ analysis'[r].status = analysis[r].status /\ analysis'[r].kind = analysis[r].kind
             /\ analysis'[r].task = analysis[r].task /\ analysis'[r].read = analysis[r].read
             /\ analysis'[r].files = analysis[r].files \ fs
  <2>1. analysis[r] \in CheckRow
    BY DEF AskTyped, MatTypeOK
  <2>2. analysis'[r] = [analysis[r] EXCEPT !.files = @ \ fs]
    BY <1>3 DEF Dropped
  <2>. QED
    BY <2>1, <2>2 DEF CheckRow
<1>. QED
  BY <1>1, <1>2, <1>3

LEMMA RecordedFacts ==
  ASSUME AskTyped, NEW q \in Askers, NEW of, ask[q].file \in Files, doc' = Recorded(q, of)
  PROVE  \A f \in Files :
           /\ doc'[f].row = IF f = ask[q].file THEN "active" ELSE doc[f].row
           /\ doc'[f].of = IF f = ask[q].file THEN of ELSE doc[f].of
BY DEF Recorded, AskTyped, MatTypeOK, FileRow

LEMMA SortedFacts ==
  ASSUME AskTyped, NEW kind, NEW t \in Reviews \cup {"unsorted"}, NEW f \in Files,
         doc' = SortedRows(kind, t, f)
  PROVE  \A g \in Files :
           /\ doc'[g].row = IF g \in Older(kind, t, f) THEN "replaced" ELSE doc[g].row
           /\ doc'[g].of = IF t \in Reviews /\ g = f THEN t ELSE doc[g].of
<1>. DEFINE sorted == IF t = "unsorted" THEN doc ELSE [doc EXCEPT ![f] = [@ EXCEPT !.of = t]]
<1>1. t = "unsorted" \/ [doc[f] EXCEPT !.of = t] \in FileRow
  BY DEF AskTyped, MatTypeOK, FileRow
<1>2. sorted \in [Files -> FileRow]
  BY <1>1 DEF AskTyped, MatTypeOK
<1>3. ASSUME NEW g \in Files
      PROVE  sorted[g].row = doc[g].row /\ sorted[g].of = IF t \in Reviews /\ g = f THEN t ELSE doc[g].of
  BY <1>1 DEF AskTyped, MatTypeOK, FileRow
<1>4. doc' = [g \in Files |-> IF g \in Older(kind, t, f) THEN [sorted[g] EXCEPT !.row = "replaced"]
                              ELSE sorted[g]]
  BY DEF SortedRows
<1>. HIDE DEF sorted
<1>5. TAKE g \in Files
<1>6. CASE g \in Older(kind, t, f)
  <2>1. doc'[g] = [sorted[g] EXCEPT !.row = "replaced"] /\ sorted[g] \in FileRow
    BY <1>2, <1>4, <1>6
  <2>. QED
    BY <1>3, <1>6, <2>1 DEF FileRow
<1>7. CASE g \notin Older(kind, t, f)
  <2>1. doc'[g] = sorted[g]
    BY <1>4, <1>7
  <2>. QED
    BY <1>3, <1>7, <2>1
<1>. QED
  BY <1>6, <1>7

\* The analysis alone is closed.
LEMMA ClosedFacts ==
  ASSUME AskTyped, NEW r \in Analyses, analysis' = Closed(r)
  PROVE  /\ analysis'[r].status = "ended" /\ analysis'[r].kind = analysis[r].kind
         /\ analysis'[r].task = analysis[r].task /\ analysis'[r].files = analysis[r].files
         /\ \A p \in Analyses \ {r} : analysis'[p] = analysis[p]
BY DEF Closed, AskTyped, MatTypeOK, CheckRow

LEMMA GivenFacts ==
  ASSUME AskTyped, NEW r \in Analyses, NEW t \in Reviews \cup {"unsorted"}, NEW readable \in BOOLEAN,
         NEW f \in Files, GivenTo(r, t, readable, f)
  PROVE  /\ analysis'[r].status = "sorting" /\ analysis'[r].kind = analysis[r].kind
         /\ analysis'[r].files = analysis[r].files /\ analysis'[r].read = analysis[r].read
         /\ analysis'[r].task = IF t \in Reviews /\ (readable \/ analysis[r].kind = "resorts") THEN t ELSE "none"
         /\ \A p \in Analyses \ {r} : analysis'[p] = analysis[p]
<1>. DEFINE task == IF t \in Reviews /\ (readable \/ analysis[r].kind = "resorts") THEN t ELSE "none"
<1>1. analysis' = [analysis EXCEPT ![r] = [analysis[r] EXCEPT !.status = "sorting", !.task = task]]
  BY DEF GivenTo
<1>2. task = IF t \in Reviews /\ (readable \/ analysis[r].kind = "resorts") THEN t ELSE "none"
  OBVIOUS
<1>. HIDE DEF task
<1>3. analysis[r] \in CheckRow
  BY DEF AskTyped, MatTypeOK
<1>. QED
  BY <1>1, <1>2, <1>3 DEF AskTyped, MatTypeOK, CheckRow

\* A new analysis.
LEMMA NewFacts ==
  ASSUME AskTyped, NEW r \in Analyses, NEW t, NEW kind, NEW fs,
         analysis' = [analysis EXCEPT ![r] = CheckOf(t, kind, fs)]
  PROVE  /\ analysis'[r].status = "queued" /\ analysis'[r].kind = kind
         /\ analysis'[r].task = t /\ analysis'[r].files = fs /\ analysis'[r].read = {}
         /\ \A p \in Analyses \ {r} : analysis'[p] = analysis[p]
BY DEF AskTyped, MatTypeOK, CheckOf

-----------------------------------------------------------------------------
(* Requests keep to what they know of their files.                          *)

\* Rows are not forgotten, one that does not stand or is not current any more never is again,
\* and a document does not turn into an attachment, nor an attachment into anything.
RowOnward(f) ==
  doc[f].row # "none" =>
    /\ doc'[f].row # "none" /\ (Stands(f)' => Stands(f))
    /\ doc'[f].row = "active" => doc[f].row = "active"
    /\ doc'[f].of = doc[f].of \/ {doc[f].of, doc'[f].of} \cap {"finding", "answer"} = {}
Onward ==
  /\ \A f \in Files : RowOnward(f)
  /\ \A r \in Analyses : analysis[r].status # "none" => analysis'[r].status # "none"
Records(q) == ask[q].pc = "recording" /\ doc[ask[q].file].row = "none"
\* Of the file that it records a request still has no row, and nobody takes it.
AskUnmoved(q) ==
  Records(q) => /\ doc'[ask[q].file].row = "none" /\ ask[q].file \in disk'
                /\ \A p \in Askers \ {q} : ask'[p].file # ask[q].file

LEMMA AskKept ==
  ASSUME AskTyped, NEW q \in Askers, AskSound(q), ask'[q] = ask[q], Onward, AskUnmoved(q)
  PROVE  AskSound(q)'
<1>1. ask[q].files \subseteq Files /\ ask[q].checks \subseteq Analyses /\ Shape(ask[q])
  BY DEF AskTyped, MatTypeOK, AskRow
<1>2. \A f \in ask[q].files : doc'[f].row # "none"
  BY <1>1 DEF AskSound, Onward, RowOnward
<1>3. ask[q].pc = "recording" =>
           /\ ask[q].op # "retest" => doc'[ask[q].file].row = "none"
           /\ doc'[ask[q].file].row = "none" => /\ ask[q].file \in disk'
                                                /\ \A p \in Askers \ {q} : ask'[p].file # ask[q].file
  BY <1>1 DEF AskSound, Onward, RowOnward, AskUnmoved, Records, Shape
<1>4. ask[q].pc = "queueing" /\ ask[q].op \in Batches =>
           doc'[ask[q].file].row # "none" /\ doc'[ask[q].file].of \notin {"finding", "answer"}
  BY <1>1 DEF AskSound, Onward, RowOnward, Shape
<1>5. ask[q].pc = "purging" =>
           /\ ask[q].op = "wipe" => \A f \in ask[q].files : doc'[f].of # "answer"
           /\ ask[q].op = "discard" => \A f \in ask[q].files : doc'[f].of = "finding"
  BY <1>1 DEF AskSound, Onward, RowOnward
<1>6. ask[q].pc = "cleaning" => \A f \in ask[q].files : ~Stands(f)'
  BY <1>1 DEF AskSound, Onward, RowOnward
<1>7. \A r \in ask[q].checks : analysis'[r].status # "none"
  BY <1>1 DEF AskSound, Onward
<1>. QED
  BY <1>2, <1>3, <1>4, <1>5, <1>6, <1>7 DEF AskSound

\* The request alone goes on.
Elsewhere(q) == \A p \in Askers \ {q} :
  /\ ask'[p] = ask[p]
  /\ Records(p) => /\ doc'[ask[p].file].row = "none" /\ ask[p].file \in disk'
                   /\ ask'[q].file # ask[p].file

LEMMA AsksStep ==
  ASSUME AskTyped, AsksSound, NEW q \in Askers, Onward, Elsewhere(q), AskSound(q)'
  PROVE  AsksSound'
<1>. SUFFICES ASSUME NEW p \in Askers PROVE AskSound(p)'
  BY DEF AsksSound
<1>1. CASE p = q
  BY <1>1
<1>2. CASE p # q
  <2>1. ask'[p] = ask[p] /\ AskSound(p)
    BY <1>2 DEF Elsewhere, AsksSound
  <2>2. AskUnmoved(p)
    BY <1>2, <2>1 DEF Elsewhere, AskUnmoved, AskSound, Records
  <2>. QED
    BY <2>1, <2>2, AskKept
<1>. QED
  BY <1>1, <1>2

\* Steps of the worker.
LEMMA AsksStill ==
  ASSUME AskTyped, AsksSound, ask' = ask, Onward,
         \A q \in Askers : Records(q) => doc'[ask[q].file].row = "none" /\ ask[q].file \in disk'
  PROVE  AsksSound'
<1>. SUFFICES ASSUME NEW p \in Askers PROVE AskSound(p)'
  BY DEF AsksSound
<1>1. AskSound(p)
  BY DEF AsksSound
<1>2. AskUnmoved(p)
  BY <1>1 DEF AskUnmoved, AskSound, Records
<1>. QED
  BY <1>1, <1>2, AskKept

\* The file that somebody else records.
LEMMA RecordsFacts ==
  ASSUME AskTyped, AsksSound, NEW q \in Askers, NEW p \in Askers \ {q}, Records(p)
  PROVE  /\ ask[p].file \in Files /\ ask[p].file \in disk /\ doc[ask[p].file].row = "none"
         /\ ask[p].file # ask[q].file
BY DEF AskTyped, AsksSound, AskSound, Records, Shape

\* A step of one request, to its next row.
Moves(q) == Onward /\ Elsewhere(q) /\ AskSound(q)' /\ RowsHaveFiles'

LEMMA NoAskSound ==
  ASSUME NEW q, ask'[q] = NoAsk
  PROVE  AskSound(q)'
BY DEF AskSound, NoAsk

LEMMA StillOnward ==
  ASSUME UNCHANGED doc, \A r \in Analyses : analysis[r].status # "none" => analysis'[r].status # "none"
  PROVE  Onward
BY DEF Onward, RowOnward, Stands

LEMMA BeginMoves ==
  ASSUME AskTyped, AsksSound, RowsHaveFiles, NEW q \in Askers, Request(q)
  PROVE  Moves(q)
<1>1. CASE BeginWipe(q)
  <2>1. ask' = [ask EXCEPT ![q] = Wiping]
    BY <1>1, WipeFacts
  <2>2. ask'[q] = Wiping /\ \A p \in Askers \ {q} : ask'[p] = ask[p]
    BY <2>1 DEF AskTyped, MatTypeOK
  <2>3. UNCHANGED <<doc, disk, torn>>
    BY <1>1 DEF BeginWipe
  <2>4. Onward
    <3>1. ASSUME NEW r \in Analyses, analysis[r].status # "none" PROVE analysis'[r].status # "none"
      BY <1>1, <3>1 DEF BeginWipe, AskTyped, MatTypeOK, CheckRow
    <3>. QED
      BY <3>1, <2>3, StillOnward
  <2>5. Elsewhere(q)
    <3>1. ASSUME NEW p \in Askers \ {q}, Records(p)
          PROVE  ask[p].file \in disk /\ doc[ask[p].file].row = "none" /\ ask[p].file \in Files
      BY <3>1, RecordsFacts
    <3>. QED
      BY <3>1, <2>2, <2>3 DEF Elsewhere, Wiping, Files
  <2>6. AskSound(q)'
    BY <2>2, <2>3 DEF AskSound, Wiping, Documents, Attachments, Stands
  <2>. QED
    BY <2>3, <2>4, <2>5, <2>6 DEF Moves, RowsHaveFiles, Stands
<1>2. CASE ~BeginWipe(q)
  <2>1. PICK op \in Ops, t \in Reviews \cup {"none"}, fs \in SUBSET Files,
             pc \in {"saving", "queueing", "unlinking", "erasing", "purging"} :
             Beginning(q, op, t, fs, pc)
    BY <1>2, RequestFacts
  <2>2. UNCHANGED <<doc, disk, torn, analysis>>
    BY <2>1 DEF Beginning, Histories
  <2>3. ask' = [ask EXCEPT ![q] = AskBegun(op, t, fs, pc)] /\ ask'[q] = AskBegun(op, t, fs, pc)
    BY <2>1, BeginsFacts DEF Beginning, AskTyped
  <2>4. \A p \in Askers \ {q} : ask'[p] = ask[p]
    BY <2>3 DEF AskTyped, MatTypeOK
  <2>5. Onward
    BY <2>2, StillOnward
  <2>6. Elsewhere(q)
    <3>1. ASSUME NEW p \in Askers \ {q}, Records(p)
          PROVE  ask[p].file \in disk /\ doc[ask[p].file].row = "none" /\ ask[p].file \in Files
      BY <3>1, RecordsFacts
    <3>. QED
      BY <3>1, <2>2, <2>3, <2>4 DEF Elsewhere, AskBegun, Files
  <2>7. AskSound(q)'
    <3>1. pc = "queueing" => op \notin Batches
      BY <2>1 DEF Beginning, Shape, AskBegun, Files
    <3>. QED
      BY <2>1, <2>2, <2>3, <3>1 DEF AskSound, AskBegun, Beginning, Stands
  <2>. QED
    BY <2>2, <2>5, <2>6, <2>7 DEF Moves, RowsHaveFiles, Stands
<1>. QED
  BY <1>1, <1>2

LEMMA SaveMoves ==
  ASSUME AskTyped, AsksSound, RowsHaveFiles, NEW q \in Askers, Save(q)
  PROVE  Moves(q)
<1>1. PICK c \in Contents, f \in Files : Unused(f) /\ Stored(q, c, f)
  BY DEF Save
<1>2. ask[q] \in AskRow /\ AskSound(q) /\ UNCHANGED <<analysis, torn>>
  BY DEF AskTyped, MatTypeOK, AsksSound, Save, Histories
<1>3. CASE Twins(q, c) = {}
  <2>1. ask' = [ask EXCEPT ![q] = [ask[q] EXCEPT !.file = f, !.pc = "recording"]]
    BY <1>1, <1>3 DEF Stored, Becomes
  <2>2. /\ ask'[q].file = f /\ ask'[q].pc = "recording" /\ ask'[q].op = ask[q].op
        /\ ask'[q].files = ask[q].files /\ ask'[q].checks = ask[q].checks
        /\ \A p \in Askers \ {q} : ask'[p] = ask[p]
    BY <2>1, <1>2 DEF AskRow, AskTyped, MatTypeOK
  <2>3. disk' = disk \cup {f} /\ doc' = [doc EXCEPT ![f] = [@ EXCEPT !.content = c]]
    BY <1>1, <1>3 DEF Stored
  <2>4. \A g \in Files : doc'[g].row = doc[g].row /\ doc'[g].of = doc[g].of
    BY <2>3 DEF AskTyped, MatTypeOK, FileRow
  <2>5. Onward
    BY <2>4, <1>2 DEF Onward, RowOnward, Stands
  <2>6. ask[q].files \subseteq Files
    BY <1>2 DEF AskRow
  <2>7. Elsewhere(q)
    <3>1. ASSUME NEW p \in Askers \ {q}, Records(p)
          PROVE  ask[p].file \in disk /\ doc[ask[p].file].row = "none" /\ ask[p].file \in Files
      BY <3>1, RecordsFacts
    <3>2. f \notin disk
      BY <1>1 DEF Unused
    <3>. QED
      BY <3>1, <3>2, <2>2, <2>3, <2>4 DEF Elsewhere
  <2>8. AskSound(q)'
    <3>1. doc[f].row = "none" /\ \A p \in Askers : ask[p].file # f
      BY <1>1 DEF Unused
    <3>. QED
      BY <3>1, <1>2, <2>2, <2>3, <2>4, <2>6 DEF AskSound
  <2>. QED
    BY <1>2, <2>3, <2>4, <2>5, <2>7, <2>8 DEF Moves, RowsHaveFiles, Stands
<1>4. CASE Twins(q, c) # {}
  <2>1. PICK twin \in Twins(q, c), pc \in {"recording", "queueing"} :
          /\ ask' = [ask EXCEPT ![q] = [ask[q] EXCEPT !.file = twin, !.pc = pc]]
          /\ pc = "recording" => ask[q].op = "retest"
    BY <1>1, <1>4 DEF Stored, Becomes
  <2>2. /\ ask'[q].file = twin /\ ask'[q].pc = pc /\ ask'[q].op = ask[q].op
        /\ ask'[q].files = ask[q].files /\ ask'[q].checks = ask[q].checks
        /\ \A p \in Askers \ {q} : ask'[p] = ask[p]
    BY <2>1, <1>2 DEF AskRow, AskTyped, MatTypeOK
  <2>3. UNCHANGED <<disk, doc>>
    BY <1>1, <1>4 DEF Stored
  <2>4. twin \in Files /\ doc[twin].row = "active"
        /\ (ask[q].op \in Batches => doc[twin].of \notin {"finding", "answer"})
    <3>1. ask[q].op \in Storing
      BY DEF Save, AskTyped, Shape
    <3>. QED
      BY <3>1 DEF Twins, Storing, Batches, Documents, ActiveOf
  <2>5. Onward
    BY <2>3, <1>2, StillOnward
  <2>6. Elsewhere(q)
    <3>1. ASSUME NEW p \in Askers \ {q}, Records(p)
          PROVE  ask[p].file \in disk /\ doc[ask[p].file].row = "none" /\ ask[p].file \in Files
      BY <3>1, RecordsFacts
    <3>. QED
      BY <3>1, <2>2, <2>3, <2>4 DEF Elsewhere
  <2>7. AskSound(q)'
    BY <1>2, <2>1, <2>2, <2>3, <2>4 DEF AskSound
  <2>. QED
    BY <1>2, <2>3, <2>5, <2>6, <2>7 DEF Moves, RowsHaveFiles, Stands
<1>. QED
  BY <1>3, <1>4

\* The next rows of a request that goes on, and of one that ends.
LEMMA GoesFacts ==
  ASSUME AskTyped, NEW q \in Askers, NEW pc, Goes(q, pc)
  PROVE  /\ ask'[q].pc = pc /\ ask'[q].op = ask[q].op /\ ask'[q].task = ask[q].task
         /\ ask'[q].file = ask[q].file /\ ask'[q].files = ask[q].files
         /\ ask'[q].checks = ask[q].checks /\ ask'[q].seen = ask[q].seen
         /\ \A p \in Askers \ {q} : ask'[p] = ask[p]
<1>1. ask[q] \in AskRow /\ ask \in [Askers -> AskRow]
  BY DEF AskTyped, MatTypeOK
<1>2. ask' = [ask EXCEPT ![q] = [ask[q] EXCEPT !.pc = pc]]
  BY DEF Goes, Becomes
<1>. QED
  BY <1>1, <1>2 DEF AskRow

LEMMA EndsFacts ==
  ASSUME AskTyped, NEW q \in Askers, Ends(q)
  PROVE  ask'[q] = NoAsk /\ \A p \in Askers \ {q} : ask'[p] = ask[p]
BY DEF Ends, Becomes, AskTyped, MatTypeOK

\* What the others record lies on the disk unless a file of a row is taken from it.
LEMMA ElsewhereKept ==
  ASSUME AskTyped, AsksSound, NEW q \in Askers, \A p \in Askers \ {q} : ask'[p] = ask[p],
         ask'[q].file \in {ask[q].file, 0},
         \A f \in Files : doc[f].row = "none" => /\ doc'[f].row = "none" \/ f = ask[q].file
                                                 /\ f \in disk => f \in disk'
  PROVE  Elsewhere(q)
<1>1. ASSUME NEW p \in Askers \ {q}, Records(p)
      PROVE  /\ doc'[ask[p].file].row = "none" /\ ask[p].file \in disk'
             /\ ask'[q].file # ask[p].file
  <2>1. /\ ask[p].file \in Files /\ ask[p].file \in disk /\ doc[ask[p].file].row = "none"
        /\ ask[p].file # ask[q].file
    BY <1>1, RecordsFacts
  <2>. QED
    BY <2>1 DEF Files
<1>. QED
  BY <1>1 DEF Elsewhere

LEMMA RecordMoves ==
  ASSUME AskTyped, AsksSound, RowsHaveFiles, NEW q \in Askers, Record(q) \/ RecordAttachment(q)
  PROVE  Moves(q)
<1>1. PICK of \in Reviews \cup {"unsorted", "finding", "answer"} :
        /\ doc' = Recorded(q, of) /\ (Record(q) /\ ask[q].op \in Batches => of = "unsorted")
  BY DEF Record, RecordAttachment, Batches, AskTyped, Shape
<1>2. AskSound(q) /\ ask[q].pc = "recording" /\ ask[q].op # "retest" /\ ask[q].file \in Files
  BY DEF AsksSound, Record, RecordAttachment, AskTyped, Shape
<1>3. doc[ask[q].file].row = "none" /\ ask[q].file \in disk
  BY <1>2 DEF AskSound
<1>4. \A f \in Files : /\ doc'[f].row = IF f = ask[q].file THEN "active" ELSE doc[f].row
                       /\ doc'[f].of = IF f = ask[q].file THEN of ELSE doc[f].of
  BY <1>1, <1>2, RecordedFacts
<1>5. UNCHANGED <<disk, analysis, torn>>
  BY DEF Record, RecordAttachment, Histories
<1>6. Onward
  BY <1>3, <1>4, <1>5 DEF Onward, RowOnward, Stands
<1>7. RowsHaveFiles'
  BY <1>3, <1>4, <1>5 DEF RowsHaveFiles, Stands
<1>8. CASE Record(q)
  <2>1. /\ ask'[q].pc = "queueing" /\ ask'[q].op = ask[q].op /\ ask'[q].file = ask[q].file
        /\ ask'[q].files = ask[q].files /\ ask'[q].checks = ask[q].checks
        /\ \A p \in Askers \ {q} : ask'[p] = ask[p]
    BY <1>8, GoesFacts DEF Record
  <2>2. Elsewhere(q)
    BY <1>4, <1>5, <2>1, ElsewhereKept
  <2>3. ask[q].files \subseteq Files /\ ask[q].checks \subseteq Analyses
    BY DEF AskTyped, MatTypeOK, AskRow
  <2>4. AskSound(q)'
    BY <1>1, <1>2, <1>4, <1>5, <1>8, <2>1, <2>3 DEF AskSound
  <2>. QED
    BY <1>6, <1>7, <2>2, <2>4 DEF Moves
<1>9. CASE RecordAttachment(q)
  <2>1. ask'[q] = NoAsk /\ \A p \in Askers \ {q} : ask'[p] = ask[p]
    BY <1>9, EndsFacts DEF RecordAttachment
  <2>2. Elsewhere(q)
    BY <1>4, <1>5, <2>1, ElsewhereKept DEF NoAsk
  <2>. QED
    BY <1>6, <1>7, <2>1, <2>2, NoAskSound DEF Moves
<1>. QED
  BY <1>8, <1>9

\* The rows of a retest.
RetestRows(q) ==
  [f \in Files |->
     IF f \in ask[q].files THEN [doc[f] EXCEPT !.row = "replaced"]
     ELSE IF f = ask[q].file /\ doc[ask[q].file].row = "none"
     THEN [doc[f] EXCEPT !.row = "active", !.of = ask[q].task]
     ELSE doc[f]]
LEMMA RetestFacts ==
  ASSUME AskTyped, NEW q \in Askers, NEW t, t = ask[q].task, RecordRetest(q)
  PROVE  /\ \A f \in Files :
              /\ doc'[f].row = IF f \in ask[q].files THEN "replaced"
                               ELSE IF f = ask[q].file /\ doc[f].row = "none" THEN "active"
                               ELSE doc[f].row
              /\ doc'[f].of = IF f \notin ask[q].files /\ f = ask[q].file /\ doc[f].row = "none"
                              THEN t ELSE doc[f].of
         /\ \E r \in Analyses : /\ NewCheck(r)
                                /\ analysis' = [analysis EXCEPT ![r] = CheckOf(t, "retest", ActiveOf(t)')]
         /\ ActiveOf(t)' # {} /\ ActiveOf(t)' \cap Held = {}
<1>. DEFINE fs == {f \in Files : RetestRows(q)[f].row = "active" /\ RetestRows(q)[f].of = t}
<1>1. doc' = RetestRows(q)
  BY DEF RecordRetest, RetestRows
<1>2. /\ \E r \in Analyses : /\ NewCheck(r)
                             /\ analysis' = [analysis EXCEPT ![r] = CheckOf(t, "retest", fs)]
      /\ fs # {} /\ fs \cap Held = {}
  BY DEF RecordRetest, RetestRows
<1>3. ActiveOf(t)' = fs
  BY <1>1 DEF ActiveOf
<1>4. ASSUME NEW f \in Files
      PROVE  /\ doc'[f].row = IF f \in ask[q].files THEN "replaced"
                              ELSE IF f = ask[q].file /\ doc[f].row = "none" THEN "active"
                              ELSE doc[f].row
             /\ doc'[f].of = IF f \notin ask[q].files /\ f = ask[q].file /\ doc[f].row = "none"
                             THEN t ELSE doc[f].of
  BY <1>1 DEF RetestRows, AskTyped, MatTypeOK, FileRow
<1>. HIDE DEF fs
<1>. QED
  BY <1>2, <1>3, <1>4

LEMMA RetestMoves ==
  ASSUME AskTyped, AsksSound, RowsHaveFiles, NEW q \in Askers, RecordRetest(q) \/ RefuseRetest(q)
  PROVE  Moves(q)
<1>1. CASE RecordRetest(q)
  <2>1. ask[q].task \in Reviews /\ ask[q].pc = "recording" /\ ask[q].op = "retest" /\ ask[q].file \in Files
    BY <1>1 DEF AskTyped, Shape, RecordRetest
  <2>2. PICK t \in Reviews : t = ask[q].task
    BY <2>1
  <2>3. PICK r \in Analyses : analysis' = [analysis EXCEPT ![r] = CheckOf(t, "retest", ActiveOf(t)')]
    BY <1>1, <2>2, RetestFacts
  <2>4. /\ AskSound(q) /\ UNCHANGED <<disk, torn>> /\ ask[q].files \subseteq Files
        /\ \A f \in ask[q].files : doc[f].row # "deleted"
    BY <1>1 DEF AsksSound, RecordRetest, AskTyped, MatTypeOK, AskRow
  <2>5. \A f \in Files :
          /\ doc'[f].row = IF f \in ask[q].files THEN "replaced"
                           ELSE IF f = ask[q].file /\ doc[f].row = "none" THEN "active"
                           ELSE doc[f].row
          /\ doc'[f].of = IF f \notin ask[q].files /\ f = ask[q].file /\ doc[f].row = "none"
                          THEN t ELSE doc[f].of
    BY <1>1, <2>2, RetestFacts
  <2>6. \A f \in ask[q].files : Stands(f)
    BY <2>4 DEF AskSound, Stands, AskTyped, MatTypeOK, FileRow
  <2>7. \A f \in Files : Stands(f)' => Stands(f) \/ (f = ask[q].file /\ doc[f].row = "none")
    BY <2>5, <2>6 DEF Stands
  <2>8. Onward
    <3>1. \A p \in Analyses : analysis[p].status # "none" => analysis'[p].status # "none"
      BY <2>3, NewFacts
    <3>. QED
      BY <3>1, <2>5, <2>7 DEF Onward, RowOnward
  <2>9. ask'[q] = NoAsk /\ \A p \in Askers \ {q} : ask'[p] = ask[p]
    BY <1>1, EndsFacts DEF RecordRetest
  <2>10. Elsewhere(q)
    <3>1. \A f \in ask[q].files : doc[f].row # "none"
      BY <2>4 DEF AskSound
    <3>. QED
      BY <3>1, <2>4, <2>5, <2>9, ElsewhereKept DEF NoAsk
  <2>11. RowsHaveFiles'
    <3>1. doc[ask[q].file].row = "none" => ask[q].file \in disk
      BY <2>1, <2>4 DEF AskSound
    <3>. QED
      BY <3>1, <2>4, <2>7 DEF RowsHaveFiles, Stands
  <2>. QED
    BY <2>8, <2>9, <2>10, <2>11, NoAskSound DEF Moves
<1>2. CASE RefuseRetest(q)
  <2>1. ask'[q] = NoAsk /\ \A p \in Askers \ {q} : ask'[p] = ask[p]
    BY <1>2, EndsFacts DEF RefuseRetest
  <2>2. UNCHANGED <<disk, doc, analysis, torn>>
    BY <1>2 DEF RefuseRetest, Histories
  <2>3. Elsewhere(q)
    BY <2>1, <2>2, ElsewhereKept DEF NoAsk
  <2>. QED
    BY <2>1, <2>2, <2>3, NoAskSound, StillOnward DEF Moves, RowsHaveFiles, Stands
<1>. QED
  BY <1>1, <1>2

\* The analysis that a request queues.
LEMMA QueueFacts ==
  ASSUME AskTyped, NEW q \in Askers, Queue(q)
  PROVE  \/ UNCHANGED <<analysis, review>> /\ (ask[q].op \notin Batches => ActiveOf(ask[q].task) = {})
         \/ \E r \in Analyses, kind \in {"check", "sorts", "resorts"}, fs \in SUBSET Files :
              /\ NewCheck(r) /\ analysis' = [analysis EXCEPT ![r] = CheckOf(ask[q].task, kind, fs)]
              /\ fs # {} /\ fs \cap Held = {}
              /\ IF ask[q].op \in Batches THEN kind \in Sorts /\ fs = {ask[q].file} /\ Stands(ask[q].file)
                 ELSE kind = "check" /\ fs = ActiveOf(ask[q].task)
<1>1. ask[q].op \in Batches => {f \in {ask[q].file} : Stands(f)} \in SUBSET Files
  BY DEF Queue, AskTyped, Shape
<1>2. CASE ask[q].op \in Batches
  <2>. DEFINE fs == {f \in {ask[q].file} : Stands(f)}
  <2>1. CASE fs = {}
    BY <1>2, <2>1 DEF Queue, Batches
  <2>2. CASE fs # {}
    <3>1. PICK r \in Analyses, kind \in Sorts :
            NewCheck(r) /\ analysis' = [analysis EXCEPT ![r] = CheckOf(ask[q].task, kind, fs)]
      BY <1>2, <2>2 DEF Queue, Batches, Sorts
    <3>2. fs = {ask[q].file} /\ Stands(ask[q].file) /\ fs \cap Held = {}
      BY <1>2, <2>2 DEF Queue, Batches
    <3>. QED
      BY <1>1, <1>2, <2>2, <3>1, <3>2 DEF Sorts
  <2>. QED
    BY <2>1, <2>2
<1>3. CASE ask[q].op \notin Batches
  BY <1>3, FilesTyped DEF Queue, Batches
<1>. QED
  BY <1>2, <1>3

LEMMA QueueMoves ==
  ASSUME AskTyped, AsksSound, RowsHaveFiles, NEW q \in Askers, Queue(q)
  PROVE  Moves(q)
<1>1. ask'[q] = NoAsk /\ \A p \in Askers \ {q} : ask'[p] = ask[p]
  BY EndsFacts DEF Queue
<1>2. UNCHANGED <<disk, doc, torn>>
  BY DEF Queue, Histories
<1>3. Elsewhere(q)
  BY <1>1, <1>2, ElsewhereKept DEF NoAsk
<1>4. \A p \in Analyses : analysis[p].status # "none" => analysis'[p].status # "none"
  <2>1. CASE UNCHANGED analysis
    BY <2>1
  <2>2. CASE ~UNCHANGED analysis
    <3>1. PICK r \in Analyses, kind \in {"check", "sorts", "resorts"}, fs \in SUBSET Files :
            analysis' = [analysis EXCEPT ![r] = CheckOf(ask[q].task, kind, fs)]
      BY <2>2, QueueFacts
    <3>. QED
      BY <3>1, NewFacts
  <2>. QED
    BY <2>1, <2>2
<1>. QED
  BY <1>1, <1>2, <1>3, <1>4, NoAskSound, StillOnward DEF Moves, RowsHaveFiles, Stands

LEMMA DropMoves ==
  ASSUME AskTyped, AsksSound, RowsHaveFiles, NEW q \in Askers, Drop(q)
  PROVE  Moves(q)
<1>1. ask[q] \in AskRow /\ AskSound(q) /\ \E f \in Files : ask[q].files = {f}
  BY DEF AskTyped, MatTypeOK, AsksSound, Drop, Shape
<1>2. UNCHANGED disk /\ torn' = torn \ ask[q].files
  BY DEF Drop
<1>3. CASE \A f \in ask[q].files : Stands(f)
  <2>1. Dropped(ask[q].files, {})
    BY <1>3 DEF Drop
  <2>2. \A f \in Files : /\ doc'[f].row = IF f \in ask[q].files THEN "deleted" ELSE doc[f].row
                         /\ doc'[f].of = doc[f].of
    BY <2>1, DroppedFacts
  <2>3. Onward
    <3>1. \A r \in Analyses : analysis'[r].status = analysis[r].status
      BY <2>1, DroppedFacts
    <3>. QED
      BY <3>1, <2>2 DEF Onward, RowOnward, Stands
  <2>4. RowsHaveFiles'
    BY <1>2, <2>2 DEF RowsHaveFiles, Stands
  <2>5. CASE Ends(q)
    <3>1. ask'[q] = NoAsk /\ \A p \in Askers \ {q} : ask'[p] = ask[p]
      BY <2>5, EndsFacts
    <3>2. Elsewhere(q)
      <4>1. \A f \in Files : doc[f].row = "none" => f \notin ask[q].files
        BY <1>3 DEF Stands
      <4>. QED
        BY <3>1, <4>1, <1>2, <2>2, ElsewhereKept DEF NoAsk
    <3>. QED
      BY <2>3, <2>4, <3>1, <3>2, NoAskSound DEF Moves
  <2>6. CASE ~Ends(q)
    <3>1. PICK pc \in {"erasing", "queueing"} :
            ask' = [ask EXCEPT ![q] = [ask[q] EXCEPT !.files = {}, !.pc = pc]]
      <4>. DEFINE pc == IF ActiveOf(ask[q].task) \ ask[q].files = {} THEN "erasing" ELSE "queueing"
      <4>1. pc \in {"erasing", "queueing"} /\ Becomes(q, [ask[q] EXCEPT !.files = {}, !.pc = pc])
        BY <1>3, <2>6 DEF Drop
      <4>. HIDE DEF pc
      <4>. QED
        BY <4>1 DEF Becomes
    <3>2. ask[q].op = "delete"
      BY <2>6, <1>3 DEF Drop, AskTyped, Shape
    <3>3. /\ ask'[q].pc = pc /\ ask'[q].op = ask[q].op /\ ask'[q].file = ask[q].file
          /\ ask'[q].files = {} /\ ask'[q].checks = ask[q].checks
          /\ \A p \in Askers \ {q} : ask'[p] = ask[p]
      BY <3>1, <1>1 DEF AskTyped, MatTypeOK, AskRow
    <3>4. Elsewhere(q)
      <4>1. \A f \in Files : doc[f].row = "none" => f \notin ask[q].files
        BY <1>3 DEF Stands
      <4>. QED
        BY <3>3, <4>1, <1>2, <2>2, ElsewhereKept
    <3>5. ask[q].checks \subseteq Analyses
      BY <1>1 DEF AskRow
    <3>6. AskSound(q)'
      BY <1>1, <2>3, <3>2, <3>3, <3>5 DEF AskSound, Onward, Batches
    <3>. QED
      BY <2>3, <2>4, <3>4, <3>6 DEF Moves
  <2>. QED
    BY <2>5, <2>6
<1>4. CASE ~ \A f \in ask[q].files : Stands(f)
  <2>1. Ends(q) /\ UNCHANGED <<doc, analysis>>
    BY <1>4 DEF Drop
  <2>2. ask'[q] = NoAsk /\ \A p \in Askers \ {q} : ask'[p] = ask[p]
    BY <2>1, EndsFacts
  <2>3. Elsewhere(q)
    BY <1>2, <2>1, <2>2, ElsewhereKept DEF NoAsk
  <2>4. RowsHaveFiles'
    BY <1>1, <1>2, <1>4, <2>1 DEF RowsHaveFiles, Stands
  <2>. QED
    BY <2>1, <2>2, <2>3, <2>4, NoAskSound, StillOnward DEF Moves
<1>. QED
  BY <1>3, <1>4

LEMMA UnlinkCleanMoves ==
  ASSUME AskTyped, AsksSound, RowsHaveFiles, NEW q \in Askers, Unlink(q) \/ Clean(q) \/ Die(q)
  PROVE  Moves(q)
<1>1. AskSound(q) /\ ask[q] \in AskRow
  BY DEF AsksSound, AskTyped, MatTypeOK
<1>2. UNCHANGED <<doc, analysis>> /\ Onward
  BY StillOnward DEF Unlink, Clean, Die, Histories
<1>3. /\ \A p \in Askers \ {q} : ask'[p] = ask[p]
      /\ \/ ask'[q] = NoAsk
         \/ /\ ask'[q].pc \in {"dropping", "rebuilding"} /\ ask'[q].op = ask[q].op /\ ask'[q].file = ask[q].file
            /\ ask'[q].files = ask[q].files /\ ask'[q].checks = ask[q].checks
  BY GoesFacts, EndsFacts DEF Unlink, Clean, Die
<1>4. \A f \in ask[q].files : doc[f].row # "none"
  BY <1>1 DEF AskSound
<1>5. disk' = disk \/ disk' = disk \ ask[q].files
  BY DEF Unlink, Clean, Die
<1>6. Elsewhere(q)
  BY <1>2, <1>3, <1>4, <1>5, ElsewhereKept DEF NoAsk
<1>7. AskSound(q)'
  <2>1. CASE ask'[q] = NoAsk
    BY <2>1, NoAskSound
  <2>2. CASE ask'[q] # NoAsk
    BY <1>1, <1>2, <1>3, <2>2 DEF AskSound
  <2>. QED
    BY <2>1, <2>2
<1>8. RowsHaveFiles'
  <2>1. CASE Unlink(q)
    BY <1>2, <2>1 DEF Unlink, RowsHaveFiles, Stands
  <2>2. CASE Clean(q)
    BY <1>1, <1>2, <2>2 DEF Clean, AskSound, RowsHaveFiles, Stands, Histories
  <2>3. CASE Die(q)
    BY <1>2, <2>3 DEF Die, RowsHaveFiles, Stands
  <2>. QED
    BY <2>1, <2>2, <2>3
<1>. QED
  BY <1>2, <1>6, <1>7, <1>8 DEF Moves

\* What a reset deletes.
Erased(q) == {f \in Documents : doc[f].of \in Scope(q)}
Dismissed(q) ==
  {r \in Analyses :
     /\ analysis[r].status \notin {"none", "deleted"}
     /\ \/ ask[q].op = "restart" \/ analysis[r].task \in Scope(q)
        \/ analysis[r].kind \in Sorts /\ analysis[r].files \cap Erased(q) # {}}
LEMMA EraseFacts ==
  ASSUME AskTyped, NEW q \in Askers, Erase(q)
  PROVE  /\ Erased(q) \cap Held = {} /\ Dismissed(q) \cap HeldChecks = {}
         /\ disk' = disk \ Erased(q) /\ torn' = torn \cup Erased(q)
         /\ ask'[q].pc = "committing" /\ ask'[q].files = Erased(q) /\ ask'[q].checks = Dismissed(q)
         /\ ask'[q].op = ask[q].op /\ ask'[q].file = ask[q].file /\ ask'[q].task = ask[q].task
         /\ ask'[q].seen = ask[q].seen
         /\ \A p \in Askers \ {q} : ask'[p] = ask[p]
<1>. DEFINE fs == Erased(q)
            rs == Dismissed(q)
<1>1. /\ fs \cap Held = {} /\ rs \cap HeldChecks = {} /\ disk' = disk \ fs /\ torn' = torn \cup fs
      /\ ask' = [ask EXCEPT ![q] = [ask[q] EXCEPT !.files = fs, !.checks = rs, !.pc = "committing"]]
  BY DEF Erase, Erased, Dismissed, Becomes, Sorts
<1>. HIDE DEF fs, rs
<1>2. ask[q] \in AskRow /\ ask \in [Askers -> AskRow]
  BY DEF AskTyped, MatTypeOK
<1>3. /\ ask'[q].pc = "committing" /\ ask'[q].files = fs /\ ask'[q].checks = rs
      /\ ask'[q].op = ask[q].op /\ ask'[q].file = ask[q].file /\ ask'[q].task = ask[q].task
      /\ ask'[q].seen = ask[q].seen
      /\ \A p \in Askers \ {q} : ask'[p] = ask[p]
  BY <1>1, <1>2 DEF AskRow
<1>. QED
  BY <1>1, <1>3 DEF fs, rs

LEMMA EraseMoves ==
  ASSUME AskTyped, AsksSound, RowsHaveFiles, NEW q \in Askers, Erase(q)
  PROVE  Moves(q)
<1>1. UNCHANGED <<doc, analysis>> /\ Onward
  BY StillOnward DEF Erase
<1>2. \A f \in Erased(q) : f \in Files /\ doc[f].row # "none"
  BY DEF Erased, Documents, Stands
<1>3. Elsewhere(q)
  BY <1>1, <1>2, EraseFacts, ElsewhereKept
<1>4. AskSound(q)'
  BY <1>1, <1>2, EraseFacts DEF AskSound, Dismissed
<1>5. RowsHaveFiles'
  BY <1>1, EraseFacts DEF RowsHaveFiles, Stands
<1>. QED
  BY <1>1, <1>3, <1>4, <1>5 DEF Moves

LEMMA CommitMoves ==
  ASSUME AskTyped, AsksSound, RowsHaveFiles, NEW q \in Askers, Commit(q)
  PROVE  Moves(q)
<1>1. ask[q] \in AskRow /\ AskSound(q)
  BY DEF AskTyped, MatTypeOK, AsksSound
<1>2. /\ Dropped(ask[q].files, ask[q].checks) /\ UNCHANGED disk /\ torn' = torn \ ask[q].files
      /\ ask'[q] = NoAsk /\ \A p \in Askers \ {q} : ask'[p] = ask[p]
  BY EndsFacts DEF Commit
<1>3. \A f \in Files : /\ doc'[f].row = IF f \in ask[q].files THEN "deleted" ELSE doc[f].row
                       /\ doc'[f].of = doc[f].of
  BY <1>2, DroppedFacts
<1>4. \A r \in Analyses : analysis[r].status # "none" => analysis'[r].status # "none"
  BY <1>2, DroppedFacts
<1>5. Onward
  BY <1>3, <1>4 DEF Onward, RowOnward, Stands
<1>6. Elsewhere(q)
  <2>1. \A f \in ask[q].files : doc[f].row # "none"
    BY <1>1 DEF AskSound
  <2>. QED
    BY <1>2, <1>3, <2>1, ElsewhereKept DEF NoAsk
<1>7. RowsHaveFiles'
  BY <1>2, <1>3 DEF RowsHaveFiles, Stands
<1>. QED
  BY <1>2, <1>5, <1>6, <1>7, NoAskSound DEF Moves

\* A request whose rows are gone.
LEMMA FailsCases ==
  ASSUME AskTyped, NEW p \in Askers, NEW q \in Askers \ {p}
  PROVE  \/ Fails(p, q) = ask[p] /\ ~Records(p) /\ ask[p].pc \notin {"saving", "recording", "queueing",
                                          "unlinking", "dropping", "erasing", "committing"}
         \/ Fails(p, q) = NoAsk
         \/ /\ ask[p].pc \in {"unlinking", "dropping"} /\ Fails(p, q).pc = ask[p].pc
            /\ Fails(p, q).op = "detach" /\ Fails(p, q).task = "none" /\ Fails(p, q).file = ask[p].file
            /\ Fails(p, q).files = ask[p].files /\ Fails(p, q).checks = ask[p].checks
<1>1. ask[p] \in AskRow /\ Shape(ask[p])
  BY DEF AskTyped, MatTypeOK
<1>2. CASE ask[p].op \in {"clear", "discard", "wipe", "remove"} \/ ask[p].pc = "idle"
  BY <1>1, <1>2 DEF Fails, Shape, Records, Storing, Batches
<1>3. CASE ask[p].op \notin {"clear", "discard", "wipe", "remove"} /\ ask[p].pc \in {"unlinking", "dropping"}
  BY <1>1, <1>3 DEF Fails, AskRow
<1>4. CASE ask[p].op \notin {"clear", "discard", "wipe", "remove"} /\ ask[p].pc \notin {"idle", "unlinking", "dropping"}
  BY <1>4 DEF Fails
<1>. QED
  BY <1>2, <1>3, <1>4

LEMMA FailsSound ==
  ASSUME AskTyped, NEW p \in Askers, NEW q \in Askers \ {p}, AskSound(p), Onward, ask'[p] = Fails(p, q)
  PROVE  AskSound(p)'
<1>1. CASE Fails(p, q) = ask[p] /\ ~Records(p)
  BY <1>1, AskKept DEF AskUnmoved
<1>2. CASE Fails(p, q) = NoAsk
  BY <1>2, NoAskSound
<1>3. CASE /\ ask[p].pc \in {"unlinking", "dropping"} /\ Fails(p, q).pc = ask[p].pc
           /\ Fails(p, q).files = ask[p].files /\ Fails(p, q).checks = ask[p].checks
  <2>1. ask[p].files \subseteq Files /\ ask[p].checks \subseteq Analyses
    BY DEF AskTyped, MatTypeOK, AskRow
  <2>. QED
    BY <1>3, <2>1 DEF AskSound, Onward, RowOnward
<1>. QED
  BY <1>1, <1>2, <1>3, FailsCases

LEMMA PurgeSound ==
  ASSUME AskTyped, AsksSound, RowsHaveFiles, NEW q \in Askers, Purge(q)
  PROVE  Onward /\ AsksSound' /\ RowsHaveFiles'
<1>1. ask[q] \in AskRow /\ AskSound(q) /\ ask[q].pc = "purging"
      /\ ask[q].op \in {"clear", "remove", "wipe", "discard"}
  BY DEF AskTyped, MatTypeOK, AsksSound, Purge, Shape
<1>2. PICK rs \in SUBSET Analyses : Dropped(Doomed(q), rs) /\ \A r \in rs : analysis[r].status # "none"
  BY DEF Purge
<1>3. \A f \in Files : /\ doc'[f].row = IF f \in Doomed(q) THEN "deleted" ELSE doc[f].row
                       /\ doc'[f].of = doc[f].of
  BY <1>2, DroppedFacts
<1>4. \A r \in Analyses : analysis[r].status # "none" => analysis'[r].status # "none"
  BY <1>2, DroppedFacts
<1>5. \A f \in Doomed(q) : f \in Files /\ Stands(f)
  BY <1>1 DEF Doomed, Documents, Attachments, AskRow
<1>6. Onward
  BY <1>3, <1>4, <1>5 DEF Onward, RowOnward, Stands
<1>7. UNCHANGED <<disk, torn>>
  BY DEF Purge
<1>8. RowsHaveFiles'
  BY <1>3, <1>7 DEF RowsHaveFiles, Stands
<1>9. AskSound(q)' /\ ask'[q].file = ask[q].file
  <2>1. /\ ask'[q].pc = "cleaning" /\ ask'[q].files = ask[q].files /\ ask'[q].checks = ask[q].checks
        /\ ask'[q].file = ask[q].file
    <3>1. CASE ask[q].op = "remove"
      <4>1. ask'[q] = [ask[q] EXCEPT !.pc = "cleaning"]
        BY <3>1 DEF Purge, Fails
      <4>. QED
        BY <1>1, <4>1 DEF AskRow
    <3>2. CASE ask[q].op # "remove"
      BY <3>2, GoesFacts DEF Purge
    <3>. QED
      BY <3>1, <3>2
  <2>2. ask[q].files \subseteq Files /\ ask[q].checks \subseteq Analyses
    BY <1>1 DEF AskRow
  <2>3. \A f \in ask[q].files : Stands(f) => f \in Doomed(q)
    BY <1>1, <2>2 DEF AskSound, Doomed, Documents, Attachments
  <2>4. \A f \in ask[q].files : ~Stands(f)'
    BY <1>3, <2>2, <2>3 DEF Stands
  <2>. QED
    BY <1>1, <1>6, <2>1, <2>2, <2>4 DEF AskSound, Onward, RowOnward
<1>10. CASE ask[q].op = "remove"
  <2>1. ASSUME NEW p \in Askers \ {q} PROVE AskSound(p)'
    <3>1. ask'[p] = Fails(p, q)
      BY <1>10 DEF Purge
    <3>. QED
      BY <3>1, <1>6, FailsSound DEF AsksSound
  <2>. QED
    BY <1>6, <1>8, <1>9, <2>1 DEF AsksSound
<1>11. CASE ask[q].op # "remove"
  <2>1. \A p \in Askers \ {q} : ask'[p] = ask[p]
    BY <1>11, GoesFacts DEF Purge
  <2>2. \A f \in Files : doc[f].row = "none" => doc'[f].row = "none"
    BY <1>3, <1>5 DEF Stands
  <2>3. Elsewhere(q)
    BY <1>7, <1>9, <2>1, <2>2, ElsewhereKept
  <2>. QED
    BY <1>6, <1>8, <1>9, <2>3, AsksStep
<1>. QED
  BY <1>10, <1>11

LEMMA RebuildSound ==
  ASSUME AskTyped, AsksSound, RowsHaveFiles, NEW q \in Askers, Rebuild(q)
  PROVE  Onward /\ AsksSound' /\ RowsHaveFiles'
<1>1. \A f \in Files : /\ doc'[f].row = doc[f].row
                       /\ doc'[f].of = IF doc[f].of \in Reviews THEN "unsorted" ELSE doc[f].of
  BY DEF Rebuild, AskTyped, MatTypeOK, FileRow
<1>2. UNCHANGED <<disk, torn>>
  BY DEF Rebuild
<1>3. RowsHaveFiles'
  BY <1>1, <1>2 DEF RowsHaveFiles, Stands
<1>4. \A r \in Analyses : analysis[r].status # "none" => analysis'[r].status # "none"
  BY DEF Rebuild, NoCheck
<1>5. Onward
  BY <1>1, <1>4 DEF Onward, RowOnward, Stands
<1>6. \A p \in Askers : IF p = q THEN ask'[p] = NoAsk
                        ELSE IF ask[p].op = "attach" THEN ask'[p] = ask[p] ELSE ask'[p] = Fails(p, q)
  BY DEF Rebuild
<1>7. \A p \in Askers : ask'[p].file \in {ask[p].file, 0}
  <2>1. NoAsk.file = 0
    BY DEF NoAsk
  <2>. QED
    BY <1>6, <2>1, FailsCases
<1>8. ASSUME NEW p \in Askers PROVE AskSound(p)'
  <2>1. AskSound(p)
    BY DEF AsksSound
  <2>2. CASE p = q
    BY <1>6, <2>2, NoAskSound
  <2>3. CASE p # q /\ ask[p].op = "attach"
    <3>1. ask'[p] = ask[p]
      BY <1>6, <2>3
    <3>2. AskUnmoved(p)
      <4>1. Records(p) => ask[p].file \in Files
        BY DEF Records, AskTyped, Shape
      <4>. QED
        BY <1>1, <1>2, <1>7, <2>1, <4>1 DEF AskUnmoved, Records, AskSound, Files
    <3>. QED
      BY <1>5, <2>1, <3>1, <3>2, AskKept
  <2>4. CASE p # q /\ ask[p].op # "attach"
    <3>1. ask'[p] = Fails(p, q)
      BY <1>6, <2>4
    <3>. QED
      BY <1>5, <2>1, <2>4, <3>1, FailsSound
  <2>. QED
    BY <2>2, <2>3, <2>4
<1>. QED
  BY <1>3, <1>5, <1>8 DEF AsksSound

\* The worker starts an analysis, and queues the one of a document it has sorted.
LEMMA StartFacts ==
  ASSUME AskTyped, NEW r \in Analyses, Start(r)
  PROVE  /\ analysis'[r].status = "running" /\ analysis'[r].kind = analysis[r].kind
         /\ analysis'[r].task = analysis[r].task /\ analysis'[r].files = analysis[r].files
         /\ analysis'[r].read = {f \in analysis[r].files : doc[f].row = "active"}
         /\ \A p \in Analyses \ {r} : analysis'[p] = analysis[p]
<1>. DEFINE read == {f \in analysis[r].files : doc[f].row = "active"}
<1>1. analysis' = [analysis EXCEPT ![r] = [analysis[r] EXCEPT !.status = "running", !.read = read]]
  BY DEF Start
<1>2. read = {f \in analysis[r].files : doc[f].row = "active"}
  OBVIOUS
<1>. HIDE DEF read
<1>. QED
  BY <1>1, <1>2 DEF AskTyped, MatTypeOK, CheckRow

LEMMA QueueSortedFacts ==
  ASSUME AskTyped, NEW r \in Analyses, QueueSorted(r), analysis' # Closed(r)
  PROVE  \E p \in Analyses \ {r}, kind \in {"check", "retest"} :
           /\ NewCheck(p) /\ (kind = "check" <=> analysis[r].kind = "sorts")
           /\ ActiveOf(analysis[r].task) # {}
           /\ analysis'[r].status = "ended" /\ analysis'[r].kind = analysis[r].kind
           /\ analysis'[r].task = analysis[r].task /\ analysis'[r].files = analysis[r].files
           /\ analysis'[p].status = "queued" /\ analysis'[p].kind = kind
           /\ analysis'[p].task = analysis[r].task /\ analysis'[p].files = ActiveOf(analysis[r].task)
           /\ analysis'[p].read = {}
           /\ \A o \in Analyses \ {r, p} : analysis'[o] = analysis[o]
           /\ review' = IF kind = "check" THEN Verdict(analysis[r].task, "in_progress", {}) ELSE review
           /\ UNCHANGED excused
<1>. DEFINE t == analysis[r].task
<1>1. PICK p \in Analyses, kind \in {"check", "retest"} :
        /\ NewCheck(p) /\ (kind = "check" <=> analysis[r].kind = "sorts")
        /\ ActiveOf(t) # {}
        /\ analysis' = [Closed(r) EXCEPT ![p] = CheckOf(t, kind, ActiveOf(t))]
        /\ review' = IF kind = "check" THEN Verdict(t, "in_progress", {}) ELSE review
        /\ UNCHANGED excused
  <2>. DEFINE kind == IF analysis[r].kind = "sorts" THEN "check" ELSE "retest"
  <2>1. kind \in {"check", "retest"} /\ (kind = "check" <=> analysis[r].kind = "sorts")
    OBVIOUS
  <2>2. \E p \in Analyses :
          /\ NewCheck(p)
          /\ ActiveOf(t) # {}
          /\ analysis' = [Closed(r) EXCEPT ![p] = CheckOf(t, kind, ActiveOf(t))]
          /\ review' = IF kind = "check" THEN Verdict(t, "in_progress", {}) ELSE review
          /\ UNCHANGED excused
    BY DEF QueueSorted
  <2>. HIDE DEF kind, t
  <2>. QED
    BY <2>1, <2>2
<1>2. p # r
  BY <1>1 DEF NewCheck, QueueSorted
<1>3. /\ Closed(r)[r].status = "ended" /\ Closed(r)[r].kind = analysis[r].kind
      /\ Closed(r)[r].task = analysis[r].task /\ Closed(r)[r].files = analysis[r].files
      /\ \A o \in Analyses \ {r} : Closed(r)[o] = analysis[o]
      /\ Closed(r) \in [Analyses -> CheckRow]
  BY ClosedTyped DEF Closed, AskTyped, MatTypeOK, CheckRow
<1>4. /\ analysis'[p] = CheckOf(t, kind, ActiveOf(t))
      /\ \A o \in Analyses \ {p} : analysis'[o] = Closed(r)[o]
  BY <1>1, <1>3
<1>. QED
  BY <1>1, <1>2, <1>3, <1>4 DEF CheckOf

LEMMA ClosingFacts ==
  ASSUME NEW r \in Analyses, Judge(r) \/ CannotTell(r) \/ Raise(r) \/ Stop(r)
  PROVE  /\ analysis' = Closed(r) /\ ActiveCheck(r) /\ r \notin HeldChecks
         /\ UNCHANGED <<disk, doc, ask, asks, torn>>
BY DEF Judge, CannotTell, Raise, Stop, Doing, ActiveCheck, Histories

LEMMA WorkSound ==
  ASSUME AskTyped, AsksSound, RowsHaveFiles, ChecksSound, NEW r \in Analyses, Work(r)
  PROVE  Onward /\ AsksSound' /\ RowsHaveFiles'
<1>1. UNCHANGED <<disk, ask, torn>>
  BY ClosingFacts DEF Work, Start, Sort, QueueSorted, Histories
<1>2. \A p \in Analyses : analysis[p].status # "none" => analysis'[p].status # "none"
  <2>1. CASE Start(r)
    BY <2>1, StartFacts
  <2>2. CASE Judge(r) \/ CannotTell(r) \/ Raise(r) \/ Stop(r)
    <3>1. analysis' = Closed(r)
      BY <2>2, ClosingFacts
    <3>. QED
      BY <3>1, ClosedFacts
  <2>3. CASE Sort(r)
    <3>1. PICK t \in Reviews \cup {"unsorted"}, readable \in BOOLEAN, f \in Files : GivenTo(r, t, readable, f)
      BY <2>3 DEF Sort, AskTyped, MatTypeOK, CheckRow
    <3>. QED
      BY <3>1, GivenFacts
  <2>4. CASE QueueSorted(r)
    <3>1. CASE analysis' = Closed(r)
      BY <3>1, ClosedFacts
    <3>2. CASE analysis' # Closed(r)
      BY <2>4, <3>2, QueueSortedFacts
    <3>. QED
      BY <3>1, <3>2
  <2>. QED
    BY <2>1, <2>2, <2>3, <2>4 DEF Work
<1>3. /\ \A f \in Files : RowOnward(f) /\ (doc'[f].row = "none" <=> doc[f].row = "none")
      /\ \A f \in Files : Stands(f)' <=> Stands(f)
  <2>1. CASE Sort(r)
    <3>1. PICK t \in Reviews \cup {"unsorted"}, readable \in BOOLEAN, f \in analysis[r].read :
            GivenTo(r, t, readable, f)
      BY <2>1 DEF Sort
    <3>2. f \in Files
      BY DEF AskTyped, MatTypeOK, CheckRow
    <3>3. \A g \in Files :
            /\ doc'[g].row = IF g \in Older(analysis[r].kind, t, f) THEN "replaced" ELSE doc[g].row
            /\ doc'[g].of = IF t \in Reviews /\ g = f THEN t ELSE doc[g].of
      BY <3>1, <3>2, SortedFacts DEF GivenTo
    <3>4. doc[f].of \notin {"finding", "answer"}
      BY <2>1 DEF ChecksSound, RowSound, Sort, Doing, ActiveCheck, Sorts
    <3>5. \A g \in Files : Stands(g)' <=> Stands(g)
      BY <3>3 DEF Stands, ActiveOf, Older
    <3>. QED
      BY <3>3, <3>4, <3>5 DEF RowOnward, ActiveOf, Older, MaterialAssumption
  <2>2. CASE UNCHANGED doc
    BY <2>2 DEF RowOnward, Stands
  <2>. QED
    BY <2>1, <2>2, ClosingFacts DEF Work, Start, QueueSorted
<1>4. Onward
  BY <1>2, <1>3 DEF Onward
<1>5. AsksSound'
  <2>1. \A q \in Askers : Records(q) => doc'[ask[q].file].row = "none" /\ ask[q].file \in disk'
    BY <1>1, <1>3 DEF AsksSound, AskSound, Records, AskTyped, Shape
  <2>. QED
    BY <1>1, <1>4, <2>1, AsksStill
<1>6. RowsHaveFiles'
  BY <1>1, <1>3 DEF RowsHaveFiles
<1>. QED
  BY <1>4, <1>5, <1>6

\* No step takes the file from a row, nor gives a row to what a request will remove.
LEMMA FilesNext ==
  ASSUME AskTyped, AsksSound, RowsHaveFiles, ChecksSound, [MatNext]_matVars
  PROVE  Onward /\ AsksSound' /\ RowsHaveFiles'
<1>1. CASE UNCHANGED matVars
  <2>1. Onward
    BY <1>1, StillOnward DEF matVars
  <2>2. AsksSound'
    <3>1. \A q \in Askers : Records(q) => doc'[ask[q].file].row = "none" /\ ask[q].file \in disk'
      BY <1>1 DEF matVars, AsksSound, AskSound, Records
    <3>. QED
      BY <1>1, <2>1, <3>1, AsksStill DEF matVars
  <2>. QED
    BY <1>1, <2>1, <2>2 DEF matVars, RowsHaveFiles, Stands
<1>2. ASSUME NEW q \in Askers, Moves(q) PROVE Onward /\ AsksSound' /\ RowsHaveFiles'
  BY <1>2, AsksStep DEF Moves
<1>3. ASSUME NEW q \in Askers, Request(q) \/ Serve(q) \/ Die(q) PROVE Onward /\ AsksSound' /\ RowsHaveFiles'
  <2>1. CASE Purge(q) \/ Rebuild(q)
    BY <2>1, PurgeSound, RebuildSound
  <2>2. CASE ~(Purge(q) \/ Rebuild(q))
    <3>1. Moves(q)
      BY <1>3, <2>2, BeginMoves, SaveMoves, RecordMoves, RetestMoves, QueueMoves, DropMoves,
         UnlinkCleanMoves, EraseMoves, CommitMoves DEF Serve
    <3>. QED
      BY <3>1, <1>2
  <2>. QED
    BY <2>1, <2>2
<1>4. ASSUME NEW r \in Analyses, Work(r) PROVE Onward /\ AsksSound' /\ RowsHaveFiles'
  BY <1>4, WorkSound
<1>. QED
  BY <1>1, <1>3, <1>4 DEF MatNext

-----------------------------------------------------------------------------
(* Analyses are created and processed in order, and one that sorts has one  *)
(* document.                                                                *)

\* No analysis is created, queued or started; one is queued.
LEMMA OrderKept ==
  ASSUME \A r \in Analyses : CheckInOrder(r),
         \A r \in Analyses : /\ analysis'[r].status = "none" <=> analysis[r].status = "none"
                             /\ Busy(r)' => Busy(r)
                             /\ analysis'[r].status = "queued" => analysis[r].status = "queued"
  PROVE  \A r \in Analyses : CheckInOrder(r)'
BY DEF CheckInOrder

LEMMA OrderNew ==
  ASSUME \A r \in Analyses : CheckInOrder(r), NEW n \in Analyses, NewCheck(n), analysis'[n].status = "queued",
         \A r \in Analyses \ {n} : /\ analysis'[r].status = "none" <=> analysis[r].status = "none"
                                   /\ Busy(r)' => Busy(r)
                                   /\ analysis'[r].status = "queued" => analysis[r].status = "queued"
  PROVE  \A r \in Analyses : CheckInOrder(r)'
<1>. SUFFICES ASSUME NEW r \in Analyses PROVE CheckInOrder(r)'
  OBVIOUS
<1>1. \A p \in Analyses : p < n => analysis[p].status # "none"
  BY DEF NewCheck, Analyses
<1>2. \A p \in Analyses : p >= n => analysis[p].status = "none"
  <2>1. \A p \in Analyses : p = n \/ p > n => analysis[p].status = "none"
    BY DEF NewCheck, CheckInOrder
  <2>. QED
    BY <2>1 DEF Analyses
<1>3. analysis'[r].status = "none" => \A p \in Analyses : p > r => analysis'[p].status = "none"
  BY <1>1, <1>2 DEF Analyses
<1>4. ASSUME Busy(r)', NEW p \in Analyses
      PROVE  (Busy(p)' => p = r) /\ (analysis'[p].status = "queued" => p > r)
  <2>1. r # n /\ ~Busy(n)'
    BY <1>4 DEF Busy
  <2>2. Busy(r)
    BY <1>4, <2>1
  <2>3. analysis[r].status # "none" /\ r < n
    BY <1>2, <2>2 DEF Busy, Analyses
  <2>. QED
    BY <2>1, <2>2, <2>3 DEF CheckInOrder, Analyses
<1>. QED
  BY <1>3, <1>4 DEF CheckInOrder

\* A row that is closed, or that keeps what it had.
LEMMA RowEnds ==
  ASSUME AskTyped, Onward, NEW r \in Analyses, RowSound(r), ~ActiveCheck(r)',
         analysis'[r].files \subseteq analysis[r].files
  PROVE  RowSound(r)'
<1>1. \A f \in analysis'[r].files : doc'[f].row # "none"
  BY DEF RowSound, Onward, RowOnward, AskTyped, MatTypeOK, CheckRow
<1>. QED
  BY <1>1 DEF RowSound, ActiveCheck

LEMMA RowKept ==
  ASSUME AskTyped, Onward, NEW r \in Analyses, RowSound(r),
         analysis'[r].status = analysis[r].status, analysis'[r].kind = analysis[r].kind,
         analysis'[r].task = analysis[r].task, analysis'[r].read = analysis[r].read,
         analysis'[r].files \subseteq analysis[r].files,
         \A f \in Files : doc[f].row # "none" => doc'[f].of = doc[f].of
  PROVE  RowSound(r)'
<1>1. analysis[r].files \cup analysis[r].read \subseteq Files
  BY DEF AskTyped, MatTypeOK, CheckRow
<1>2. ASSUME ActiveCheck(r)', analysis'[r].kind \in Sorts
      PROVE  /\ \A f, g \in analysis'[r].files \cup analysis'[r].read : f = g
             /\ \A f \in analysis'[r].files \cup analysis'[r].read :
                  doc'[f].row # "none" /\ doc'[f].of \notin {"finding", "answer"}
             /\ analysis'[r].status = "sorting" /\ analysis'[r].task # "none" =>
                  \A f \in analysis'[r].files : doc'[f].of = analysis'[r].task
  <2>1. ActiveCheck(r) /\ analysis[r].kind \in Sorts
    BY <1>2 DEF ActiveCheck
  <2>2. \A f \in analysis[r].files \cup analysis[r].read :
          /\ f \in Files /\ doc[f].row # "none" /\ doc[f].of \notin {"finding", "answer"}
          /\ doc'[f].row # "none" /\ doc'[f].of = doc[f].of
    BY <1>1, <2>1 DEF RowSound, Onward, RowOnward
  <2>. QED
    BY <2>1, <2>2 DEF RowSound
<1>3. \A f \in analysis'[r].files : doc'[f].row # "none"
  BY <1>1 DEF RowSound, Onward, RowOnward
<1>. QED
  BY <1>2, <1>3 DEF RowSound

\* No analysis is created, and none goes on.
LEMMA ChecksKept ==
  ASSUME AskTyped, Onward, ChecksSound,
         \A f \in Files : doc[f].row # "none" => doc'[f].of = doc[f].of,
         \A r \in Analyses :
           \/ /\ analysis'[r].status = analysis[r].status /\ analysis'[r].kind = analysis[r].kind
              /\ analysis'[r].task = analysis[r].task /\ analysis'[r].read = analysis[r].read
              /\ analysis'[r].files \subseteq analysis[r].files
           \/ /\ ~ActiveCheck(r)' /\ (analysis'[r].status = "none" <=> analysis[r].status = "none")
              /\ analysis'[r].files \subseteq analysis[r].files
  PROVE  ChecksSound'
<1>1. ASSUME NEW r \in Analyses PROVE RowSound(r)'
  BY RowKept, RowEnds DEF ChecksSound
<1>2. \A r \in Analyses : CheckInOrder(r)'
  BY OrderKept DEF ChecksSound, Busy, ActiveCheck
<1>. QED
  BY <1>1, <1>2 DEF ChecksSound

\* An analysis is created, and another may end.
LEMMA ChecksNew ==
  ASSUME AskTyped, Onward, ChecksSound, NEW n \in Analyses, NewCheck(n), analysis'[n].status = "queued", RowSound(n)',
         \A f \in Files : doc[f].row # "none" => doc'[f].of = doc[f].of,
         \A r \in Analyses \ {n} :
           \/ analysis'[r] = analysis[r]
           \/ /\ ~ActiveCheck(r)' /\ (analysis'[r].status = "none" <=> analysis[r].status = "none")
              /\ analysis'[r].files \subseteq analysis[r].files
  PROVE  ChecksSound'
<1>1. ASSUME NEW r \in Analyses \ {n} PROVE RowSound(r)'
  BY RowKept, RowEnds DEF ChecksSound
<1>2. \A r \in Analyses : CheckInOrder(r)'
  BY OrderNew DEF ChecksSound, Busy, ActiveCheck
<1>. QED
  BY <1>1, <1>2 DEF ChecksSound

LEMMA SortsRequests ==
  ASSUME AskTyped, AsksSound, ChecksSound, Onward, NEW q \in Askers, Request(q) \/ Serve(q) \/ Die(q)
  PROVE  ChecksSound'
<1>1. CASE BeginWipe(q)
  <2>1. ASSUME NEW r \in Analyses
        PROVE  analysis'[r] = analysis[r] \/ (analysis'[r].status = "ended" /\ ActiveCheck(r))
    <3>1. analysis[r] \in CheckRow
      BY DEF AskTyped, MatTypeOK
    <3>2. analysis'[r] = IF ActiveCheck(r) THEN [analysis[r] EXCEPT !.status = "ended"] ELSE analysis[r]
      BY <1>1 DEF BeginWipe
    <3>. QED
      BY <3>1, <3>2 DEF CheckRow
  <2>. QED
    BY <1>1, <2>1, ChecksKept DEF BeginWipe, ActiveCheck
<1>2. CASE UNCHANGED analysis /\ \A f \in Files : doc[f].row # "none" => doc'[f].of = doc[f].of
  BY <1>2, ChecksKept
<1>3. CASE Request(q) /\ ~BeginWipe(q)
  BY <1>2, <1>3, RequestFacts DEF Beginning
<1>4. CASE Save(q)
  <2>1. UNCHANGED analysis
    BY <1>4 DEF Save
  <2>2. \A f \in Files : doc'[f].of = doc[f].of
    <3>1. PICK c \in Contents, g \in Files : Stored(q, c, g)
      BY <1>4 DEF Save
    <3>2. UNCHANGED doc \/ doc' = [doc EXCEPT ![g] = [@ EXCEPT !.content = c]]
      BY <3>1 DEF Stored
    <3>. QED
      BY <3>2 DEF AskTyped, MatTypeOK, FileRow
  <2>. QED
    BY <1>2, <2>1, <2>2
<1>5. CASE Record(q) \/ RecordAttachment(q)
  <2>1. PICK of : doc' = Recorded(q, of)
    BY <1>5 DEF Record, RecordAttachment
  <2>2. ask[q].file \in Files /\ doc[ask[q].file].row = "none"
    BY <1>5 DEF Record, RecordAttachment, AsksSound, AskSound, AskTyped, Shape
  <2>3. \A f \in Files : doc[f].row # "none" => doc'[f].of = doc[f].of
    BY <2>1, <2>2, RecordedFacts
  <2>. QED
    BY <1>2, <1>5, <2>3 DEF Record, RecordAttachment
<1>6. CASE RecordRetest(q)
  <2>1. PICK t \in Reviews : t = ask[q].task
    BY <1>6 DEF AskTyped, Shape, RecordRetest
  <2>2. PICK n \in Analyses : NewCheck(n) /\ analysis' = [analysis EXCEPT ![n] = CheckOf(t, "retest", ActiveOf(t)')]
    BY <1>6, <2>1, RetestFacts
  <2>3. \A f \in Files : doc[f].row # "none" => doc'[f].of = doc[f].of
    BY <1>6, <2>1, RetestFacts
  <2>4. PICK fs : fs = ActiveOf(t)' /\ analysis' = [analysis EXCEPT ![n] = CheckOf(t, "retest", fs)]
    BY <2>2
  <2>5. /\ analysis'[n].status = "queued" /\ analysis'[n].kind = "retest" /\ analysis'[n].task = t
        /\ analysis'[n].files = ActiveOf(t)'
        /\ \A p \in Analyses \ {n} : analysis'[p] = analysis[p]
    BY <2>4 DEF AskTyped, MatTypeOK, CheckOf
  <2>6. RowSound(n)'
    BY <2>5 DEF RowSound, Sorts, ActiveOf
  <2>. QED
    BY <2>2, <2>3, <2>5, <2>6, ChecksNew
<1>7. CASE Queue(q)
  <2>1. CASE UNCHANGED analysis
    BY <1>2, <1>7, <2>1 DEF Queue
  <2>2. CASE ~UNCHANGED analysis
    <3>1. PICK n \in Analyses, kind \in {"check", "sorts", "resorts"}, fs \in SUBSET Files :
            /\ NewCheck(n) /\ analysis' = [analysis EXCEPT ![n] = CheckOf(ask[q].task, kind, fs)]
            /\ IF ask[q].op \in Batches THEN kind \in Sorts /\ fs = {ask[q].file}
               ELSE kind = "check" /\ fs = ActiveOf(ask[q].task)
      BY <1>7, <2>2, QueueFacts
    <3>2. PICK t \in Reviews \cup {"none"} : t = ask[q].task
      BY DEF AskTyped, MatTypeOK, AskRow
    <3>3. /\ analysis'[n].status = "queued" /\ analysis'[n].kind = kind /\ analysis'[n].task = t
          /\ analysis'[n].files = fs /\ analysis'[n].read = {}
          /\ \A p \in Analyses \ {n} : analysis'[p] = analysis[p]
      <4>1. analysis' = [analysis EXCEPT ![n] = CheckOf(t, kind, fs)]
        BY <3>1, <3>2
      <4>. QED
        BY <4>1 DEF AskTyped, MatTypeOK, CheckOf
    <3>4. UNCHANGED doc /\ ask[q].pc = "queueing"
      BY <1>7 DEF Queue
    <3>5. CASE ask[q].op \in Batches
      <4>1. t = "none" /\ kind \in Sorts
        BY <3>1, <3>2, <3>4, <3>5 DEF AskTyped, Shape
      <4>. QED
        BY <3>1, <3>3, <3>4, <3>5, <4>1, ChecksNew DEF RowSound, AsksSound, AskSound
    <3>6. CASE ask[q].op \notin Batches
      <4>1. t \in Reviews /\ kind = "check" /\ \A f \in fs : doc[f].row # "none"
        BY <3>1, <3>2, <3>4, <3>6 DEF AskTyped, Shape, ActiveOf
      <4>. QED
        BY <3>1, <3>3, <3>4, <4>1, ChecksNew DEF RowSound, Sorts
    <3>. QED
      BY <3>5, <3>6
  <2>. QED
    BY <2>1, <2>2

<1>8. CASE Drop(q)
  <2>1. CASE Dropped(ask[q].files, {})
    <3>1. /\ \A f \in Files : doc'[f].of = doc[f].of
          /\ \A r \in Analyses :
               /\ analysis'[r].status = analysis[r].status /\ analysis'[r].kind = analysis[r].kind
               /\ analysis'[r].task = analysis[r].task /\ analysis'[r].read = analysis[r].read
               /\ analysis'[r].files \subseteq analysis[r].files
      BY <2>1, DroppedFacts
    <3>. QED
      BY <3>1, ChecksKept
  <2>2. CASE UNCHANGED <<doc, analysis>>
    BY <1>2, <2>2
  <2>. QED
    BY <1>8, <2>1, <2>2 DEF Drop
<1>9. CASE Commit(q) \/ Purge(q)
  <2>1. PICK fs \in SUBSET Files, rs \in SUBSET Analyses :
          Dropped(fs, rs) /\ \A r \in rs : analysis[r].status # "none"
    <3>1. CASE Commit(q)
      BY <3>1 DEF Commit, AskTyped, MatTypeOK, AskRow, AsksSound, AskSound
    <3>2. CASE Purge(q)
      <4>1. Doomed(q) \in SUBSET Files
        BY <3>2, FilesTyped DEF Doomed, Purge, AskTyped, Shape, MatTypeOK, AskRow
      <4>. QED
        BY <3>2, <4>1 DEF Purge
    <3>. QED
      BY <1>9, <3>1, <3>2
  <2>2. \A f \in Files : doc'[f].of = doc[f].of
    BY <2>1, DroppedFacts
  <2>3. \A r \in Analyses :
          IF r \in rs THEN analysis'[r].status = "deleted" /\ analysis'[r].files = {}
          ELSE /\ analysis'[r].status = analysis[r].status /\ analysis'[r].kind = analysis[r].kind
               /\ analysis'[r].task = analysis[r].task /\ analysis'[r].read = analysis[r].read
               /\ analysis'[r].files \subseteq analysis[r].files
    BY <2>1, DroppedFacts
  <2>. QED
    BY <2>1, <2>2, <2>3, ChecksKept DEF ActiveCheck
<1>10. CASE Rebuild(q)
  <2>1. \A r \in Analyses : ~ActiveCheck(r)' /\ (analysis'[r].status = "none" <=> analysis[r].status = "none")
    BY <1>10 DEF Rebuild, NoCheck, ActiveCheck
  <2>2. \A r \in Analyses : CheckInOrder(r)'
    BY <2>1, OrderKept DEF ChecksSound, Busy, ActiveCheck
  <2>3. \A r \in Analyses : analysis'[r].files \subseteq analysis[r].files
    BY <1>10 DEF Rebuild, NoCheck
  <2>. QED
    BY <2>1, <2>2, <2>3, RowEnds DEF ChecksSound
<1>11. CASE Unlink(q) \/ Clean(q) \/ Die(q) \/ RefuseRetest(q) \/ Erase(q)
  BY <1>2, <1>11 DEF Unlink, Clean, Die, RefuseRetest, Erase
<1>. QED
  BY <1>1, <1>3, <1>4, <1>5, <1>6, <1>7, <1>8, <1>9, <1>10, <1>11 DEF Serve

LEMMA StartOrder ==
  ASSUME AskTyped, ChecksSound, Onward, NEW r \in Analyses, Start(r)
  PROVE  ChecksSound'
<1>1. /\ analysis'[r].status = "running" /\ analysis'[r].kind = analysis[r].kind
      /\ analysis'[r].task = analysis[r].task /\ analysis'[r].files = analysis[r].files
      /\ analysis'[r].read \subseteq analysis[r].files
      /\ \A p \in Analyses \ {r} : analysis'[p] = analysis[p]
  BY StartFacts
<1>2. /\ analysis[r].status = "queued" /\ \A p \in Analyses : ~Busy(p) /\ UNCHANGED doc
      /\ \A p \in Analyses : p < r => analysis[p].status # "queued"
  BY DEF Start, Busy, Analyses
<1>3. ASSUME NEW p \in Analyses PROVE CheckInOrder(p)'
  <2>1. analysis'[p].status = "none" => \A o \in Analyses : o > p => analysis'[o].status = "none"
    <3>1. \A o \in Analyses : analysis'[o].status = "none" <=> analysis[o].status = "none"
      BY <1>1, <1>2
    <3>. QED
      BY <3>1 DEF ChecksSound, CheckInOrder
  <2>2. Busy(p)' => p = r
    BY <1>1, <1>2 DEF Busy
  <2>3. \A o \in Analyses : /\ Busy(o)' => o = r
                            /\ analysis'[o].status = "queued" => o > r
    BY <1>1, <1>2 DEF Busy, Analyses
  <2>4. Busy(p)' => \A o \in Analyses : /\ Busy(o)' => o = p
                                        /\ analysis'[o].status = "queued" => o > p
    BY <2>2, <2>3
  <2>. QED
    BY <2>1, <2>4 DEF CheckInOrder
<1>4. ASSUME NEW p \in Analyses \ {r} PROVE RowSound(p)'
  BY <1>1, <1>2, RowKept DEF ChecksSound
<1>5. RowSound(r)'
  BY <1>1, <1>2 DEF ChecksSound, RowSound, ActiveCheck
<1>. QED
  BY <1>3, <1>4, <1>5 DEF ChecksSound

LEMMA SortOrder ==
  ASSUME AskTyped, ChecksSound, Onward, NEW r \in Analyses, Sort(r)
  PROVE  ChecksSound'
<1>1. PICK t \in Reviews \cup {"unsorted"}, readable \in BOOLEAN, f \in analysis[r].read : GivenTo(r, t, readable, f)
  BY DEF Sort
<1>2. f \in Files /\ analysis[r].files \cup analysis[r].read \subseteq Files
  BY DEF AskTyped, MatTypeOK, CheckRow
<1>3. \A g \in Files :
        /\ doc'[g].row = IF g \in Older(analysis[r].kind, t, f) THEN "replaced" ELSE doc[g].row
        /\ doc'[g].of = IF t \in Reviews /\ g = f THEN t ELSE doc[g].of
  BY <1>1, <1>2, SortedFacts DEF GivenTo
<1>4. /\ analysis'[r].status = "sorting" /\ analysis'[r].kind = analysis[r].kind
      /\ analysis'[r].files = analysis[r].files /\ analysis'[r].read = analysis[r].read
      /\ analysis'[r].task = IF t \in Reviews /\ (readable \/ analysis[r].kind = "resorts") THEN t ELSE "none"
      /\ \A p \in Analyses \ {r} : analysis'[p] = analysis[p]
  BY <1>1, <1>2, GivenFacts
<1>5. analysis[r].status = "running" /\ analysis[r].kind \in Sorts
  BY DEF Sort, Doing, Sorts
<1>6. \A p \in Analyses : CheckInOrder(p)'
  BY <1>4, <1>5, OrderKept DEF ChecksSound, Busy
<1>7. RowSound(r)'
  <2>1. /\ \A g, h \in analysis[r].files \cup analysis[r].read : g = h
        /\ \A g \in analysis[r].files \cup analysis[r].read :
             doc[g].row # "none" /\ doc[g].of \notin {"finding", "answer"}
    BY <1>5 DEF ChecksSound, RowSound, ActiveCheck
  <2>2. \A g \in analysis[r].files \cup analysis[r].read :
          doc'[g].row # "none" /\ doc'[g].of \notin {"finding", "answer"}
    BY <1>2, <2>1 DEF Onward, RowOnward
  <2>3. \A g \in analysis[r].files : g = f
    BY <2>1
  <2>. QED
    BY <1>2, <1>3, <1>4, <1>5, <2>1, <2>2, <2>3 DEF RowSound
<1>8. ASSUME NEW p \in Analyses \ {r} PROVE RowSound(p)'
  <2>1. analysis'[p] = analysis[p] /\ RowSound(p) /\ analysis[p].files \cup analysis[p].read \subseteq Files
    BY <1>4 DEF ChecksSound, AskTyped, MatTypeOK, CheckRow
  <2>2. analysis[p].status # "sorting"
    BY <1>5 DEF ChecksSound, CheckInOrder, Busy
  <2>. QED
    BY <2>1, <2>2 DEF RowSound, Onward, RowOnward, ActiveCheck
<1>. QED
  BY <1>6, <1>7, <1>8 DEF ChecksSound

LEMMA ChecksNext ==
  ASSUME AskTyped, AsksSound, ChecksSound, Onward, [MatNext]_matVars
  PROVE  ChecksSound'
<1>1. CASE UNCHANGED matVars
  BY <1>1, ChecksKept DEF matVars
<1>2. ASSUME NEW q \in Askers, Request(q) \/ Serve(q) \/ Die(q) PROVE ChecksSound'
  BY <1>2, SortsRequests
<1>3. ASSUME NEW r \in Analyses, Work(r) PROVE ChecksSound'
  <2>1. CASE analysis' = Closed(r) /\ UNCHANGED doc
    <3>1. analysis[r].status # "none"
      BY <1>3 DEF Work, Start, Judge, CannotTell, Raise, Sort, QueueSorted, Stop, Doing, ActiveCheck
    <3>. QED
      BY <2>1, <3>1, ClosedFacts, ChecksKept DEF ActiveCheck
  <2>2. CASE QueueSorted(r) /\ analysis' # Closed(r)
    <3>1. PICK p \in Analyses \ {r}, kind \in {"check", "retest"} :
            /\ NewCheck(p) /\ analysis'[r].status = "ended"
            /\ analysis'[p].status = "queued" /\ analysis'[p].kind = kind
            /\ analysis'[p].task = analysis[r].task /\ analysis'[r].files = analysis[r].files
            /\ analysis'[p].files = ActiveOf(analysis[r].task) /\ ActiveOf(analysis[r].task) # {}
            /\ \A o \in Analyses \ {r, p} : analysis'[o] = analysis[o]
      BY <2>2, QueueSortedFacts
    <3>2. UNCHANGED doc /\ analysis[r].status = "sorting"
      BY <2>2 DEF QueueSorted
    <3>3. analysis[r].task # "none"
      BY <3>1 DEF ActiveOf, AskTyped, MatTypeOK, FileRow
    <3>4. RowSound(p)'
      BY <3>1, <3>2, <3>3 DEF RowSound, Sorts, ActiveOf
    <3>. QED
      BY <3>1, <3>2, <3>4, ChecksNew DEF ActiveCheck
  <2>. QED
    BY <1>3, <2>1, <2>2, ClosingFacts, StartOrder, SortOrder DEF Work, QueueSorted
<1>. QED
  BY <1>1, <1>2, <1>3 DEF MatNext

\* Nothing is stored or analysed yet.
LEMMA KnownInit == MatInit => AskTyped /\ AsksSound /\ RowsHaveFiles /\ ChecksSound
<1>. SUFFICES ASSUME MatInit PROVE AskTyped /\ AsksSound /\ RowsHaveFiles /\ ChecksSound
  OBVIOUS
<1>1. AsksSound
  BY DEF MatInit, AsksSound, AskSound, NoAsk
<1>2. RowsHaveFiles
  BY DEF MatInit, RowsHaveFiles, Stands
<1>3. ChecksSound
  BY DEF MatInit, ChecksSound, CheckInOrder, RowSound, ActiveCheck, Busy, NoCheck
<1>. QED
  BY <1>1, <1>2, <1>3, AskTypeInit

Known == AskTyped /\ AsksSound /\ RowsHaveFiles /\ ChecksSound
LEMMA KnownNext == Known /\ [MatNext]_matVars => Known' /\ Onward
BY AskTypeNext, FilesNext, ChecksNext DEF Known

\* Every row that stands has its file on the disk, unless a deletion is between unlinking
\* the file and dropping the row (or ended there): no upload, replacement, reset, clearing
\* or batch that runs beside another takes the file from a row that stays.
THEOREM RowsKeepFiles == MatSpec => []RowsHaveFiles
<1>1. MatInit => Known
  BY KnownInit DEF Known
<1>2. Known /\ [MatNext]_matVars => Known'
  BY KnownNext
<1>3. Known => RowsHaveFiles
  BY DEF Known
<1>. QED
  BY <1>1, <1>2, <1>3, PTL DEF MatSpec

-----------------------------------------------------------------------------
(* Rows that an open transaction has deleted are changed by nobody else.    *)

LEMMA HeldFacts ==
  /\ \A f : f \in Held <=> \E p \in Askers : ask[p].pc = "committing" /\ f \in ask[p].files
  /\ \A r : r \in HeldChecks <=> \E p \in Askers : ask[p].pc = "committing" /\ r \in ask[p].checks
  /\ \A f : f \in Held' <=> \E p \in Askers : ask'[p].pc = "committing" /\ f \in ask'[p].files
  /\ \A r : r \in HeldChecks' <=> \E p \in Askers : ask'[p].pc = "committing" /\ r \in ask'[p].checks
BY DEF Held, HeldChecks

LEMMA HeldThere ==
  ASSUME AskTyped, AsksSound
  PROVE  /\ \A f \in Held : f \in Files /\ doc[f].row # "none"
         /\ \A r \in HeldChecks : r \in Analyses /\ analysis[r].status # "none"
BY HeldFacts DEF AskTyped, MatTypeOK, AskRow, AsksSound, AskSound

HeldStill ==
  /\ \A f \in Held : doc'[f].of = doc[f].of
  /\ \A r \in HeldChecks : ActiveCheck(r)' => ActiveCheck(r) /\ analysis'[r].task = analysis[r].task

\* A transaction stays open, or is opened by Erase.
HolderKept(p) == ask'[p].pc = "committing" => ask'[p] = ask[p] \/ Erase(p)

LEMMA AskHolder ==
  ASSUME NEW q \in Askers, \A p \in Askers \ {q} : ask'[p] = ask[p],
         ask'[q].pc # "committing" \/ Erase(q)
  PROVE  \A p \in Askers : HolderKept(p)
BY DEF HolderKept

LEMMA FailsCommitsNot ==
  ASSUME AskTyped, NEW p \in Askers, NEW q \in Askers
  PROVE  Fails(p, q).pc # "committing"
<1>1. CASE p = q
  BY <1>1 DEF Fails, AskTyped, MatTypeOK, AskRow
<1>2. CASE p # q
  BY <1>2, FailsCases DEF NoAsk
<1>. QED
  BY <1>1, <1>2

\* A file that is stored has no row yet.
LEMMA SaveFacts ==
  ASSUME AskTyped, NEW q \in Askers, Save(q)
  PROVE  /\ \A f \in Files : doc'[f].row = doc[f].row /\ doc'[f].of = doc[f].of
         /\ ask'[q].pc \in {"recording", "queueing"} /\ \A p \in Askers \ {q} : ask'[p] = ask[p]
<1>1. PICK c \in Contents, f \in Files : Stored(q, c, f)
  BY DEF Save
<1>2. UNCHANGED doc \/ doc' = [doc EXCEPT ![f] = [@ EXCEPT !.content = c]]
  BY <1>1 DEF Stored
<1>3. PICK pc \in {"recording", "queueing"} : \E g : Becomes(q, [ask[q] EXCEPT !.file = g, !.pc = pc])
  <2>1. CASE Twins(q, c) = {}
    BY <1>1, <2>1 DEF Stored
  <2>2. CASE Twins(q, c) # {}
    <3>1. PICK twin \in Twins(q, c) :
            Becomes(q, [ask[q] EXCEPT !.file = twin,
                                      !.pc = IF ask[q].op = "retest" THEN "recording" ELSE "queueing"])
      BY <1>1, <2>2 DEF Stored
    <3>. QED
      BY <3>1
  <2>. QED
    BY <2>1, <2>2
<1>4. \A g \in Files : doc'[g].row = doc[g].row /\ doc'[g].of = doc[g].of
  BY <1>2 DEF AskTyped, MatTypeOK, FileRow
<1>5. ask'[q].pc = pc /\ \A p \in Askers \ {q} : ask'[p] = ask[p]
  BY <1>3 DEF Becomes, AskTyped, MatTypeOK, AskRow
<1>. QED
  BY <1>4, <1>5

LEMMA AskerHeld ==
  ASSUME Known, NEW q \in Askers, Request(q) \/ Serve(q) \/ Die(q)
  PROVE  HeldStill /\ \A p \in Askers : HolderKept(p)
<1>. USE DEF Known
<1>1. CASE BeginWipe(q)
  <2>1. HeldStill
    BY <1>1 DEF BeginWipe, HeldStill
  <2>2. ask'[q] = Wiping /\ \A p \in Askers \ {q} : ask'[p] = ask[p]
    BY <1>1, WipeFacts DEF AskTyped, MatTypeOK
  <2>. QED
    BY <2>1, <2>2, AskHolder DEF Wiping
<1>2. CASE Request(q) /\ ~BeginWipe(q)
  <2>1. PICK op \in Ops, t \in Reviews \cup {"none"}, fs \in SUBSET Files,
             pc \in {"saving", "queueing", "unlinking", "erasing", "purging"} :
             Beginning(q, op, t, fs, pc)
    BY <1>2, RequestFacts
  <2>2. UNCHANGED <<doc, analysis>> /\ ask' = [ask EXCEPT ![q] = AskBegun(op, t, fs, pc)]
    BY <2>1, BeginsFacts DEF Beginning, AskTyped
  <2>3. ask'[q] = AskBegun(op, t, fs, pc) /\ \A p \in Askers \ {q} : ask'[p] = ask[p]
    BY <2>2 DEF AskTyped, MatTypeOK
  <2>. QED
    BY <2>2, <2>3, AskHolder DEF HeldStill, ActiveCheck, AskBegun
<1>3. CASE Save(q)
  <2>1. HeldStill
    BY <1>3, SaveFacts, HeldThere DEF Save, HeldStill, ActiveCheck
  <2>. QED
    BY <1>3, <2>1, SaveFacts, AskHolder
<1>4. CASE Record(q) \/ RecordAttachment(q)
  <2>1. PICK of : doc' = Recorded(q, of)
    BY <1>4 DEF Record, RecordAttachment
  <2>2. ask[q].file \in Files /\ doc[ask[q].file].row = "none"
    BY <1>4 DEF Record, RecordAttachment, AsksSound, AskSound, AskTyped, Shape
  <2>3. \A f \in Files : doc[f].row # "none" => doc'[f].of = doc[f].of
    BY <2>1, <2>2, RecordedFacts
  <2>4. HeldStill
    BY <1>4, <2>3, HeldThere DEF Record, RecordAttachment, HeldStill, ActiveCheck
  <2>5. ask'[q].pc # "committing" /\ \A p \in Askers \ {q} : ask'[p] = ask[p]
    BY <1>4, GoesFacts, EndsFacts DEF Record, RecordAttachment, NoAsk
  <2>. QED
    BY <2>4, <2>5, AskHolder
<1>5. CASE RecordRetest(q)
  <2>1. PICK t \in Reviews : t = ask[q].task
    BY <1>5 DEF AskTyped, Shape, RecordRetest
  <2>2. PICK n \in Analyses : NewCheck(n) /\ analysis' = [analysis EXCEPT ![n] = CheckOf(t, "retest", ActiveOf(t)')]
    BY <1>5, <2>1, RetestFacts
  <2>3. \A f \in Files : doc[f].row # "none" => doc'[f].of = doc[f].of
    BY <1>5, <2>1, RetestFacts
  <2>4. \A r \in Analyses : analysis[r].status # "none" => analysis'[r] = analysis[r]
    BY <2>2 DEF AskTyped, MatTypeOK, NewCheck
  <2>5. HeldStill
    BY <2>3, <2>4, HeldThere DEF HeldStill, ActiveCheck
  <2>6. Ends(q)
    BY <1>5 DEF RecordRetest
  <2>. QED
    BY <2>5, <2>6, EndsFacts, AskHolder DEF NoAsk
<1>6. CASE Queue(q)
  <2>1. \A r \in Analyses : analysis[r].status # "none" => analysis'[r] = analysis[r]
    <3>1. CASE ~UNCHANGED analysis
      <4>1. PICK n \in Analyses, kind \in {"check", "sorts", "resorts"}, fs \in SUBSET Files :
              /\ NewCheck(n) /\ analysis' = [analysis EXCEPT ![n] = CheckOf(ask[q].task, kind, fs)]
        BY <1>6, <3>1, QueueFacts
      <4>. QED
        BY <4>1 DEF AskTyped, MatTypeOK, NewCheck
    <3>. QED
      BY <3>1
  <2>2. HeldStill
    BY <1>6, <2>1, HeldThere DEF Queue, HeldStill, ActiveCheck
  <2>. QED
    BY <1>6, <2>2, EndsFacts, AskHolder DEF Queue, NoAsk
<1>7. CASE Drop(q)
  <2>1. HeldStill
    <3>1. CASE Dropped(ask[q].files, {})
      BY <3>1, HeldThere, DroppedFacts DEF HeldStill, ActiveCheck
    <3>2. CASE UNCHANGED <<doc, analysis>>
      BY <3>2 DEF HeldStill, ActiveCheck
    <3>. QED
      BY <1>7, <3>1, <3>2 DEF Drop
  <2>2. CASE Ends(q)
    BY <2>1, <2>2, EndsFacts, AskHolder DEF NoAsk
  <2>3. CASE ~Ends(q)
    <3>. DEFINE pc == IF ActiveOf(ask[q].task) \ ask[q].files = {} THEN "erasing" ELSE "queueing"
    <3>1. pc # "committing" /\ Becomes(q, [ask[q] EXCEPT !.files = {}, !.pc = pc])
      BY <1>7, <2>3 DEF Drop
    <3>. HIDE DEF pc
    <3>2. ask'[q].pc = pc /\ \A p \in Askers \ {q} : ask'[p] = ask[p]
      BY <3>1 DEF Becomes, AskTyped, MatTypeOK, AskRow
    <3>. QED
      BY <2>1, <3>1, <3>2, AskHolder
  <2>. QED
    BY <2>2, <2>3
<1>8. CASE Commit(q)
  <2>1. HeldStill
    BY <1>8, HeldThere, DroppedFacts DEF Commit, HeldStill, ActiveCheck
  <2>. QED
    BY <1>8, <2>1, EndsFacts, AskHolder DEF Commit, NoAsk
<1>9. CASE Purge(q)
  <2>1. HeldStill
    BY <1>9 DEF Purge, HeldStill
  <2>2. CASE ask[q].op # "remove"
    BY <1>9, <2>1, <2>2, GoesFacts, AskHolder DEF Purge
  <2>3. CASE ask[q].op = "remove"
    <3>1. \A p \in Askers : ask'[p] = Fails(p, q)
      BY <1>9, <2>3 DEF Purge
    <3>2. \A p \in Askers : Fails(p, q).pc # "committing"
      BY FailsCommitsNot
    <3>. QED
      BY <2>1, <3>1, <3>2 DEF HolderKept
  <2>. QED
    BY <2>2, <2>3
<1>10. CASE Rebuild(q)
  <2>1. HeldStill
    BY <1>10 DEF Rebuild, HeldStill
  <2>2. ASSUME NEW p \in Askers PROVE HolderKept(p)
    <3>1. ask'[p] = NoAsk \/ ask'[p] = ask[p] \/ ask'[p] = Fails(p, q)
      BY <1>10 DEF Rebuild
    <3>. QED
      BY <3>1, FailsCommitsNot DEF HolderKept, NoAsk
  <2>. QED
    BY <2>1, <2>2
<1>11. CASE Unlink(q) \/ Clean(q) \/ Die(q) \/ RefuseRetest(q) \/ Erase(q)
  <2>1. HeldStill
    BY <1>11 DEF Unlink, Clean, Die, RefuseRetest, Erase, HeldStill, ActiveCheck
  <2>2. (ask'[q].pc # "committing" \/ Erase(q)) /\ \A p \in Askers \ {q} : ask'[p] = ask[p]
    BY <1>11, GoesFacts, EndsFacts, EraseFacts DEF Unlink, Clean, Die, RefuseRetest, NoAsk
  <2>. QED
    BY <2>1, <2>2, AskHolder
<1>. QED
  BY <1>1, <1>2, <1>3, <1>4, <1>5, <1>6, <1>7, <1>8, <1>9, <1>10, <1>11 DEF Serve

LEMMA WorkerHeld ==
  ASSUME Known, NEW r \in Analyses, Work(r)
  PROVE  HeldStill /\ \A p \in Askers : HolderKept(p)
<1>. USE DEF Known
<1>1. \A p \in Askers : HolderKept(p)
  BY ClosingFacts DEF Work, Start, Sort, QueueSorted, HolderKept
<1>2. CASE Start(r)
  BY <1>1, <1>2, StartFacts, HeldThere DEF Start, HeldStill, ActiveCheck
<1>3. CASE Judge(r) \/ CannotTell(r) \/ Raise(r) \/ Stop(r)
  BY <1>1, <1>3, ClosingFacts, ClosedFacts, HeldThere DEF HeldStill, ActiveCheck
<1>4. CASE Sort(r)
  <2>1. PICK t \in Reviews \cup {"unsorted"}, readable \in BOOLEAN, f \in analysis[r].read : GivenTo(r, t, readable, f)
    BY <1>4 DEF Sort
  <2>2. f \in Files
    BY DEF AskTyped, MatTypeOK, CheckRow
  <2>3. \A g \in Files : g # f => doc'[g].of = doc[g].of
    BY <2>1, <2>2, SortedFacts DEF GivenTo
  <2>4. f \notin Held /\ r \notin HeldChecks
    BY <1>4 DEF Sort, Doing
  <2>. QED
    BY <1>1, <2>1, <2>2, <2>3, <2>4, GivenFacts, HeldThere DEF HeldStill, ActiveCheck
<1>5. CASE QueueSorted(r)
  <2>1. UNCHANGED doc /\ r \notin HeldChecks
    BY <1>5 DEF QueueSorted
  <2>2. \A p \in Analyses \ {r} : analysis[p].status # "none" => analysis'[p] = analysis[p]
    <3>1. CASE analysis' = Closed(r)
      BY <3>1, ClosedFacts
    <3>2. CASE analysis' # Closed(r)
      BY <1>5, <3>2, QueueSortedFacts DEF NewCheck
    <3>. QED
      BY <3>1, <3>2
  <2>. QED
    BY <1>1, <2>1, <2>2, HeldThere DEF HeldStill, ActiveCheck
<1>. QED
  BY <1>2, <1>3, <1>4, <1>5 DEF Work

LEMMA HeldNext ==
  ASSUME Known, [MatNext]_matVars
  PROVE  HeldStill /\ \A p \in Askers : HolderKept(p)
<1>1. CASE UNCHANGED matVars
  BY <1>1 DEF matVars, HeldStill, HolderKept, ActiveCheck
<1>. QED
  BY <1>1, AskerHeld, WorkerHeld DEF MatNext

\* A reset takes all that its tasks have, and nothing that other tasks have.
LEMMA EraseOwns ==
  ASSUME Known, NEW q \in Askers, Erase(q), NEW t \in Reviews
  PROVE  IF t \in Scope(q) THEN ActiveOf(t) \subseteq Erased(q) /\ Live(t, {}) \subseteq Dismissed(q)
         ELSE ActiveOf(t) \cap Erased(q) = {} /\ Live(t, {}) \cap Dismissed(q) = {}
<1>1. CASE t \in Scope(q)
  BY <1>1 DEF ActiveOf, Erased, Documents, Stands, Live, Dismissed, ActiveCheck, MaterialAssumption
<1>2. CASE t \notin Scope(q)
  <2>1. ActiveOf(t) \cap Erased(q) = {}
    BY <1>2 DEF ActiveOf, Erased
  <2>2. ASSUME NEW r \in Live(t, {}), r \in Dismissed(q) PROVE FALSE
    <3>1. r \in Analyses /\ ActiveCheck(r) /\ analysis[r].task = t
      BY DEF Live
    <3>2. ask[q].op # "restart"
      BY <1>2 DEF Erase, Scope, Known, AskTyped, Shape
    <3>3. analysis[r].kind \in Sorts /\ analysis[r].files \cap Erased(q) # {}
      BY <1>2, <2>2, <3>1, <3>2 DEF Dismissed
    <3>4. t # "none" /\ analysis[r].status = "sorting"
      BY <3>1, <3>3 DEF Known, ChecksSound, RowSound, ActiveCheck, MaterialAssumption
    <3>5. \A f \in analysis[r].files : doc[f].of = t
      BY <3>1, <3>3, <3>4 DEF Known, ChecksSound, RowSound
    <3>. QED
      BY <1>2, <3>3, <3>5 DEF Erased
  <2>. QED
    BY <1>2, <2>1, <2>2
<1>. QED
  BY <1>1, <1>2

HolderSound(q) ==
  /\ \A f \in ask[q].files : doc[f].of \in Scope(q)
  /\ \A r \in ask[q].checks : ActiveCheck(r) => analysis[r].task \in Scope(q) \cup {"none"}

LEMMA HoldersNext ==
  ASSUME Known, HoldersSound, Onward, [MatNext]_matVars
  PROVE  HoldersSound'
<1>1. HeldStill /\ \A p \in Askers : HolderKept(p)
  BY HeldNext
<1>2. \A f \in Held : f \in Files /\ doc[f].row # "none"
  BY HeldThere DEF Known
<1>3. ASSUME NEW q \in Askers, ask'[q].pc = "committing", ask'[q] = ask[q]
      PROVE  HolderSound(q)' /\ \A t \in Reviews : Holds(q, t)' => Holds(q, t)
  <2>1. ask[q].files \subseteq Held /\ ask[q].checks \subseteq HeldChecks /\ ask[q].pc = "committing"
    BY <1>3, HeldFacts
  <2>2. \A f \in ask[q].files : doc'[f].of = doc[f].of /\ doc[f].of \in Scope(q)
    BY <1>1, <2>1 DEF HeldStill, HoldersSound
  <2>3. \A r \in ask[q].checks : ActiveCheck(r)' => /\ ActiveCheck(r) /\ analysis'[r].task = analysis[r].task
                                                    /\ analysis[r].task \in Scope(q) \cup {"none"}
    BY <1>1, <2>1 DEF HeldStill, HoldersSound
  <2>4. Scope(q)' = Scope(q)
    BY <1>3 DEF Scope
  <2>5. HolderSound(q)'
    BY <1>3, <2>2, <2>3, <2>4 DEF HolderSound
  <2>6. ASSUME NEW t \in Reviews, Holds(q, t)' PROVE Holds(q, t)
    <3>1. \A f \in ask[q].files : f \in ActiveOf(t)' => f \in ActiveOf(t)
      BY <1>2, <2>1, <2>2 DEF ActiveOf, Onward, RowOnward
    <3>. QED
      BY <1>3, <2>1, <2>3, <2>6, <3>1 DEF Holds
  <2>. QED
    BY <2>5, <2>6
<1>4. ASSUME NEW q \in Askers, Erase(q)
      PROVE  /\ HolderSound(q)' /\ \A p \in Askers \ {q} : ask'[p] = ask[p]
             /\ \A p \in Askers \ {q}, t \in Reviews : ~(Holds(p, t) /\ Holds(q, t)')
  <2>1. UNCHANGED <<doc, analysis>>
    BY <1>4 DEF Erase
  <2>2. /\ ask'[q].files = Erased(q) /\ ask'[q].checks = Dismissed(q) /\ ask'[q].task = ask[q].task
        /\ Erased(q) \cap Held = {} /\ Dismissed(q) \cap HeldChecks = {}
        /\ \A p \in Askers \ {q} : ask'[p] = ask[p]
    BY <1>4, EraseFacts DEF Known
  <2>3. \A r \in Dismissed(q) : ActiveCheck(r) => analysis[r].task \in Scope(q) \cup {"none"}
    <3>1. \A r \in Analyses : analysis[r].task \in Reviews \cup {"none"}
      BY DEF Known, AskTyped, MatTypeOK, CheckRow
    <3>. QED
      BY <1>4, <3>1, EraseOwns DEF Live, Dismissed
  <2>4. Scope(q)' = Scope(q)
    BY <2>2 DEF Scope
  <2>5. HolderSound(q)'
    BY <2>1, <2>2, <2>3, <2>4 DEF HolderSound, Erased, ActiveCheck
  <2>6. ASSUME NEW p \in Askers \ {q}, NEW t \in Reviews, Holds(p, t), Holds(q, t)' PROVE FALSE
    <3>1. \/ ActiveOf(t) \cap Erased(q) # {}
          \/ Live(t, {}) \cap Dismissed(q) # {}
      BY <2>1, <2>2, <2>6 DEF Holds, Live, ActiveOf, ActiveCheck, Dismissed
    <3>2. ActiveOf(t) \subseteq Erased(q) /\ Live(t, {}) \subseteq Dismissed(q)
      BY <1>4, <3>1, EraseOwns
    <3>3. \/ ActiveOf(t) \cap Held # {}
          \/ Live(t, {}) \cap HeldChecks # {}
      <4>1. ask[p].files \subseteq Held /\ ask[p].checks \subseteq HeldChecks
        BY <2>6, HeldFacts DEF Holds
      <4>2. ask[p].checks \subseteq Analyses
        BY DEF Known, AskTyped, MatTypeOK, AskRow
      <4>. QED
        BY <2>6, <4>1, <4>2 DEF Holds, Live
    <3>. QED
      BY <2>2, <3>2, <3>3
  <2>. QED
    BY <2>2, <2>5, <2>6
<1>5. ASSUME NEW q \in Askers, ask'[q].pc = "committing" PROVE HolderSound(q)'
  BY <1>1, <1>3, <1>4, <1>5 DEF HolderKept
<1>6. ASSUME NEW q \in Askers, NEW p \in Askers, NEW t \in Reviews, Holds(q, t)', Holds(p, t)' PROVE q = p
  <2>1. ask'[q].pc = "committing" /\ ask'[p].pc = "committing"
    BY <1>6 DEF Holds
  <2>2. (ask'[q] = ask[q] \/ Erase(q)) /\ (ask'[p] = ask[p] \/ Erase(p))
    BY <1>1, <2>1 DEF HolderKept
  <2>3. CASE ask'[q] = ask[q] /\ ask'[p] = ask[p]
    BY <1>3, <1>6, <2>1, <2>3 DEF HoldersSound
  <2>4. CASE Erase(q) /\ p # q
    <3>1. Holds(p, t)
      BY <1>3, <1>4, <1>6, <2>1, <2>4
    <3>. QED
      BY <1>4, <1>6, <2>4, <3>1
  <2>5. CASE Erase(p) /\ p # q
    <3>1. Holds(q, t)
      BY <1>3, <1>4, <1>6, <2>1, <2>5
    <3>. QED
      BY <1>4, <1>6, <2>5, <3>1
  <2>. QED
    BY <2>2, <2>3, <2>4, <2>5
<1>. QED
  BY <1>5, <1>6 DEF HoldersSound, HolderSound

-----------------------------------------------------------------------------
(* A task in progress has a check that is queued or under way.              *)

Checked(t) == \E r \in Analyses : ActiveCheck(r) /\ analysis[r].task = t /\ analysis[r].kind = "check"

\* The check stays, or the task is not in progress any more.
LEMMA StillChecked ==
  ASSUME TasksChecked,
         \A t \in Reviews \ slipped' :
           \/ review'[t].status # "in_progress"
           \/ Checked(t)'
           \/ review'[t] = review[t] /\ t \notin slipped /\ (Checked(t) => Checked(t)')
  PROVE  TasksChecked'
BY DEF TasksChecked, Checked

LEMMA AskerChecked ==
  ASSUME Known, HoldersSound, TasksChecked, NEW q \in Askers, Request(q) \/ Serve(q) \/ Die(q)
  PROVE  TasksChecked'
<1>. USE DEF Known
<1>1. CASE BeginWipe(q)
  <2>1. ASSUME NEW t \in Reviews PROVE review'[t].status # "in_progress"
    BY <1>1 DEF BeginWipe
  <2>. QED
    BY <2>1, StillChecked
<1>2. CASE UNCHANGED <<analysis, review, slipped>>
  BY <1>2, StillChecked DEF Checked, ActiveCheck
<1>3. CASE Request(q) /\ ~BeginWipe(q)
  BY <1>2, <1>3, RequestFacts DEF Beginning, Histories
<1>4. CASE RecordRetest(q)
  <2>1. PICK t \in Reviews : t = ask[q].task
    BY <1>4 DEF AskTyped, Shape, RecordRetest
  <2>2. PICK n \in Analyses : NewCheck(n) /\ analysis' = [analysis EXCEPT ![n] = CheckOf(t, "retest", ActiveOf(t)')]
    BY <1>4, <2>1, RetestFacts
  <2>3. \A r \in Analyses : ActiveCheck(r) => analysis'[r] = analysis[r]
    BY <2>2 DEF AskTyped, MatTypeOK, NewCheck, ActiveCheck
  <2>4. UNCHANGED <<review, slipped>>
    BY <1>4 DEF RecordRetest
  <2>5. \A u \in Reviews : Checked(u) => Checked(u)'
    BY <2>3 DEF Checked, ActiveCheck
  <2>. QED
    BY <2>4, <2>5, StillChecked
<1>5. CASE Queue(q)
  <2>1. CASE UNCHANGED <<analysis, review>>
    BY <1>2, <1>5, <2>1 DEF Queue, Histories
  <2>2. CASE ~UNCHANGED <<analysis, review>>
    <3>1. PICK n \in Analyses, kind \in {"check", "sorts", "resorts"}, fs \in SUBSET Files :
            /\ NewCheck(n) /\ analysis' = [analysis EXCEPT ![n] = CheckOf(ask[q].task, kind, fs)]
            /\ ask[q].op \notin Batches => kind = "check"
      BY <1>5, <2>2, QueueFacts
    <3>2. \A r \in Analyses : ActiveCheck(r) => analysis'[r] = analysis[r]
      BY <3>1 DEF AskTyped, MatTypeOK, NewCheck, ActiveCheck
    <3>3. ASSUME NEW t \in Reviews, t = ask[q].task PROVE Checked(t)'
      <4>1. kind = "check"
        BY <1>5, <3>1, <3>3 DEF Queue, AskTyped, Shape, MaterialAssumption
      <4>2. ActiveCheck(n)' /\ analysis'[n].task = t /\ analysis'[n].kind = "check"
        BY <3>1, <3>3, <4>1 DEF AskTyped, MatTypeOK, CheckOf, ActiveCheck
      <4>. QED
        BY <4>2 DEF Checked
    <3>4. \A t \in Reviews : t # ask[q].task => review'[t] = review[t]
      BY <1>5 DEF Queue, AskTyped, MatTypeOK
    <3>. QED
      BY <1>5, <3>2, <3>3, <3>4, StillChecked DEF Queue, Histories, Checked, ActiveCheck
  <2>. QED
    BY <2>1, <2>2
<1>6. CASE Drop(q)
  <2>1. CASE Dropped(ask[q].files, {})
    BY <1>6, <2>1, DroppedFacts, StillChecked DEF Drop, Checked, ActiveCheck
  <2>2. CASE UNCHANGED analysis
    BY <1>2, <1>6, <2>2 DEF Drop
  <2>. QED
    BY <1>6, <2>1, <2>2 DEF Drop
<1>7. CASE Commit(q)
  <2>1. ASSUME NEW t \in Reviews \ slipped', t \in Scope(q) PROVE review'[t].status # "in_progress"
    BY <1>7, <2>1 DEF Commit, Reset, Slips, AskTyped, MatTypeOK
  <2>2. ASSUME NEW t \in Reviews, t \notin Scope(q) PROVE review'[t] = review[t] /\ (Checked(t) => Checked(t)')
    <3>1. review'[t] = review[t]
      BY <1>7, <2>2 DEF Commit, Reset
    <3>2. \A r \in Analyses : ActiveCheck(r) /\ analysis[r].task = t => r \notin ask[q].checks
      BY <1>7, <2>2 DEF Commit, HoldersSound, MaterialAssumption
    <3>3. Dropped(ask[q].files, ask[q].checks)
      BY <1>7 DEF Commit
    <3>. QED
      BY <3>1, <3>2, <3>3, DroppedFacts DEF Checked, ActiveCheck
  <2>3. slipped \subseteq slipped'
    BY <1>7 DEF Commit
  <2>. QED
    BY <2>1, <2>2, <2>3, StillChecked
<1>8. CASE Purge(q)
  <2>1. CASE ask[q].op = "remove"
    BY <1>8, <2>1, StillChecked DEF Purge
  <2>2. CASE ask[q].op = "discard"
    <3>1. Dropped(Doomed(q), {}) /\ review' = Reset({}, ask[q].seen) /\ slipped' = slipped
      BY <1>8, <2>2 DEF Purge, Slips
    <3>2. review' = review
      BY <3>1 DEF Reset, AskTyped, MatTypeOK
    <3>. QED
      BY <3>1, <3>2, DroppedFacts, StillChecked DEF Checked, ActiveCheck
  <2>3. CASE ask[q].op \notin {"remove", "discard"}
    <3>1. ASSUME NEW t \in Reviews \ slipped' PROVE review'[t].status # "in_progress"
      BY <1>8, <2>3, <3>1 DEF Purge, Reset, Slips, AskTyped, MatTypeOK
    <3>. QED
      BY <3>1, StillChecked
  <2>. QED
    BY <2>1, <2>2, <2>3
<1>9. CASE Rebuild(q)
  BY <1>9, StillChecked DEF Rebuild
<1>. QED
  BY <1>1, <1>2, <1>3, <1>4, <1>5, <1>6, <1>7, <1>8, <1>9
  DEF Serve, Save, Record, RecordAttachment, RefuseRetest, Unlink, Erase, Clean, Die, Histories

LEMMA WorkerChecked ==
  ASSUME Known, TasksChecked, NEW r \in Analyses, Work(r)
  PROVE  TasksChecked'
<1>. USE DEF Known
<1>1. UNCHANGED slipped
  BY DEF Work, Start, Judge, CannotTell, Raise, Sort, QueueSorted, Stop, Histories
<1>2. CASE Start(r)
  <2>1. \A p \in Analyses : ActiveCheck(p) => /\ ActiveCheck(p)' /\ analysis'[p].task = analysis[p].task
                                             /\ analysis'[p].kind = analysis[p].kind
    BY <1>2, StartFacts DEF ActiveCheck
  <2>. QED
    BY <1>2, <1>1, <2>1, StillChecked DEF Start, Checked
<1>3. CASE Judge(r) \/ CannotTell(r) \/ Raise(r) \/ Stop(r)
  <2>1. /\ analysis'[r].status = "ended" /\ \A p \in Analyses \ {r} : analysis'[p] = analysis[p]
    BY <1>3, ClosingFacts, ClosedFacts
  <2>2. ASSUME NEW t \in Reviews, t # analysis[r].task \/ analysis[r].kind # "check"
        PROVE  /\ Checked(t) => Checked(t)'
               /\ review'[t] = review[t] \/ review'[t].status # "in_progress"
    <3>1. Checked(t) => Checked(t)'
      BY <2>1, <2>2 DEF Checked, ActiveCheck
    <3>2. review'[t] = review[t] \/ review'[t].status # "in_progress"
      BY <1>3 DEF Judge, CannotTell, Raise, Stop, Verdict, AskTyped, MatTypeOK
    <3>. QED
      BY <3>1, <3>2
  <2>3. ASSUME NEW t \in Reviews, t = analysis[r].task, analysis[r].kind = "check"
        PROVE  review'[t].status # "in_progress"
    BY <1>3, <2>3 DEF Judge, CannotTell, Raise, Stop, Verdict, AskTyped, MatTypeOK
  <2>. QED
    BY <1>1, <2>2, <2>3, StillChecked
<1>4. CASE Sort(r)
  <2>1. PICK t \in Reviews \cup {"unsorted"}, readable \in BOOLEAN, f \in Files : GivenTo(r, t, readable, f)
    BY <1>4 DEF Sort, AskTyped, MatTypeOK, CheckRow
  <2>2. analysis[r].kind # "check"
    BY <1>4 DEF Sort, Doing
  <2>3. \A u \in Reviews : Checked(u) => Checked(u)'
    BY <2>1, <2>2, GivenFacts DEF Checked, ActiveCheck
  <2>4. \A u \in Reviews : review'[u] = review[u] \/ review'[u].status # "in_progress"
    BY <2>1 DEF GivenTo
  <2>. QED
    BY <1>1, <2>3, <2>4, StillChecked
<1>5. CASE QueueSorted(r)
  <2>1. analysis[r].kind # "check"
    BY <1>5 DEF QueueSorted, ChecksSound, RowSound, Sorts
  <2>2. CASE analysis' = Closed(r)
    <3>1. UNCHANGED review
      <4>1. ASSUME NEW p \in Analyses, NewCheck(p), NEW k, NEW fs,
                   analysis' = [Closed(r) EXCEPT ![p] = CheckOf(analysis[r].task, k, fs)]
            PROVE  FALSE
        <5>1. analysis'[p].status = "queued" /\ p # r
          BY <1>5, <4>1, ClosedTyped DEF CheckOf, NewCheck, QueueSorted, AskTyped
        <5>. QED
          BY <2>2, <4>1, <5>1, ClosedFacts DEF NewCheck
      <4>. QED
        BY <1>5, <4>1 DEF QueueSorted
    <3>. QED
      BY <1>1, <2>1, <2>2, <3>1, ClosedFacts, StillChecked DEF Checked, ActiveCheck
  <2>3. CASE analysis' # Closed(r)
    <3>1. PICK p \in Analyses \ {r}, kind \in {"check", "retest"} :
            /\ NewCheck(p) /\ analysis'[p].status = "queued" /\ analysis'[p].kind = kind
            /\ analysis'[p].task = analysis[r].task
            /\ \A o \in Analyses \ {r, p} : analysis'[o] = analysis[o]
            /\ review' = IF kind = "check" THEN Verdict(analysis[r].task, "in_progress", {}) ELSE review
      BY <1>5, <2>3, QueueSortedFacts
    <3>2. \A t \in Reviews : Checked(t) => Checked(t)'
      BY <2>1, <3>1 DEF Checked, ActiveCheck, NewCheck
    <3>3. kind = "check" => \A t \in Reviews : t = analysis[r].task => Checked(t)'
      BY <3>1 DEF Checked, ActiveCheck
    <3>4. \A t \in Reviews : t # analysis[r].task \/ kind # "check" => review'[t] = review[t]
      BY <3>1 DEF Verdict, AskTyped, MatTypeOK
    <3>. QED
      BY <1>1, <3>2, <3>3, <3>4, StillChecked
  <2>. QED
    BY <2>2, <2>3
<1>. QED
  BY <1>2, <1>3, <1>4, <1>5 DEF Work

LEMMA CheckedNext ==
  ASSUME Known, HoldersSound, TasksChecked, [MatNext]_matVars
  PROVE  TasksChecked'
<1>1. CASE UNCHANGED matVars
  BY <1>1, StillChecked DEF matVars, Checked, ActiveCheck
<1>. QED
  BY <1>1, AskerChecked, WorkerChecked DEF MatNext

-----------------------------------------------------------------------------
(* The documents of a task are covered: what a step that leaves the task    *)
(* alone keeps, and what the other steps establish.                         *)

MatInvariant ==
  Known /\ HoldersSound /\ TasksChecked /\ HeldApart /\ DocumentsCovered

\* The documents of the task, and its analyses.
SameRows(t) ==
  /\ ActiveOf(t)' = ActiveOf(t)
  /\ Live(t, {})' = Live(t, {})
  /\ \A r \in Live(t, {}) :
       /\ analysis'[r].status = "sorting" <=> analysis[r].status = "sorting"
       /\ Covers(r, t) => Covers(r, t)'
SameHeld(t) == \A r \in Live(t, {}) : r \in HeldChecks' <=> r \in HeldChecks
\* What requests are to do for the task, and its verdict.
SameOwed(t) ==
  /\ Settles(t) => Settles(t)'
  /\ Deletes(t, {"erasing"}) => Deletes(t, {"erasing"})'
  /\ Deletes(t, {"erasing", "committing"}) => Deletes(t, {"erasing", "committing"})'
  /\ ActiveOf(t) # {} /\ Queues(t) => Queues(t)'
SameVerdict(t) == review'[t] = review[t] \/ review'[t].status # "completed"

LEMMA LiveFacts ==
  /\ \A t, but : Live(t, but) = Live(t, {}) \ but
  /\ \A t : Live(t, {}) \subseteq Analyses
  /\ \A t : Live(t, HeldChecks)' = Live(t, {})' \ HeldChecks'
BY DEF Live

LEMMA CurrentKept ==
  ASSUME NEW t, SameRows(t), SameHeld(t)
  PROVE  /\ Current(t, {}) => Current(t, {})'
         /\ Current(t, HeldChecks) => Current(t, HeldChecks)'
<1>1. Current(t, {}) => Current(t, {})'
  BY DEF SameRows, Current
<1>2. Live(t, HeldChecks)' = Live(t, HeldChecks)
  <2>1. Live(t, HeldChecks)' = Live(t, {})' \ HeldChecks'
    BY LiveFacts
  <2>2. Live(t, HeldChecks) = Live(t, {}) \ HeldChecks
    BY LiveFacts
  <2>3. Live(t, {})' = Live(t, {}) /\ \A r \in Live(t, {}) : r \in HeldChecks' <=> r \in HeldChecks
    BY DEF SameRows, SameHeld
  <2>. QED
    BY <2>1, <2>2, <2>3
<1>3. Current(t, HeldChecks) => Current(t, HeldChecks)'
  <2>1. Live(t, HeldChecks) \subseteq Live(t, {})
    BY LiveFacts
  <2>. QED
    BY <1>2, <2>1 DEF SameRows, Current
<1>. QED
  BY <1>1, <1>3

LEMMA CoveredKept ==
  ASSUME NEW t \in Reviews, SameRows(t), SameHeld(t), SameOwed(t), SameVerdict(t), Covered(t)
  PROVE  Covered(t)'
BY CurrentKept DEF Covered, SameRows, SameOwed, SameVerdict

LEMMA ApartKept ==
  ASSUME NEW t \in Reviews, SameRows(t), SameHeld(t), Apart(t),
         ActiveOf(t) \cap Held' \subseteq Held
  PROVE  Apart(t)'
<1>1. Live(t, HeldChecks)' = Live(t, HeldChecks)
  <2>1. Live(t, HeldChecks)' = Live(t, {})' \ HeldChecks'
    BY LiveFacts
  <2>2. Live(t, HeldChecks) = Live(t, {}) \ HeldChecks
    BY LiveFacts
  <2>3. Live(t, {})' = Live(t, {}) /\ \A r \in Live(t, {}) : r \in HeldChecks' <=> r \in HeldChecks
    BY DEF SameRows, SameHeld
  <2>. QED
    BY <2>1, <2>2, <2>3
<1>2. Live(t, HeldChecks) \subseteq Live(t, {})
  BY LiveFacts
<1>. QED
  BY <1>1, <1>2 DEF Apart, SameRows

\* An analysis that goes on covers documents of the task that stay.
LEMMA CoversKept ==
  ASSUME Known, Onward, NEW t, NEW r \in Analyses, ActiveOf(t)' = ActiveOf(t),
         analysis'[r].status = analysis[r].status, analysis'[r].read = analysis[r].read,
         analysis'[r].files \subseteq analysis[r].files,
         analysis[r].files \cap ActiveOf(t) \subseteq analysis'[r].files,
         Covers(r, t)
  PROVE  Covers(r, t)'
<1>1. analysis[r].files \subseteq Files /\ \A f \in analysis[r].files : doc[f].row # "none"
  BY DEF Known, ChecksSound, RowSound, AskTyped, MatTypeOK, CheckRow
<1>2. CASE analysis[r].status = "running"
  BY <1>1, <1>2 DEF Covers
<1>3. CASE analysis[r].status = "queued"
  <2>1. {f \in analysis[r].files : doc[f].row = "active"} = ActiveOf(t)
    BY <1>3 DEF Covers
  <2>2. {f \in analysis'[r].files : doc'[f].row = "active"} \subseteq ActiveOf(t)
    BY <1>1, <2>1 DEF Onward, RowOnward
  <2>3. ActiveOf(t) \subseteq {f \in analysis'[r].files : doc'[f].row = "active"}
    <3>1. \A f \in ActiveOf(t) : doc'[f].row = "active"
      BY DEF ActiveOf
    <3>. QED
      BY <1>1, <2>1, <3>1
  <2>. QED
    BY <1>1, <1>3, <2>2, <2>3 DEF Covers
<1>. QED
  BY <1>2, <1>3 DEF Covers

\* The rows of the task are the same when its documents are, and its analyses go on with
\* them.
LEMMA MatRowsKept ==
  ASSUME Known, Onward, NEW t \in Reviews, ActiveOf(t)' = ActiveOf(t),
         \A r \in Analyses : r \in Live(t, {}) \/ r \in Live(t, {})' =>
           /\ analysis'[r].status = analysis[r].status /\ analysis'[r].task = analysis[r].task
           /\ analysis'[r].read = analysis[r].read /\ analysis'[r].files \subseteq analysis[r].files
           /\ analysis[r].files \cap ActiveOf(t) \subseteq analysis'[r].files
  PROVE  SameRows(t)
<1>1. Live(t, {})' = Live(t, {})
  BY DEF Live, ActiveCheck
<1>2. ASSUME NEW r \in Live(t, {}), Covers(r, t) PROVE Covers(r, t)'
  BY <1>2, CoversKept DEF Live
<1>. QED
  BY <1>1, <1>2 DEF SameRows, Live

LEMMA RowsStill ==
  ASSUME UNCHANGED <<doc, analysis>>, NEW t
  PROVE  SameRows(t)
BY DEF SameRows, ActiveOf, Live, Covers, ActiveCheck

\* The request is to queue an analysis of the task, or to reset it.
Owes(q, t) ==
  /\ ask[q].task = t
  /\ \/ ask[q].op \in {"upload", "delete"} /\ ask[q].pc = "queueing" /\ ActiveOf(t) # {}
     \/ ask[q].op = "delete" /\ ask[q].pc \in {"erasing", "committing"}

LEMMA HoldsRows ==
  ASSUME NEW t, NEW p, ask[p].checks \subseteq Analyses
  PROVE  Holds(p, t) <=> /\ ask[p].pc = "committing"
                         /\ ask[p].files \cap ActiveOf(t) # {} \/ ask[p].checks \cap Live(t, {}) # {}
BY DEF Holds, Live

LEMMA HoldsKept ==
  ASSUME AskTyped, NEW t, SameRows(t), NEW p \in Askers, ask'[p] = ask[p]
  PROVE  Holds(p, t) <=> Holds(p, t)'
<1>1. ask[p].checks \subseteq Analyses
  BY DEF AskTyped, MatTypeOK, AskRow
<1>2. Holds(p, t)' <=> /\ ask'[p].pc = "committing"
                       /\ ask'[p].files \cap ActiveOf(t)' # {} \/ ask'[p].checks \cap Live(t, {})' # {}
  BY <1>1 DEF Holds, Live
<1>. QED
  BY <1>1, <1>2, HoldsRows DEF SameRows

LEMMA OwedKept ==
  ASSUME AskTyped, NEW t, SameRows(t), NEW q \in Askers, \A p \in Askers \ {q} : ask'[p] = ask[p], ~Owes(q, t)
  PROVE  SameOwed(t)
<1>1. ASSUME NEW pcs \in SUBSET {"erasing", "committing"}, Deletes(t, pcs) PROVE Deletes(t, pcs)'
  BY <1>1 DEF Deletes, Owes
<1>2. ASSUME Settles(t) PROVE Settles(t)'
  <2>1. CASE Deletes(t, {"erasing"})
    BY <1>1, <2>1 DEF Settles
  <2>2. CASE ~Deletes(t, {"erasing"})
    <3>1. PICK p \in Askers : ask[p].task = t /\ ask[p].op = "delete" /\ Holds(p, t)
      BY <1>2, <2>2 DEF Settles
    <3>2. p # q
      BY <3>1 DEF Owes, Holds
    <3>. QED
      BY <3>1, <3>2, HoldsKept DEF Settles
  <2>. QED
    BY <2>1, <2>2
<1>3. ActiveOf(t) # {} /\ Queues(t) => Queues(t)'
  BY DEF Queues, Owes
<1>. QED
  BY <1>1, <1>2, <1>3 DEF SameOwed

\* The request holds no rows of the task, before and after.
LEMMA HeldKept ==
  ASSUME AskTyped, NEW t, NEW q \in Askers, \A p \in Askers \ {q} : ask'[p] = ask[p], ~Holds(q, t),
         ask'[q].pc = "committing" => /\ ask'[q].files \cap ActiveOf(t) = {}
                                      /\ ask'[q].checks \cap Live(t, {}) = {}
  PROVE  SameHeld(t) /\ ActiveOf(t) \cap Held' \subseteq Held
<1>1. ask[q].checks \subseteq Analyses
  BY DEF AskTyped, MatTypeOK, AskRow
<1>2. ask[q].pc = "committing" => ask[q].checks \cap Live(t, {}) = {}
  BY <1>1, HoldsRows
<1>3. ASSUME NEW r \in Live(t, {}) PROVE r \in HeldChecks' <=> r \in HeldChecks
  BY <1>2, HeldFacts
<1>4. ASSUME NEW f \in ActiveOf(t), f \in Held' PROVE f \in Held
  BY <1>4, HeldFacts
<1>. QED
  BY <1>3, <1>4 DEF SameHeld

Keeps(t) == (t \notin excused' \cup slipped' => Covered(t)') /\ Apart(t)'

\* A step of a request that leaves the task alone.
LEMMA AloneKeeps ==
  ASSUME MatInvariant, NEW t \in Reviews, SameRows(t),
         NEW q \in Askers, \A p \in Askers \ {q} : ask'[p] = ask[p], ~Holds(q, t),
         ask'[q].pc = "committing" => /\ ask'[q].files \cap ActiveOf(t) = {}
                                      /\ ask'[q].checks \cap Live(t, {}) = {},
         t \notin excused' \cup slipped' =>
           ~Owes(q, t) /\ SameVerdict(t) /\ t \notin excused \cup slipped
  PROVE  Keeps(t)
<1>1. AskTyped /\ Apart(t) /\ (t \notin excused \cup slipped => Covered(t))
  BY DEF MatInvariant, Known, HeldApart, DocumentsCovered
<1>2. SameHeld(t) /\ ActiveOf(t) \cap Held' \subseteq Held
  BY <1>1, HeldKept
<1>3. Apart(t)'
  BY <1>1, <1>2, ApartKept
<1>4. ASSUME t \notin excused' \cup slipped' PROVE Covered(t)'
  <2>1. SameOwed(t)
    BY <1>1, <1>4, OwedKept
  <2>. QED
    BY <1>1, <1>2, <1>4, <2>1, CoveredKept
<1>. QED
  BY <1>3, <1>4 DEF Keeps

\* A step of the worker that leaves the task alone.
LEMMA StillKeeps ==
  ASSUME MatInvariant, NEW t \in Reviews, SameRows(t), ask' = ask,
         t \notin excused' \cup slipped' => SameVerdict(t) /\ t \notin excused \cup slipped
  PROVE  Keeps(t)
<1>1. AskTyped /\ Apart(t) /\ (t \notin excused \cup slipped => Covered(t))
  BY DEF MatInvariant, Known, HeldApart, DocumentsCovered
<1>2. SameHeld(t) /\ Held' = Held
  BY DEF SameHeld, Held, HeldChecks
<1>3. Apart(t)'
  BY <1>1, <1>2, ApartKept
<1>4. SameOwed(t)
  <2>1. Settles(t) => Settles(t)'
    BY <1>1, HoldsKept DEF Settles, Deletes
  <2>. QED
    BY <2>1 DEF SameOwed, Deletes, Queues
<1>5. t \notin excused' \cup slipped' => Covered(t)'
  BY <1>1, <1>2, <1>4, CoveredKept
<1>. QED
  BY <1>3, <1>5 DEF Keeps

\* A new analysis of the documents of the task.
LEMMA NewKeeps ==
  ASSUME MatInvariant, NEW t \in Reviews, NEW n \in Analyses, NewCheck(n), n \notin HeldChecks',
         analysis'[n].status = "queued", analysis'[n].task = t, analysis'[n].files = ActiveOf(t)',
         \A r \in Analyses \ {n} : analysis'[r].status = "none" <=> analysis[r].status = "none",
         ActiveOf(t)' \cap Held' = {}
  PROVE  Keeps(t)
<1>1. \A r \in Analyses : ActiveCheck(r)' => r <= n
  <2>1. \A r \in Analyses : r > n => analysis[r].status = "none"
    BY DEF MatInvariant, Known, ChecksSound, CheckInOrder, NewCheck
  <2>. QED
    BY <2>1 DEF ActiveCheck, Analyses
<1>2. n \in Live(t, {})' /\ n \in Live(t, HeldChecks)'
  BY DEF Live, ActiveCheck
<1>3. Covers(n, t)'
  BY DEF Covers, ActiveOf
<1>4. Current(t, {})' /\ Current(t, HeldChecks)'
  <2>1. (\A p \in Live(t, {}) : p <= n)' /\ (\A p \in Live(t, HeldChecks) : p <= n)'
    BY <1>1 DEF Live
  <2>. QED
    BY <1>2, <1>3, <2>1 DEF Current
<1>. QED
  BY <1>2, <1>4 DEF Keeps, Covered, Apart

\* A step on which the task gets no analysis and no document of an open transaction.
LEMMA ApartShrinks ==
  ASSUME NEW t, Apart(t),
         \A r \in Live(t, {})' \ HeldChecks' : analysis'[r].status # "sorting" =>
            r \in Live(t, {}) \ HeldChecks /\ analysis[r].status # "sorting",
         ActiveOf(t)' \cap Held' \subseteq ActiveOf(t) \cap Held
  PROVE  Apart(t)'
<1>1. Live(t, HeldChecks)' = Live(t, {})' \ HeldChecks' /\ Live(t, HeldChecks) = Live(t, {}) \ HeldChecks
  BY LiveFacts
<1>. QED
  BY <1>1 DEF Apart

LEMMA BeginKeeps ==
  ASSUME MatInvariant, Onward, NEW q \in Askers, Request(q), NEW t \in Reviews
  PROVE  Keeps(t)
<1>1. AskTyped
  BY DEF MatInvariant, Known
<1>2. CASE BeginWipe(q)
  <2>1. ask' = [ask EXCEPT ![q] = Wiping]
    BY <1>2, WipeFacts
  <2>2. ask'[q].pc = "purging" /\ \A p \in Askers \ {q} : ask'[p] = ask[p]
    BY <1>1, <2>1 DEF AskTyped, MatTypeOK, Wiping
  <2>3. \A r \in Analyses : ~ActiveCheck(r)'
    <3>1. ASSUME NEW r \in Analyses PROVE ~ActiveCheck(r)'
      <4>1. analysis[r] \in CheckRow
        BY <1>1 DEF AskTyped, MatTypeOK
      <4>2. analysis'[r] = IF ActiveCheck(r) THEN [analysis[r] EXCEPT !.status = "ended"] ELSE analysis[r]
        BY <1>2 DEF BeginWipe
      <4>. QED
        BY <4>1, <4>2 DEF CheckRow, ActiveCheck
    <3>. QED
      BY <3>1
  <2>4. Apart(t)'
    BY <2>3 DEF Apart, Live
  <2>5. ASSUME t \notin excused' \cup slipped' PROVE Keeps(t)
    <3>1. \A r \in Analyses : ~(ActiveCheck(r) /\ analysis[r].task = t)
      BY <1>2, <2>5 DEF BeginWipe, Excuse, MaterialAssumption
    <3>2. SameRows(t)
      <4>1. ActiveOf(t)' = ActiveOf(t)
        BY <1>2 DEF BeginWipe, ActiveOf
      <4>. QED
        BY <2>3, <3>1, <4>1 DEF SameRows, Live
    <3>3. ask[q].pc = "idle" /\ SameVerdict(t) /\ t \notin excused \cup slipped
      BY <1>1, <1>2, <2>5 DEF BeginWipe, SameVerdict, Excuse, AskTyped, MatTypeOK
    <3>. QED
      BY <2>2, <3>2, <3>3, AloneKeeps DEF Holds, Owes
  <2>. QED
    BY <2>4, <2>5 DEF Keeps
<1>3. CASE ~BeginWipe(q)
  <2>1. PICK op \in Ops, u \in Reviews \cup {"none"}, fs \in SUBSET Files,
             pc \in {"saving", "queueing", "unlinking", "erasing", "purging"} :
             Beginning(q, op, u, fs, pc)
    BY <1>1, <1>3, RequestFacts
  <2>2. UNCHANGED <<doc, analysis, review, excused, slipped>>
    BY <2>1 DEF Beginning, Histories
  <2>3. ask[q].pc = "idle" /\ ask' = [ask EXCEPT ![q] = AskBegun(op, u, fs, pc)] /\ ask'[q] = AskBegun(op, u, fs, pc)
    BY <1>1, <2>1, BeginsFacts DEF Beginning, AskTyped
  <2>4. ask'[q].pc # "committing" /\ \A p \in Askers \ {q} : ask'[p] = ask[p]
    BY <1>1, <2>3 DEF AskTyped, MatTypeOK, AskBegun
  <2>. QED
    BY <2>2, <2>3, <2>4, RowsStill, AloneKeeps DEF Holds, Owes, SameVerdict
<1>. QED
  BY <1>2, <1>3

\* The steps of a request that change no row.
LEMMA PlainKeeps ==
  ASSUME MatInvariant, Onward, NEW q \in Askers, NEW t \in Reviews,
         Save(q) \/ RefuseRetest(q) \/ Unlink(q) \/ Clean(q)
  PROVE  Keeps(t)
<1>1. AskTyped
  BY DEF MatInvariant, Known
<1>2. UNCHANGED <<analysis, review, excused, slipped>>
  BY DEF Save, RefuseRetest, Unlink, Clean, Histories
<1>3. ask'[q].pc # "committing" /\ \A p \in Askers \ {q} : ask'[p] = ask[p]
  <2>1. CASE Save(q)
    BY <1>1, <2>1, SaveFacts
  <2>2. CASE RefuseRetest(q) \/ Unlink(q) \/ Clean(q)
    BY <1>1, <2>2, GoesFacts, EndsFacts DEF RefuseRetest, Unlink, Clean, NoAsk
  <2>. QED
    BY <2>1, <2>2
<1>4. ActiveOf(t)' = ActiveOf(t)
  <2>1. CASE Save(q)
    BY <1>1, <2>1, SaveFacts DEF ActiveOf
  <2>2. CASE RefuseRetest(q) \/ Unlink(q) \/ Clean(q)
    BY <2>2 DEF RefuseRetest, Unlink, Clean, ActiveOf
  <2>. QED
    BY <2>1, <2>2
<1>5. SameRows(t)
  BY <1>2, <1>4, MatRowsKept DEF MatInvariant, Live, ActiveCheck
<1>6. ask[q].pc \notin {"queueing", "erasing", "committing"}
  BY <1>1 DEF Save, RefuseRetest, Unlink, Clean, AskTyped, Shape
<1>. QED
  BY <1>2, <1>3, <1>5, <1>6, AloneKeeps DEF Holds, Owes, SameVerdict

LEMMA RecordKeeps ==
  ASSUME MatInvariant, Onward, NEW q \in Askers, NEW t \in Reviews,
         Record(q) \/ RecordAttachment(q)
  PROVE  Keeps(t)
<1>1. AskTyped /\ AsksSound /\ Apart(t)
  BY DEF MatInvariant, Known, HeldApart
<1>2. UNCHANGED <<analysis, review, excused, slipped>> /\ ask[q].pc = "recording"
  BY DEF Record, RecordAttachment, Histories
<1>3. PICK of \in Reviews \cup {"unsorted", "finding", "answer"} :
        /\ doc' = Recorded(q, of)
        /\ of \in Reviews => Record(q) /\ ask[q].op = "upload" /\ ask[q].task = of
  BY <1>1 DEF Record, RecordAttachment, AskTyped, Shape, MaterialAssumption
<1>4. ask[q].file \in Files /\ doc[ask[q].file].row = "none"
  BY <1>1 DEF Record, RecordAttachment, AsksSound, AskSound, AskTyped, Shape
<1>5. \A f \in Files : /\ doc'[f].row = IF f = ask[q].file THEN "active" ELSE doc[f].row
                       /\ doc'[f].of = IF f = ask[q].file THEN of ELSE doc[f].of
  BY <1>1, <1>3, <1>4, RecordedFacts
<1>6. ask'[q].pc # "committing" /\ \A p \in Askers \ {q} : ask'[p] = ask[p]
  BY <1>1, GoesFacts, EndsFacts DEF Record, RecordAttachment, NoAsk
<1>7. CASE of # t
  <2>1. ActiveOf(t)' = ActiveOf(t)
    BY <1>4, <1>5, <1>7 DEF ActiveOf
  <2>2. SameRows(t)
    BY <1>2, <2>1, MatRowsKept DEF MatInvariant, Live, ActiveCheck
  <2>. QED
    BY <1>2, <1>6, <2>2, AloneKeeps DEF Holds, Owes, SameVerdict
<1>8. CASE of = t
  <2>1. ActiveOf(t)' = ActiveOf(t) \cup {ask[q].file}
    BY <1>4, <1>5, <1>8 DEF ActiveOf
  <2>2. ask'[q].task = t /\ ask'[q].op = "upload" /\ ask'[q].pc = "queueing"
    BY <1>1, <1>3, <1>8, GoesFacts DEF Record
  <2>3. Covered(t)'
    BY <2>1, <2>2 DEF Covered, Queues
  <2>4. Held' = Held /\ HeldChecks' = HeldChecks
    <3>1. \A p \in Askers : ask'[p].pc = "committing" \/ ask[p].pc = "committing" => ask'[p] = ask[p]
      BY <1>2, <1>6
    <3>. QED
      BY <3>1 DEF Held, HeldChecks
  <2>5. ask[q].file \notin Held
    BY <1>1, <1>4, HeldThere
  <2>6. Apart(t)'
    <3>1. Live(t, {})' = Live(t, {})
      BY <1>2 DEF Live, ActiveCheck
    <3>. QED
      BY <1>1, <1>2, <2>1, <2>4, <2>5, <3>1, ApartShrinks
  <2>. QED
    BY <2>3, <2>6 DEF Keeps
<1>. QED
  BY <1>7, <1>8

LEMMA RetestKeeps ==
  ASSUME MatInvariant, Onward, NEW q \in Askers, NEW u \in Reviews, RecordRetest(q)
  PROVE  Keeps(u)
<1>1. AskTyped /\ AsksSound /\ Apart(u)
  BY DEF MatInvariant, Known, HeldApart
<1>2. PICK t \in Reviews : t = ask[q].task
  BY <1>1 DEF AskTyped, Shape, RecordRetest
<1>3. PICK n \in Analyses : NewCheck(n) /\ analysis' = [analysis EXCEPT ![n] = CheckOf(t, "retest", ActiveOf(t)')]
  BY <1>1, <1>2, RetestFacts
<1>4. /\ analysis'[n].status = "queued" /\ analysis'[n].task = t /\ analysis'[n].files = ActiveOf(t)'
      /\ \A r \in Analyses \ {n} : analysis'[r] = analysis[r]
  <2>1. PICK fs : fs = ActiveOf(t)' /\ analysis' = [analysis EXCEPT ![n] = CheckOf(t, "retest", fs)]
    BY <1>3
  <2>. QED
    BY <1>1, <2>1 DEF AskTyped, MatTypeOK, CheckOf
<1>5. /\ \A f \in Files :
           /\ doc'[f].row = IF f \in ask[q].files THEN "replaced"
                            ELSE IF f = ask[q].file /\ doc[f].row = "none" THEN "active"
                            ELSE doc[f].row
           /\ doc'[f].of = IF f \notin ask[q].files /\ f = ask[q].file /\ doc[f].row = "none"
                           THEN t ELSE doc[f].of
      /\ ActiveOf(t)' \cap Held = {}
  BY <1>1, <1>2, RetestFacts
<1>6. Ends(q) /\ UNCHANGED <<review, slipped>> /\ ask[q].pc = "recording" /\ excused \subseteq excused'
  BY DEF RecordRetest
<1>7. /\ ask'[q].pc = "idle" /\ \A p \in Askers \ {q} : ask'[p] = ask[p]
  BY <1>1, <1>6, EndsFacts DEF NoAsk
<1>8. Held' = Held /\ HeldChecks' = HeldChecks
  <2>1. \A p \in Askers : ask'[p].pc = "committing" \/ ask[p].pc = "committing" => ask'[p] = ask[p]
    BY <1>6, <1>7
  <2>. QED
    BY <2>1 DEF Held, HeldChecks
<1>9. CASE u = t
  <2>1. n \notin HeldChecks'
    BY <1>1, <1>3, <1>8, HeldThere DEF NewCheck
  <2>. QED
    BY <1>3, <1>4, <1>5, <1>8, <1>9, <2>1, NewKeeps
<1>10. CASE u # t
  <2>1. Live(u, {})' = Live(u, {}) /\ \A r \in Live(u, {}) : analysis'[r] = analysis[r]
    BY <1>3, <1>4, <1>10 DEF Live, ActiveCheck, NewCheck
  <2>2. ActiveOf(u)' \subseteq ActiveOf(u)
    BY <1>5, <1>10 DEF ActiveOf
  <2>3. Apart(u)'
    BY <1>1, <1>8, <2>1, <2>2, ApartShrinks
  <2>4. ASSUME u \notin excused' \cup slipped' PROVE Keeps(u)
    <3>1. ask[q].files \cap ActiveOf(u) = {}
      BY <1>2, <1>10, <2>4 DEF RecordRetest
    <3>2. ActiveOf(u)' = ActiveOf(u)
      <4>1. \A f \in ActiveOf(u) : f \in ActiveOf(u)'
        BY <1>5, <3>1 DEF ActiveOf
      <4>. QED
        BY <2>2, <4>1
    <3>3. SameRows(u)
      BY <2>1, <3>2, MatRowsKept DEF MatInvariant
    <3>. QED
      BY <1>6, <1>7, <2>4, <3>3, AloneKeeps DEF Holds, Owes, SameVerdict
  <2>. QED
    BY <2>3, <2>4 DEF Keeps
<1>. QED
  BY <1>9, <1>10

LEMMA QueueKeeps ==
  ASSUME MatInvariant, Onward, NEW q \in Askers, NEW u \in Reviews, Queue(q)
  PROVE  Keeps(u)
<1>1. AskTyped /\ AsksSound
  BY DEF MatInvariant, Known
<1>2. Ends(q) /\ UNCHANGED <<doc, excused, slipped>> /\ ask[q].pc = "queueing"
  BY DEF Queue, Histories
<1>3. /\ ask'[q].pc = "idle" /\ \A p \in Askers \ {q} : ask'[p] = ask[p]
  BY <1>1, <1>2, EndsFacts DEF NoAsk
<1>4. CASE UNCHANGED <<analysis, review>> /\ (ask[q].op \notin Batches => ActiveOf(ask[q].task) = {})
  BY <1>2, <1>3, <1>4, RowsStill, AloneKeeps DEF Holds, Owes, SameVerdict, Batches
<1>5. CASE ~(UNCHANGED <<analysis, review>> /\ (ask[q].op \notin Batches => ActiveOf(ask[q].task) = {}))
  <2>1. PICK n \in Analyses, kind \in {"check", "sorts", "resorts"}, fs \in SUBSET Files :
          /\ NewCheck(n) /\ analysis' = [analysis EXCEPT ![n] = CheckOf(ask[q].task, kind, fs)]
          /\ fs \cap Held = {}
          /\ ask[q].op \notin Batches => fs = ActiveOf(ask[q].task)
    BY <1>1, <1>5, QueueFacts
  <2>2. /\ analysis'[n].status = "queued" /\ analysis'[n].task = ask[q].task /\ analysis'[n].files = fs
        /\ \A r \in Analyses \ {n} : analysis'[r] = analysis[r]
    BY <1>1, <2>1 DEF AskTyped, MatTypeOK, CheckOf
  <2>3. CASE u = ask[q].task
    <3>1. ask[q].op \notin Batches
      BY <1>1, <1>2, <2>3 DEF AskTyped, Shape, MaterialAssumption
    <3>2. fs = ActiveOf(u)'
      BY <1>2, <2>1, <2>3, <3>1 DEF ActiveOf
    <3>3. Held' = Held /\ HeldChecks' = HeldChecks
      <4>1. \A p \in Askers : ask'[p].pc = "committing" \/ ask[p].pc = "committing" => ask'[p] = ask[p]
        BY <1>2, <1>3
      <4>. QED
        BY <4>1 DEF Held, HeldChecks
    <3>4. n \notin HeldChecks'
      BY <1>1, <2>1, <3>3, HeldThere DEF NewCheck
    <3>. QED
      BY <2>1, <2>2, <2>3, <3>2, <3>3, <3>4, NewKeeps
  <2>4. CASE u # ask[q].task
    <3>1. Live(u, {})' = Live(u, {}) /\ \A r \in Live(u, {}) : analysis'[r] = analysis[r]
      BY <2>1, <2>2, <2>4 DEF Live, ActiveCheck, NewCheck
    <3>2. SameRows(u)
      <4>1. ActiveOf(u)' = ActiveOf(u)
        BY <1>2 DEF ActiveOf
      <4>. QED
        BY <3>1, <4>1, MatRowsKept DEF MatInvariant
    <3>3. review'[u] = review[u]
      BY <1>1, <2>4 DEF Queue, AskTyped, MatTypeOK
    <3>. QED
      BY <1>2, <1>3, <2>4, <3>2, <3>3, AloneKeeps DEF Holds, Owes, SameVerdict
  <2>. QED
    BY <2>3, <2>4
<1>. QED
  BY <1>4, <1>5

LEMMA DropKeeps ==
  ASSUME MatInvariant, Onward, NEW q \in Askers, NEW t \in Reviews, Drop(q)
  PROVE  Keeps(t)
<1>1. AskTyped /\ Apart(t)
  BY DEF MatInvariant, Known, HeldApart
<1>2. ask[q].pc = "dropping" /\ UNCHANGED <<review, slipped>> /\ excused \subseteq excused'
  BY DEF Drop
<1>3. CASE ~ \A f \in ask[q].files : Stands(f)
  <2>1. Ends(q) /\ UNCHANGED <<doc, analysis>>
    BY <1>3 DEF Drop
  <2>2. /\ ask'[q].pc = "idle" /\ \A p \in Askers \ {q} : ask'[p] = ask[p]
    BY <1>1, <2>1, EndsFacts DEF NoAsk
  <2>. QED
    BY <1>2, <2>1, <2>2, RowsStill, AloneKeeps DEF Holds, Owes, SameVerdict
<1>4. CASE \A f \in ask[q].files : Stands(f)
  <2>1. Dropped(ask[q].files, {})
    BY <1>4 DEF Drop
  <2>2. /\ \A f \in Files : /\ doc'[f].row = IF f \in ask[q].files THEN "deleted" ELSE doc[f].row
                            /\ doc'[f].of = doc[f].of
        /\ \A r \in Analyses :
             /\ analysis'[r].status = analysis[r].status /\ analysis'[r].task = analysis[r].task
             /\ analysis'[r].read = analysis[r].read
             /\ analysis'[r].files = analysis[r].files \ ask[q].files
    BY <1>1, <2>1, DroppedFacts
  <2>3. ActiveOf(t)' = ActiveOf(t) \ ask[q].files
    BY <2>2 DEF ActiveOf
  <2>4. /\ ask'[q].pc # "committing" /\ \A p \in Askers \ {q} : ask'[p] = ask[p]
        /\ ask[q].task = t =>
             /\ ask'[q].task = t /\ ask'[q].op = "delete"
             /\ ask'[q].pc = IF ActiveOf(t) \ ask[q].files = {} THEN "erasing" ELSE "queueing"
    <3>1. CASE ask[q].op = "detach"
      <4>1. Ends(q) /\ ask[q].task # t
        BY <1>1, <1>2, <1>4, <3>1 DEF Drop, AskTyped, Shape, MaterialAssumption
      <4>. QED
        BY <1>1, <4>1, EndsFacts DEF NoAsk
    <3>2. CASE ask[q].op # "detach"
      <4>. DEFINE pc == IF ActiveOf(ask[q].task) \ ask[q].files = {} THEN "erasing" ELSE "queueing"
      <4>1. Becomes(q, [ask[q] EXCEPT !.files = {}, !.pc = pc])
        BY <1>4, <3>2 DEF Drop
      <4>2. pc # "committing" /\ (ask[q].task = t =>
                                    pc = IF ActiveOf(t) \ ask[q].files = {} THEN "erasing" ELSE "queueing")
        OBVIOUS
      <4>. HIDE DEF pc
      <4>3. /\ ask'[q].pc = pc /\ ask'[q].task = ask[q].task /\ ask'[q].op = ask[q].op
            /\ \A p \in Askers \ {q} : ask'[p] = ask[p]
        BY <1>1, <4>1 DEF Becomes, AskTyped, MatTypeOK, AskRow
      <4>4. ask[q].op = "delete"
        BY <1>1, <1>2, <3>2 DEF AskTyped, Shape
      <4>. QED
        BY <4>2, <4>3, <4>4
    <3>. QED
      BY <3>1, <3>2
  <2>5. Apart(t)'
    <3>1. Held' = Held /\ HeldChecks' = HeldChecks
      <4>1. \A p \in Askers : ask'[p].pc = "committing" \/ ask[p].pc = "committing" => ask'[p] = ask[p]
        BY <1>2, <2>4
      <4>. QED
        BY <4>1 DEF Held, HeldChecks
    <3>2. Live(t, {})' = Live(t, {})
      BY <2>2 DEF Live, ActiveCheck
    <3>3. \A r \in Live(t, {}) : analysis'[r].status = analysis[r].status
      BY <2>2 DEF Live
    <3>. QED
      BY <1>1, <2>3, <3>1, <3>2, <3>3, ApartShrinks
  <2>6. CASE ask[q].task = t
    <3>1. CASE ActiveOf(t) \ ask[q].files = {}
      <4>1. Deletes(t, {"erasing"})' /\ Settles(t)' /\ Deletes(t, {"erasing", "committing"})'
        BY <2>4, <2>6, <3>1 DEF Deletes, Settles
      <4>. QED
        BY <2>5, <4>1 DEF Keeps, Covered
    <3>2. CASE ActiveOf(t) \ ask[q].files # {}
      <4>1. Queues(t)' /\ ActiveOf(t)' # {}
        BY <2>3, <2>4, <2>6, <3>2 DEF Queues
      <4>. QED
        BY <2>5, <4>1 DEF Keeps, Covered
    <3>. QED
      BY <3>1, <3>2
  <2>7. ASSUME ask[q].task # t, t \notin excused' \cup slipped' PROVE Keeps(t)
    <3>1. ask[q].files \cap ActiveOf(t) = {}
      BY <2>7 DEF Drop
    <3>2. ActiveOf(t)' = ActiveOf(t)
      BY <2>3, <3>1
    <3>3. SameRows(t)
      BY <2>2, <3>1, <3>2, MatRowsKept DEF MatInvariant, Live
    <3>. QED
      BY <1>2, <2>4, <2>7, <3>3, AloneKeeps DEF Holds, Owes, SameVerdict
  <2>. QED
    BY <2>5, <2>6, <2>7 DEF Keeps
<1>. QED
  BY <1>3, <1>4

LEMMA EraseKeeps ==
  ASSUME MatInvariant, Onward, NEW q \in Askers, NEW t \in Reviews, Erase(q)
  PROVE  Keeps(t)
<1>1. Known /\ AskTyped /\ (t \notin excused \cup slipped => Covered(t))
  BY DEF MatInvariant, Known, DocumentsCovered
<1>2. UNCHANGED <<doc, analysis, review, excused, slipped>> /\ ask[q].pc = "erasing"
  BY DEF Erase
<1>3. /\ ask'[q].pc = "committing" /\ ask'[q].files = Erased(q) /\ ask'[q].checks = Dismissed(q)
      /\ ask'[q].op = ask[q].op /\ ask'[q].task = ask[q].task
      /\ \A p \in Askers \ {q} : ask'[p] = ask[p]
  BY <1>1, EraseFacts
<1>4. SameRows(t)
  BY <1>2, RowsStill
<1>5. CASE t \notin Scope(q)
  <2>1. ActiveOf(t) \cap Erased(q) = {} /\ Live(t, {}) \cap Dismissed(q) = {}
    BY <1>1, <1>5, EraseOwns
  <2>2. ~Holds(q, t) /\ ~Owes(q, t)
    BY <1>1, <1>2, <1>5 DEF Holds, Owes, Scope, MaterialAssumption
  <2>. QED
    BY <1>2, <1>3, <1>4, <2>1, <2>2, AloneKeeps DEF SameVerdict
<1>6. CASE t \in Scope(q)
  <2>1. Live(t, {}) \subseteq Dismissed(q) /\ Live(t, {})' = Live(t, {})
    BY <1>1, <1>4, <1>6, EraseOwns DEF SameRows
  <2>2. Live(t, HeldChecks)' = {}
    <3>1. \A r \in Dismissed(q) : r \in HeldChecks'
      BY <1>3, HeldFacts
    <3>. QED
      BY <2>1, <3>1, LiveFacts
  <2>3. Apart(t)'
    BY <2>2 DEF Apart
  <2>4. ASSUME t \notin excused' \cup slipped' PROVE Covered(t)'
    <3>1. Covered(t)
      BY <1>1, <1>2, <2>4
    <3>2. Queues(t) => Queues(t)'
      BY <1>2, <1>3 DEF Queues
    <3>3. Deletes(t, {"erasing", "committing"}) => Deletes(t, {"erasing", "committing"})'
      BY <1>2, <1>3 DEF Deletes
    <3>4. CASE ask[q].op = "delete" /\ Live(t, {}) # {}
      <4>1. ask[q].task = t
        BY <1>1, <1>2, <1>6, <3>4 DEF Scope, AskTyped, Shape, MaterialAssumption
      <4>2. PICK r \in Analyses : r \in Live(t, {})
        BY <3>4 DEF Live
      <4>3. r \in Dismissed(q) /\ ActiveCheck(r)' /\ analysis'[r].task = t
        BY <1>2, <2>1, <4>2 DEF Live, ActiveCheck
      <4>4. Holds(q, t)'
        BY <1>3, <4>3 DEF Holds
      <4>5. Settles(t)'
        BY <1>3, <3>4, <4>1, <4>4 DEF Settles
      <4>. QED
        BY <2>1, <2>2, <3>4, <4>5 DEF Covered, Current
    <3>5. CASE Live(t, {}) = {}
      <4>1. Current(t, {})' /\ Current(t, HeldChecks)'
        BY <2>1, <2>2, <3>5 DEF Current
      <4>. QED
        BY <1>2, <1>4, <3>1, <3>2, <3>3, <3>5, <4>1 DEF Covered, SameRows
    <3>6. CASE ask[q].op # "delete" /\ Live(t, {}) # {}
      <4>1. Settles(t) => Settles(t)'
        <5>1. Deletes(t, {"erasing"}) => Deletes(t, {"erasing"})'
          BY <1>3, <3>6 DEF Deletes
        <5>2. ASSUME NEW p \in Askers, ask[p].task = t, ask[p].op = "delete", Holds(p, t)
              PROVE  Settles(t)'
          <6>1. p # q
            BY <3>6, <5>2
          <6>. QED
            BY <1>1, <1>3, <1>4, <5>2, <6>1, HoldsKept DEF Settles
        <5>. QED
          BY <5>1, <5>2 DEF Settles
      <4>2. Current(t, {}) => Current(t, {})'
        BY <1>4 DEF SameRows, Current
      <4>3. Current(t, HeldChecks)'
        BY <2>2 DEF Current
      <4>. QED
        BY <1>4, <2>1, <3>1, <3>2, <3>6, <4>1, <4>2, <4>3 DEF Covered, SameRows
    <3>. QED
      BY <3>4, <3>5, <3>6
  <2>. QED
    BY <2>3, <2>4 DEF Keeps
<1>. QED
  BY <1>5, <1>6

LEMMA CommitKeeps ==
  ASSUME MatInvariant, Onward, NEW q \in Askers, NEW t \in Reviews, Commit(q)
  PROVE  Keeps(t)
<1>. DEFINE fs == ask[q].files
            rs == ask[q].checks
<1>1. /\ Known /\ AskTyped /\ Apart(t) /\ (t \notin excused \cup slipped => Covered(t))
      /\ ask[q].pc = "committing"
  BY DEF MatInvariant, Known, HeldApart, DocumentsCovered, Commit
<1>2. /\ \A f \in Files : /\ doc'[f].row = IF f \in fs THEN "deleted" ELSE doc[f].row
                          /\ doc'[f].of = doc[f].of
      /\ \A r \in Analyses :
           IF r \in rs THEN analysis'[r].status = "deleted"
           ELSE /\ analysis'[r].status = analysis[r].status /\ analysis'[r].task = analysis[r].task
                /\ analysis'[r].read = analysis[r].read /\ analysis'[r].files = analysis[r].files \ fs
  <2>1. Dropped(fs, rs)
    BY DEF Commit
  <2>. QED
    BY <1>1, <2>1, DroppedFacts
<1>3. ask'[q].pc = "idle" /\ \A p \in Askers \ {q} : ask'[p] = ask[p]
  BY <1>1, EndsFacts DEF Commit, NoAsk
<1>4. ActiveOf(t)' = ActiveOf(t) \ fs /\ Live(t, {})' = Live(t, {}) \ rs
  BY <1>2 DEF ActiveOf, Live, ActiveCheck
<1>5. \A r \in Live(t, {})' : r \in Analyses \ rs /\ analysis'[r].status = analysis[r].status
  BY <1>2, <1>4 DEF Live
<1>6. Apart(t)'
  <2>1. \A r \in Live(t, {})' : r \notin HeldChecks' => r \in Live(t, {}) \ HeldChecks
    BY <1>3, <1>4, HeldFacts
  <2>2. \A f : f \in Held' => f \in Held
    BY <1>3, HeldFacts
  <2>. QED
    BY <1>1, <1>4, <1>5, <2>1, <2>2, ApartShrinks
<1>7. Holds(q, t) <=> fs \cap ActiveOf(t) # {} \/ rs \cap Live(t, {}) # {}
  <2>1. rs \subseteq Analyses
    BY <1>1 DEF AskTyped, MatTypeOK, AskRow
  <2>. QED
    BY <1>1, <2>1, HoldsRows
<1>8. ~Holds(q, t) => SameRows(t) /\ SameHeld(t)
  BY <1>1, <1>2, <1>3, <1>4, <1>7, MatRowsKept, HeldKept
<1>9. CASE t \notin Scope(q)
  <2>1. ~Holds(q, t)
    <3>1. \A f \in fs : doc[f].of # t
      BY <1>1, <1>9 DEF MatInvariant, HoldersSound
    <3>2. \A r \in rs : ActiveCheck(r) => analysis[r].task # t
      BY <1>1, <1>9 DEF MatInvariant, HoldersSound, MaterialAssumption
    <3>. QED
      BY <3>1, <3>2 DEF Holds, ActiveOf
  <2>2. ~Owes(q, t)
    BY <1>1, <1>9 DEF Owes, Scope, MaterialAssumption
  <2>3. SameVerdict(t) /\ (t \notin excused' \cup slipped' => t \notin excused \cup slipped)
    BY <1>9 DEF Commit, Reset, SameVerdict
  <2>. QED
    BY <1>3, <1>8, <2>1, <2>2, <2>3, AloneKeeps
<1>10. CASE t \in Scope(q)
  <2>1. ASSUME t \notin excused' \cup slipped' PROVE Covered(t)'
    <3>1. review'[t].status = "todo" /\ t \notin slipped
      BY <1>10, <2>1 DEF Commit, Reset, Slips
    <3>2. CASE t \in excused
      <4>1. Live(t, {})' = {}
        BY <1>4, <1>10, <2>1, <3>2 DEF Commit, Analysed, Live
      <4>. QED
        BY <3>1, <4>1, LiveFacts DEF Covered, Current
    <3>3. ASSUME ~Holds(q, t), Covered(t) PROVE Covered(t)'
      <4>1. Deletes(t, {"erasing"}) => Deletes(t, {"erasing"})'
        BY <1>1, <1>3 DEF Deletes
      <4>2. ASSUME NEW p \in Askers, ask[p].task = t, ask[p].op = "delete", Holds(p, t)
            PROVE  Settles(t)'
        <5>1. p # q
          BY <3>3, <4>2
        <5>. QED
          BY <1>1, <1>3, <1>8, <3>3, <4>2, <5>1, HoldsKept DEF Settles
      <4>3. Settles(t) => Settles(t)'
        BY <4>1, <4>2 DEF Settles
      <4>4. Queues(t) => Queues(t)'
        BY <1>1, <1>3 DEF Queues
      <4>. QED
        BY <1>8, <3>1, <3>3, <4>1, <4>3, <4>4, CurrentKept DEF Covered, SameRows
    <3>4. ASSUME Holds(q, t), Covered(t) PROVE Covered(t)'
      <4>1. \A p \in Askers : Holds(p, t) => p = q
        BY <3>4 DEF MatInvariant, HoldersSound
      <4>2. ASSUME NEW r \in Live(t, {}) \ rs PROVE r \notin HeldChecks
        <5>1. ASSUME NEW p \in Askers, ask[p].pc = "committing", r \in ask[p].checks PROVE FALSE
          BY <4>1, <5>1 DEF Holds, Live
        <5>. QED
          BY <5>1, HeldFacts
      <4>3. Live(t, HeldChecks) = Live(t, {}) \ rs
        <5>1. \A r \in rs : r \in HeldChecks
          BY <1>1, HeldFacts
        <5>. QED
          BY <4>2, <5>1, LiveFacts
      <4>4. Live(t, HeldChecks)' = Live(t, {})'
        <5>1. \A r : r \in HeldChecks' => r \in HeldChecks
          BY <1>3, HeldFacts
        <5>. QED
          BY <1>4, <4>2, <5>1, LiveFacts
      <4>5. Current(t, {})' \/ (ActiveOf(t)' = ActiveOf(t) /\ (Current(t, HeldChecks) => Current(t, {})'))
        <5>1. CASE fs \cap ActiveOf(t) = {}
          <6>1. ActiveOf(t)' = ActiveOf(t)
            BY <1>4, <5>1
          <6>2. ASSUME NEW r \in Live(t, HeldChecks), Covers(r, t) PROVE Covers(r, t)'
            <7>1. r \in Analyses /\ r \notin rs
              BY <4>3 DEF Live
            <7>. QED
              BY <1>1, <1>2, <5>1, <6>1, <6>2, <7>1, CoversKept
          <6>. QED
            BY <1>4, <1>5, <4>3, <6>1, <6>2 DEF Current
        <5>2. CASE fs \cap ActiveOf(t) # {}
          <6>1. ActiveOf(t) \cap Held # {}
            BY <1>1, <5>2, HeldFacts
          <6>2. \A r \in Live(t, HeldChecks) : analysis[r].status = "sorting"
            BY <1>1, <6>1 DEF Apart
          <6>. QED
            BY <1>4, <1>5, <4>3, <6>2 DEF Current
        <5>. QED
          BY <5>1, <5>2
      <4>6. Deletes(t, {"erasing"}) => Deletes(t, {"erasing"})' /\ Settles(t)'
        BY <1>1, <1>3 DEF Deletes, Settles
      <4>7. Queues(t) => Queues(t)'
        BY <1>1, <1>3 DEF Queues
      <4>8. Current(t, HeldChecks)' <=> Current(t, {})'
        BY <4>4 DEF Current
      <4>. QED
        BY <1>4, <3>1, <3>4, <4>5, <4>6, <4>7, <4>8 DEF Covered
    <3>. QED
      BY <1>1, <3>1, <3>2, <3>3, <3>4
  <2>. QED
    BY <1>6, <2>1 DEF Keeps
<1>. QED
  BY <1>9, <1>10

LEMMA DieKeeps ==
  ASSUME MatInvariant, Onward, NEW q \in Askers, NEW t \in Reviews, Die(q)
  PROVE  Keeps(t)
<1>1. AskTyped /\ (t \notin excused \cup slipped => Covered(t))
  BY DEF MatInvariant, Known, DocumentsCovered
<1>2. UNCHANGED <<doc, analysis, review, slipped>> /\ excused \subseteq excused'
  BY DEF Die
<1>3. ask'[q].pc = "idle" /\ \A p \in Askers \ {q} : ask'[p] = ask[p]
  BY <1>1, EndsFacts DEF Die, NoAsk
<1>4. SameRows(t) /\ SameVerdict(t)
  BY <1>2, RowsStill DEF SameVerdict
<1>5. t \notin excused' => ~Owes(q, t)
  BY DEF Die, Owes
<1>6. CASE ~Holds(q, t)
  BY <1>2, <1>3, <1>4, <1>5, <1>6, AloneKeeps
<1>7. CASE Holds(q, t)
  <2>1. ask[q].pc = "committing" /\ \A p \in Askers \ {q} : ~Holds(p, t)
    BY <1>7 DEF MatInvariant, HoldersSound, Holds
  <2>2. \A f \in ActiveOf(t) : f \notin Held'
    <3>1. ASSUME NEW f \in ActiveOf(t), NEW p \in Askers, ask'[p].pc = "committing", f \in ask'[p].files
          PROVE  FALSE
      BY <1>3, <2>1, <3>1 DEF Holds
    <3>. QED
      BY <3>1, HeldFacts
  <2>3. \A r \in Live(t, {}) : r \notin HeldChecks'
    <3>1. ASSUME NEW r \in Live(t, {}), NEW p \in Askers, ask'[p].pc = "committing", r \in ask'[p].checks
          PROVE  FALSE
      BY <1>3, <2>1, <3>1 DEF Holds, Live
    <3>. QED
      BY <3>1, HeldFacts
  <2>4. Apart(t)'
    BY <1>4, <2>2 DEF Apart, SameRows
  <2>5. ASSUME t \notin excused' \cup slipped' PROVE Covered(t)'
    <3>1. Covered(t) /\ ~Owes(q, t)
      BY <1>1, <1>2, <1>5, <2>5
    <3>2. ASSUME NEW pcs \in SUBSET {"erasing", "committing"}, Deletes(t, pcs) PROVE Deletes(t, pcs)'
      BY <1>3, <3>1, <3>2 DEF Deletes, Owes
    <3>3. Settles(t) => Deletes(t, {"erasing"})'
      <4>1. ASSUME NEW p \in Askers, ask[p].task = t, ask[p].op = "delete", Holds(p, t)
            PROVE  FALSE
        BY <2>1, <3>1, <4>1 DEF Owes
      <4>. QED
        BY <3>2, <4>1 DEF Settles
    <3>4. Queues(t) => Queues(t)'
      BY <1>3, <2>1 DEF Queues
    <3>5. Live(t, HeldChecks)' = Live(t, {})'
      BY <1>4, <2>3, LiveFacts DEF SameRows
    <3>6. Current(t, {}) => Current(t, {})' /\ Current(t, HeldChecks)'
      <4>1. Current(t, {}) => Current(t, {})'
        BY <1>4 DEF Current, SameRows
      <4>. QED
        BY <3>5, <4>1 DEF Current
    <3>7. Deletes(t, {"erasing"})' => Settles(t)'
      BY DEF Settles
    <3>8. Deletes(t, {"erasing", "committing"}) => Deletes(t, {"erasing", "committing"})'
      BY <3>2
    <3>. QED
      BY <1>2, <1>4, <3>1, <3>3, <3>4, <3>6, <3>7, <3>8 DEF Covered, SameRows
  <2>. QED
    BY <2>4, <2>5 DEF Keeps
<1>. QED
  BY <1>6, <1>7

\* No analysis of the task is left, and it has no verdict.
LEMMA BlankKeeps ==
  ASSUME NEW t, Live(t, {})' = {}, t \notin excused' \cup slipped' => review'[t].status # "completed"
  PROVE  Keeps(t)
<1>1. Live(t, HeldChecks)' = {}
  BY LiveFacts
<1>. QED
  BY <1>1 DEF Keeps, Covered, Current, Apart

\* The purges of all documents leave no analysis, a purge of attachments no trace.
LEMMA PurgeKeeps ==
  ASSUME MatInvariant, Onward, NEW q \in Askers, NEW t \in Reviews, Purge(q)
  PROVE  Keeps(t)
<1>1. AskTyped /\ AskSound(q) /\ ask[q].pc = "purging" /\ ask[q] \in AskRow
  BY DEF MatInvariant, Known, AsksSound, Purge, AskTyped, MatTypeOK
<1>2. CASE ask[q].op # "discard"
  <2>1. Dropped(Doomed(q), {r \in Analyses : analysis[r].status # "none"})
    BY <1>2 DEF Purge
  <2>2. \A r \in Analyses : analysis'[r].status \in {"none", "deleted"}
    BY <1>1, <2>1, DroppedFacts
  <2>3. Live(t, {})' = {}
    BY <2>2 DEF Live, ActiveCheck
  <2>4. t \notin slipped' => review'[t].status # "completed"
    BY <1>2 DEF Purge, Reset, Slips
  <2>. QED
    BY <2>3, <2>4, BlankKeeps
<1>3. CASE ask[q].op = "discard"
  <2>1. Dropped(Doomed(q), {})
    BY <1>3 DEF Purge
  <2>2. \A f \in Doomed(q) : f \in Files /\ doc[f].of = "finding"
    BY <1>1, <1>3 DEF Doomed, AskSound, AskRow
  <2>3. ActiveOf(t)' = ActiveOf(t)
    BY <1>1, <2>1, <2>2, DroppedFacts DEF ActiveOf, MaterialAssumption
  <2>4. \A r \in Analyses : /\ analysis'[r].status = analysis[r].status
                            /\ analysis'[r].task = analysis[r].task /\ analysis'[r].read = analysis[r].read
                            /\ analysis'[r].files = analysis[r].files \ Doomed(q)
    BY <1>1, <2>1, DroppedFacts
  <2>5. Doomed(q) \cap ActiveOf(t) = {}
    BY <2>2 DEF ActiveOf, MaterialAssumption
  <2>6. SameRows(t)
    BY <2>3, <2>4, <2>5, MatRowsKept DEF MatInvariant
  <2>7. ask'[q].pc = "cleaning" /\ \A p \in Askers \ {q} : ask'[p] = ask[p]
    BY <1>1, <1>3, GoesFacts DEF Purge
  <2>8. /\ review'[t] = review[t]
        /\ t \notin excused' \cup slipped' => t \notin excused \cup slipped
    BY <1>3 DEF Purge, Reset, Slips
  <2>. QED
    BY <1>1, <2>6, <2>7, <2>8, AloneKeeps DEF Holds, Owes, SameVerdict
<1>. QED
  BY <1>2, <1>3

LEMMA RebuildKeeps ==
  ASSUME MatInvariant, NEW q \in Askers, NEW t \in Reviews, Rebuild(q)
  PROVE  Keeps(t)
<1>1. \A r \in Analyses : analysis'[r].status \in {"none", "deleted"}
  BY DEF Rebuild, NoCheck
<1>2. Live(t, {})' = {} /\ review'[t].status # "completed"
  BY <1>1 DEF Live, ActiveCheck, Rebuild
<1>. QED
  BY <1>2, BlankKeeps

LEMMA StartKeeps ==
  ASSUME MatInvariant, NEW r \in Analyses, NEW t \in Reviews, Start(r)
  PROVE  Keeps(t)
<1>1. AskTyped
  BY DEF MatInvariant, Known
<1>2. /\ analysis'[r].status = "running" /\ analysis'[r].task = analysis[r].task
      /\ analysis'[r].read = {f \in analysis[r].files : doc[f].row = "active"}
      /\ \A p \in Analyses \ {r} : analysis'[p] = analysis[p]
  BY <1>1, StartFacts
<1>3. UNCHANGED <<doc, ask, review, excused, slipped>> /\ analysis[r].status = "queued"
  BY DEF Start, Histories
<1>4. Live(t, {})' = Live(t, {})
  BY <1>2, <1>3 DEF Live, ActiveCheck
<1>5. ActiveOf(t)' = ActiveOf(t)
  BY <1>3 DEF ActiveOf
<1>6. ASSUME NEW p \in Live(t, {})
      PROVE  /\ analysis'[p].status = "sorting" <=> analysis[p].status = "sorting"
             /\ Covers(p, t) => Covers(p, t)'
  <2>1. CASE p = r
    BY <1>2, <1>3, <1>5, <2>1 DEF Covers
  <2>2. CASE p # r
    BY <1>2, <1>3, <1>5, <2>2 DEF Covers, Live
  <2>. QED
    BY <2>1, <2>2
<1>7. SameRows(t)
  BY <1>4, <1>5, <1>6 DEF SameRows
<1>. QED
  BY <1>3, <1>7, StillKeeps DEF SameVerdict

\* A closed analysis leaves the others as they are.
LEMMA OthersKeep ==
  ASSUME MatInvariant, Onward, NEW r \in Analyses, NEW t \in Reviews, analysis[r].task # t,
         analysis' = Closed(r), UNCHANGED <<doc, ask>>,
         t \notin excused' \cup slipped' => SameVerdict(t) /\ t \notin excused \cup slipped
  PROVE  Keeps(t)
<1>1. Known /\ AskTyped
  BY DEF MatInvariant, Known
<1>2. analysis'[r].task = analysis[r].task /\ \A p \in Analyses \ {r} : analysis'[p] = analysis[p]
  BY <1>1, ClosedFacts
<1>3. ActiveOf(t)' = ActiveOf(t)
  BY DEF ActiveOf
<1>4. SameRows(t)
  BY <1>1, <1>2, <1>3, MatRowsKept DEF Live
<1>. QED
  BY <1>4, StillKeeps

LEMMA ClosedApart ==
  ASSUME MatInvariant, NEW r \in Analyses, NEW t \in Reviews, ActiveCheck(r),
         analysis' = Closed(r), UNCHANGED <<doc, ask>>
  PROVE  Apart(t)'
<1>1. AskTyped /\ Apart(t)
  BY DEF MatInvariant, Known, HeldApart
<1>2. analysis'[r].status = "ended" /\ \A p \in Analyses \ {r} : analysis'[p] = analysis[p]
  BY <1>1, ClosedFacts
<1>3. Live(t, {})' = Live(t, {}) \ {r} /\ Held' = Held /\ HeldChecks' = HeldChecks /\ ActiveOf(t)' = ActiveOf(t)
  BY <1>2 DEF Live, ActiveCheck, Held, HeldChecks, ActiveOf
<1>4. \A p \in Live(t, {})' : analysis'[p] = analysis[p]
  BY <1>2, <1>3 DEF Live
<1>. QED
  BY <1>1, <1>3, <1>4, ApartShrinks

\* When the analysis that is running ends, the last one is still about the documents.
LEMMA CurrentCloses ==
  ASSUME ChecksSound, NEW r \in Analyses, NEW t, analysis[r].status = "running",
         UNCHANGED doc, \A p \in Analyses \ {r} : analysis'[p] = analysis[p],
         NEW L \in SUBSET Analyses, \A p \in L : ActiveCheck(p),
         \/ \E p \in L : analysis[p].status = "sorting"
         \/ \E n \in L : Covers(n, t) /\ \A p \in L : p <= n,
         L \ {r} # {}
  PROVE  \E n \in L \ {r} : Covers(n, t)' /\ \A p \in L \ {r} : p <= n
<1>1. \A p \in L \ {r} : p > r /\ analysis[p].status = "queued"
  BY DEF ChecksSound, CheckInOrder, Busy, ActiveCheck
<1>2. PICK n \in L : Covers(n, t) /\ \A p \in L : p <= n
  BY <1>1
<1>3. n # r
  <2>1. PICK p \in L : p # r
    OBVIOUS
  <2>. QED
    BY <1>1, <1>2, <2>1 DEF Analyses
<1>. QED
  BY <1>2, <1>3 DEF Covers, ActiveOf

LEMMA JudgeKeeps ==
  ASSUME MatInvariant, Onward, NEW r \in Analyses, NEW t \in Reviews, Judge(r) \/ CannotTell(r)
  PROVE  Keeps(t)
<1>1. Known /\ AskTyped /\ ChecksSound /\ (t \notin excused \cup slipped => Covered(t))
  BY DEF MatInvariant, Known, DocumentsCovered
<1>2. /\ analysis' = Closed(r) /\ ActiveCheck(r) /\ r \notin HeldChecks
      /\ UNCHANGED <<doc, ask, slipped>> /\ analysis[r].status = "running"
  BY ClosingFacts DEF Judge, CannotTell, Doing, Histories
<1>3. analysis'[r].status = "ended" /\ \A p \in Analyses \ {r} : analysis'[p] = analysis[p]
  BY <1>1, <1>2, ClosedFacts
<1>4. CASE analysis[r].task # t
  <2>1. SameVerdict(t)
    BY <1>1, <1>4 DEF Judge, CannotTell, Verdict, SameVerdict, AskTyped, MatTypeOK
  <2>2. t \notin excused' => t \notin excused
    BY <1>4 DEF Judge, CannotTell, Histories
  <2>. QED
    BY <1>2, <1>4, <2>1, <2>2, OthersKeep
<1>5. CASE analysis[r].task = t
  <2>1. Apart(t)'
    BY <1>2, ClosedApart
  <2>2. Live(t, {})' = Live(t, {}) \ {r} /\ HeldChecks' = HeldChecks /\ ActiveOf(t)' = ActiveOf(t)
    BY <1>2, <1>3 DEF Live, ActiveCheck, HeldChecks, ActiveOf
  <2>3. \/ review'[t].status = "failed"
        \/ review'[t] = [status |-> "completed", corpus |-> analysis[r].read]
    BY <1>1, <1>5 DEF Judge, CannotTell, Verdict, AskTyped, MatTypeOK
  <2>4. ASSUME t \notin excused' \cup slipped', t \in excused PROVE Covered(t)'
    <3>1. Judge(r) /\ analysis[r].read = ActiveOf(t) /\ ~Analysed(t, {r})
      BY <1>5, <2>4 DEF Judge, CannotTell, Histories
    <3>2. Live(t, {})' = {}
      BY <2>2, <3>1 DEF Live, Analysed
    <3>3. Live(t, HeldChecks)' = {}
      BY <3>2, LiveFacts
    <3>. QED
      BY <2>2, <2>3, <3>1, <3>2, <3>3 DEF Covered, Current
  <2>5. ASSUME Covered(t) PROVE Covered(t)'
    <3>1. Live(t, HeldChecks)' = Live(t, HeldChecks) \ {r} /\ r \in Live(t, HeldChecks) /\ r \in Live(t, {})
      BY <1>2, <1>5, <2>2, LiveFacts DEF Live
    <3>2. Settles(t) => Settles(t)'
      <4>1. ASSUME NEW p \in Askers, Holds(p, t) PROVE Holds(p, t)'
        <5>1. ask[p].checks \subseteq Analyses /\ (ask[p].pc = "committing" => r \notin ask[p].checks)
          BY <1>1, <1>2, HeldFacts DEF AskTyped, MatTypeOK, AskRow
        <5>. QED
          BY <1>2, <1>3, <2>2, <4>1, <5>1 DEF Holds, ActiveCheck
      <4>. QED
        BY <1>2, <4>1 DEF Settles, Deletes
    <3>3. Current(t, {}) => Current(t, {})'
      <4>. DEFINE L == Live(t, {})
      <4>1. L \subseteq Analyses /\ \A p \in L : ActiveCheck(p)
        BY DEF Live
      <4>. HIDE DEF L
      <4>2. ASSUME L \ {r} # {}, Current(t, {})
            PROVE  \E n \in L \ {r} : Covers(n, t)' /\ \A p \in L \ {r} : p <= n
        <5>1. \/ \E p \in L : analysis[p].status = "sorting"
              \/ \E n \in L : Covers(n, t) /\ \A p \in L : p <= n
          BY <4>2 DEF Current, L
        <5>. QED
          BY <1>1, <1>2, <1>3, <4>1, <4>2, <5>1, CurrentCloses
      <4>. QED
        BY <2>2, <4>2 DEF Current, L
    <3>4. Current(t, HeldChecks) => Current(t, HeldChecks)'
      <4>. DEFINE L == Live(t, HeldChecks)
      <4>1. L \subseteq Analyses /\ \A p \in L : ActiveCheck(p)
        BY DEF Live
      <4>. HIDE DEF L
      <4>2. ASSUME L \ {r} # {}, Current(t, HeldChecks)
            PROVE  \E n \in L \ {r} : Covers(n, t)' /\ \A p \in L \ {r} : p <= n
        <5>1. \/ \E p \in L : analysis[p].status = "sorting"
              \/ \E n \in L : Covers(n, t) /\ \A p \in L : p <= n
          BY <4>2 DEF Current, L
        <5>. QED
          BY <1>1, <1>2, <1>3, <4>1, <4>2, <5>1, CurrentCloses
      <4>. QED
        BY <3>1, <4>2 DEF Current, L
    <3>5. ASSUME Live(t, {})' = {}, Current(t, HeldChecks) PROVE analysis[r].read = ActiveOf(t)
      <4>1. Live(t, HeldChecks) = {r}
        BY <2>2, <3>1, <3>5, LiveFacts
      <4>2. Covers(r, t)
        BY <1>2, <3>5, <4>1 DEF Current
      <4>. QED
        BY <1>2, <4>2 DEF Covers
    <3>6. UNCHANGED <<Deletes(t, {"erasing"}), Deletes(t, {"erasing", "committing"}), Queues(t)>>
      BY <1>2 DEF Deletes, Queues
    <3>7. Deletes(t, {"erasing"}) => Deletes(t, {"erasing", "committing"})
      BY DEF Deletes
    <3>. QED
      BY <2>2, <2>3, <2>5, <3>2, <3>3, <3>4, <3>5, <3>6, <3>7 DEF Covered
  <2>. QED
    BY <1>1, <1>2, <2>1, <2>4, <2>5 DEF Keeps
<1>. QED
  BY <1>4, <1>5

\* An analysis that ends without a verdict excuses its task.
LEMMA StopKeeps ==
  ASSUME MatInvariant, Onward, NEW r \in Analyses, NEW t \in Reviews, Raise(r) \/ Stop(r)
  PROVE  Keeps(t)
<1>1. AskTyped
  BY DEF MatInvariant, Known
<1>2. /\ analysis' = Closed(r) /\ ActiveCheck(r) /\ UNCHANGED <<doc, ask, slipped>>
      /\ excused' = excused \cup ({analysis[r].task} \ {"none"})
  BY ClosingFacts DEF Raise, Stop, Excuse
<1>3. CASE analysis[r].task # t
  <2>1. SameVerdict(t)
    BY <1>1, <1>3 DEF Raise, Stop, Verdict, SameVerdict, AskTyped, MatTypeOK
  <2>. QED
    BY <1>2, <1>3, <2>1, OthersKeep
<1>4. CASE analysis[r].task = t
  BY <1>2, <1>4, ClosedApart DEF Keeps, MaterialAssumption
<1>. QED
  BY <1>3, <1>4

\* The task that gets the document has an analysis that sorts, whoever loses it is excused.
LEMMA SortKeeps ==
  ASSUME MatInvariant, Onward, NEW r \in Analyses, NEW u \in Reviews, Sort(r)
  PROVE  Keeps(u)
<1>1. Known /\ AskTyped /\ Apart(u) /\ ChecksSound
  BY DEF MatInvariant, Known, HeldApart
<1>2. /\ analysis[r].status = "running" /\ analysis[r].kind \in Sorts /\ r \notin HeldChecks
      /\ analysis[r].task \notin Reviews /\ UNCHANGED <<ask, slipped>> /\ analysis[r].read \cap Held = {}
  BY <1>1 DEF Sort, Doing, Sorts, ChecksSound, RowSound, MaterialAssumption
<1>3. PICK t \in Reviews \cup {"unsorted"}, readable \in BOOLEAN, f \in analysis[r].read :
        GivenTo(r, t, readable, f)
  BY DEF Sort
<1>4. f \in Files /\ f \notin Held
  BY <1>1, <1>2 DEF AskTyped, MatTypeOK, CheckRow
<1>5. /\ analysis'[r].status = "sorting"
      /\ analysis'[r].task = IF t \in Reviews /\ (readable \/ analysis[r].kind = "resorts") THEN t ELSE "none"
      /\ \A p \in Analyses \ {r} : analysis'[p] = analysis[p]
  BY <1>1, <1>3, <1>4, GivenFacts
<1>6. /\ \A g \in Files :
           /\ doc'[g].row = IF g \in Older(analysis[r].kind, t, f) THEN "replaced"
                            ELSE doc[g].row
           /\ doc'[g].of = IF t \in Reviews /\ g = f THEN t ELSE doc[g].of
      /\ review'[u] = review[u] \/ review'[u].status = "failed"
      /\ excused' = excused \cup (({doc[f].of} \cap Reviews) \ {t})
                            \cup (IF readable THEN {} ELSE {t} \cap Reviews)
  <2>1. review'[u] = review[u] \/ review'[u].status = "failed"
    BY <1>3 DEF GivenTo
  <2>2. excused' = excused \cup (({doc[f].of} \cap Reviews) \ {t})
                           \cup (IF readable THEN {} ELSE {t} \cap Reviews)
    BY <1>3 DEF GivenTo
  <2>3. \A g \in Files :
           /\ doc'[g].row = IF g \in Older(analysis[r].kind, t, f) THEN "replaced"
                            ELSE doc[g].row
           /\ doc'[g].of = IF t \in Reviews /\ g = f THEN t ELSE doc[g].of
    BY <1>1, <1>3, <1>4, SortedFacts DEF GivenTo
  <2>. QED
    BY <2>1, <2>2, <2>3
<1>7. Held' = Held /\ HeldChecks' = HeldChecks
  BY <1>2 DEF Held, HeldChecks
<1>8. CASE u # t
  <2>1. Live(u, {})' = Live(u, {}) /\ \A p \in Live(u, {}) : analysis'[p] = analysis[p]
    BY <1>2, <1>5, <1>8 DEF Live, ActiveCheck, MaterialAssumption
  <2>2. ActiveOf(u)' \subseteq ActiveOf(u) /\ (f \notin ActiveOf(u) => ActiveOf(u)' = ActiveOf(u))
    BY <1>6, <1>8 DEF ActiveOf, Older
  <2>3. Apart(u)'
    BY <1>1, <1>7, <2>1, <2>2, ApartShrinks
  <2>4. CASE u \in excused'
    BY <2>3, <2>4 DEF Keeps
  <2>5. CASE u \notin excused'
    <3>1. ActiveOf(u)' = ActiveOf(u)
      BY <1>6, <1>8, <2>2, <2>5 DEF ActiveOf
    <3>2. SameRows(u)
      BY <1>1, <2>1, <3>1, MatRowsKept
    <3>. QED
      BY <1>2, <1>6, <3>2, StillKeeps DEF SameVerdict
  <2>. QED
    BY <2>4, <2>5
<1>9. CASE u = t
  <2>1. ActiveOf(u)' \subseteq ActiveOf(u) \cup {f}
    BY <1>6, <1>9 DEF ActiveOf
  <2>2. Apart(u)'
    <3>1. \A p \in Live(u, {})' : analysis'[p].status # "sorting" =>
             p \in Live(u, {}) /\ analysis[p].status # "sorting"
      BY <1>5 DEF Live, ActiveCheck
    <3>. QED
      BY <1>1, <1>4, <1>7, <2>1, <3>1, ApartShrinks
  <2>3. ASSUME u \notin excused' PROVE Covered(u)'
    <3>1. readable
      BY <1>6, <1>9, <2>3
    <3>2. analysis'[r].task = u
      BY <1>5, <1>9, <3>1
    <3>3. r \in Live(u, {})' /\ r \in Live(u, HeldChecks)'
      BY <1>2, <1>5, <1>7, <3>2 DEF Live, ActiveCheck
    <3>. QED
      BY <1>5, <3>3 DEF Covered, Current
  <2>. QED
    BY <2>2, <2>3 DEF Keeps
<1>. QED
  BY <1>8, <1>9

LEMMA QueueSortedKeeps ==
  ASSUME MatInvariant, Onward, NEW r \in Analyses, NEW u \in Reviews, QueueSorted(r)
  PROVE  Keeps(u)
<1>1. Known /\ AskTyped /\ AsksSound
  BY DEF MatInvariant, Known
<1>2. /\ analysis[r].status = "sorting" /\ UNCHANGED <<doc, ask, slipped>>
      /\ ActiveOf(analysis[r].task) \cap Held = {}
  BY DEF QueueSorted
<1>3. PICK t \in Reviews \cup {"none"} : t = analysis[r].task
  BY <1>1 DEF AskTyped, MatTypeOK, CheckRow
<1>4. CASE analysis' = Closed(r)
  <2>1. UNCHANGED review /\ excused' = excused \cup ({t} \ {"none"})
    <3>1. ASSUME NEW p \in Analyses, NewCheck(p), NEW k, NEW fs,
                 analysis' = [Closed(r) EXCEPT ![p] = CheckOf(analysis[r].task, k, fs)]
          PROVE  FALSE
      <4>1. analysis'[p].status = "queued" /\ p # r
        BY <1>1, <1>2, <3>1, ClosedTyped DEF CheckOf, NewCheck, AskTyped
      <4>. QED
        BY <1>1, <1>4, <3>1, <4>1, ClosedFacts DEF NewCheck
    <3>. QED
      BY <1>3, <3>1 DEF QueueSorted, Excuse
  <2>2. CASE u # t
    BY <1>2, <1>3, <1>4, <2>1, <2>2, OthersKeep DEF SameVerdict
  <2>3. CASE u = t
    <3>1. u \in excused'
      BY <2>1, <2>3 DEF MaterialAssumption
    <3>2. Apart(u)'
      BY <1>2, <1>4, ClosedApart DEF ActiveCheck
    <3>. QED
      BY <3>1, <3>2 DEF Keeps
  <2>. QED
    BY <2>2, <2>3
<1>5. CASE analysis' # Closed(r)
  <2>1. PICK p \in Analyses \ {r}, kind \in {"check", "retest"} :
          /\ NewCheck(p)
          /\ analysis'[r].status = "ended" /\ analysis'[r].task = t
          /\ analysis'[p].status = "queued" /\ analysis'[p].task = t /\ analysis'[p].files = ActiveOf(t)
          /\ \A o \in Analyses \ {r, p} : analysis'[o] = analysis[o]
          /\ review' = IF kind = "check" THEN Verdict(t, "in_progress", {}) ELSE review
          /\ UNCHANGED excused
    BY <1>1, <1>3, <1>5, QueueSortedFacts
  <2>2. Held' = Held /\ HeldChecks' = HeldChecks /\ ActiveOf(u)' = ActiveOf(u)
    BY <1>2 DEF Held, HeldChecks, ActiveOf
  <2>3. CASE u = t
    <3>1. p \notin HeldChecks'
      BY <1>1, <2>1, <2>2, HeldThere DEF NewCheck
    <3>2. \A o \in Analyses \ {p} : analysis'[o].status = "none" <=> analysis[o].status = "none"
      BY <1>2, <2>1
    <3>. QED
      BY <1>2, <1>3, <2>1, <2>2, <2>3, <3>1, <3>2, NewKeeps
  <2>4. CASE u # t
    <3>1. \A o \in Analyses : o \in Live(u, {}) \/ o \in Live(u, {})' => analysis'[o] = analysis[o]
      BY <1>3, <2>1, <2>4 DEF Live, ActiveCheck, NewCheck
    <3>2. SameRows(u)
      BY <1>1, <2>2, <3>1, MatRowsKept
    <3>3. SameVerdict(u)
      BY <1>1, <2>1, <2>4 DEF SameVerdict, Verdict, AskTyped, MatTypeOK
    <3>. QED
      BY <1>2, <2>1, <3>2, <3>3, StillKeeps
  <2>. QED
    BY <2>3, <2>4
<1>. QED
  BY <1>4, <1>5

-----------------------------------------------------------------------------
(* The invariant, and what it says of the tasks.                            *)

LEMMA CoveredNext ==
  ASSUME MatInvariant, Onward, [MatNext]_matVars
  PROVE  HeldApart' /\ DocumentsCovered'
<1>1. ASSUME NEW t \in Reviews PROVE Keeps(t)
  <2>1. CASE UNCHANGED matVars
    <3>1. UNCHANGED <<doc, analysis, ask, review, excused, slipped>>
      BY <2>1 DEF matVars
    <3>. QED
      BY <3>1, RowsStill, StillKeeps DEF SameVerdict
  <2>2. ASSUME NEW q \in Askers, Request(q) \/ Serve(q) \/ Die(q) PROVE Keeps(t)
    BY <2>2, BeginKeeps, PlainKeeps, RecordKeeps, RetestKeeps, QueueKeeps, DropKeeps, EraseKeeps,
       CommitKeeps, PurgeKeeps, RebuildKeeps, DieKeeps DEF Serve
  <2>3. ASSUME NEW r \in Analyses, Work(r) PROVE Keeps(t)
    BY <2>3, StartKeeps, JudgeKeeps, StopKeeps, SortKeeps, QueueSortedKeeps DEF Work
  <2>. QED
    BY <2>1, <2>2, <2>3 DEF MatNext
<1>. QED
  BY <1>1 DEF Keeps, HeldApart, DocumentsCovered

LEMMA MatInvariantInit == MatInit => MatInvariant
<1>. SUFFICES ASSUME MatInit PROVE MatInvariant
  OBVIOUS
<1>1. Known
  BY KnownInit DEF Known
<1>2. HoldersSound
  BY DEF MatInit, HoldersSound, Holds, NoAsk
<1>3. TasksChecked
  BY DEF MatInit, TasksChecked
<1>4. Held = {} /\ \A t : Live(t, {}) = {} /\ Live(t, HeldChecks) = {}
  BY DEF MatInit, Held, Live, ActiveCheck, NoAsk, NoCheck
<1>5. HeldApart /\ DocumentsCovered
  BY <1>4 DEF MatInit, HeldApart, Apart, DocumentsCovered, Covered, Current
<1>. QED
  BY <1>1, <1>2, <1>3, <1>5 DEF MatInvariant

LEMMA MatInvariantNext == MatInvariant /\ [MatNext]_matVars => MatInvariant'
<1>. SUFFICES ASSUME MatInvariant, [MatNext]_matVars PROVE MatInvariant'
  OBVIOUS
<1>1. Known' /\ Onward
  BY KnownNext DEF MatInvariant
<1>2. HoldersSound' /\ TasksChecked'
  BY <1>1, HoldersNext, CheckedNext DEF MatInvariant
<1>. QED
  BY <1>1, <1>2, CoveredNext DEF MatInvariant

\* Once no request and no analysis is under way for a task, its verdict is about the
\* documents it has.
LEMMA VerdictCovers == MatInvariant => VerdictCoversDocuments
<1>. SUFFICES ASSUME MatInvariant, NEW t \in Reviews, review[t].status = "completed", ~Unfinished(t),
                     t \notin excused \cup slipped
              PROVE  review[t].corpus = ActiveOf(t)
  BY DEF VerdictCoversDocuments
<1>1. Covered(t)
  BY DEF MatInvariant, DocumentsCovered
<1>2. Live(t, {}) = {} /\ ~Queues(t) /\ ~Deletes(t, {"erasing", "committing"})
  BY DEF Unfinished, Live, Queues, Deletes
<1>. QED
  BY <1>1, <1>2 DEF Covered

\* A task of documents that is completed has a verdict on the documents it has, and one in
\* progress an analysis under way, whatever uploads, deletions, batches, retests, resets and
\* clearings are served at the same time, and wherever each of them stops; the exceptions
\* are the tasks that lost an analysis or a document to one of these (excused), and those
\* that a reset had loaded before another request began to work on them (slipped).
THEOREM StatusStands == MatSpec => []TaskStatusStands
<1>1. MatInvariant => TaskStatusStands
  BY VerdictCovers DEF TaskStatusStands, ResetsStrandNoTask, MatInvariant, TasksChecked
<1>. QED
  BY <1>1, MatInvariantInit, MatInvariantNext, PTL DEF MatSpec
=============================================================================
