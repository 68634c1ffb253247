---------------------------- MODULE Conversations ----------------------------
(***************************************************************************)
(* The conversation of one user in one project (context_manager.py): its   *)
(* threads, the messages, their summaries by segments and the archives.    *)
(* The model sees the last messages, and of what is older the summaries;   *)
(* who asks for more gets excerpts of the archives.  Requests are served   *)
(* at the same time and commit when they end; the numbers of messages are  *)
(* given out when they are inserted.                                       *)
(*                                                                         *)
(* How the worker claims summaries and archives, and what becomes of the   *)
(* text of an archive, is in Maintenance.                                  *)
(***************************************************************************)
EXTENDS Integers, FiniteSets, FiniteSetsExt

CONSTANTS
  Threads, Default,  \* Default is the thread of the messages without one
  Archives,
  Callers,           \* requests, and scans that report, at the same time
  Segment,           \* SUMMARY_SEGMENT_MESSAGES
  MaxMessages,       \* messages in a behaviour (a bound)
  MaxSummaries,      \* summaries in a behaviour (a bound)
  MaxEvents          \* failures, deaths, clearings, ends of retention, and changes of threads
                     \* in a behaviour (a bound)

ASSUME ConversationAssumption ==
  /\ Default \in Threads /\ "none" \notin Threads \cup Archives \cup Callers
  /\ Segment \in Nat \ {0} /\ MaxMessages \in Nat /\ MaxSummaries \in Nat
  /\ MaxEvents \in Nat

Messages == 1 .. MaxMessages
Summaries == 1 .. MaxSummaries
\* unsaved: in a transaction that has not committed.
Message == [state : {"none", "unsaved", "active", "archived", "gone"},
            thread : Threads, archive : Archives \cup {"none"}]
\* text: the messages that the summary was written from.
Summary == [status : {"none", "unsaved", "queued", "processing", "completed", "failed", "deleted"},
            thread : Threads, first : Nat, last : Nat, count : Nat, text : SUBSET Messages]
Archive == [status : {"none", "filed", "deleted"}, source : SUBSET Messages]
Thread == [status : {"none", "live", "archived", "deleted"}, source : Archives \cup {"none"}]
\* wrote, swept, rows: messages inserted, messages deleted and summaries queued by the
\* transaction; left: messages it is still to insert; source, filed: what is archived and where.
Turn == [pc : {"idle", "writing", "answered", "gathered", "filed", "handed"}, thread : Threads,
         left : 0 .. 2, wrote : SUBSET Messages, swept : SUBSET Messages, rows : SUBSET Summaries,
         source : SUBSET Messages, rolls : BOOLEAN, filed : Archives \cup {"none"}]

VARIABLES
  msg, summary, archive, thread,
  busy,       \* threads with an interactive scan that is pending or running
  turn,       \* [Callers -> Turn]
  writer,     \* the summary that the worker writes, 0 for none, and the messages it has read
  aged,       \* messages up to this one are past ACTIVE_HISTORY_RETENTION_DAYS
  events,     \* how many there were of what MaxEvents bounds
  overlooked  \* (history) messages committed below a segment that was cut or read without
              \* them, or whose summary was deleted with an archive that does not hold them

convVars == <<msg, summary, archive, thread, busy, turn, writer, aged, events, overlooked>>

NoTurn == [pc |-> "idle", thread |-> Default, left |-> 0, wrote |-> {}, swept |-> {}, rows |-> {},
           source |-> {}, rolls |-> FALSE, filed |-> "none"]
NoWriter == [row |-> 0, read |-> {}]

ConvInit ==
  /\ msg = [i \in Messages |-> [state |-> "none", thread |-> Default, archive |-> "none"]]
  /\ summary = [s \in Summaries |-> [status |-> "none", thread |-> Default, first |-> 0,
                                     last |-> 0, count |-> 0, text |-> {}]]
  /\ archive = [a \in Archives |-> [status |-> "none", source |-> {}]]
  /\ thread = [h \in Threads |-> [status |-> IF h = Default THEN "live" ELSE "none",
                                  source |-> "none"]]
  /\ busy = {} /\ turn = [c \in Callers |-> NoTurn] /\ writer = NoWriter
  /\ aged = 0 /\ events = 0 /\ overlooked = {}

Event == events < MaxEvents /\ events' = events + 1

\* The message with the largest number of a set, 0 if it is empty.
Newest(S) == Max(S \cup {0})
Within(s) == summary[s].first .. summary[s].last
Of(h, statuses) == {s \in Summaries : summary[s].thread = h /\ summary[s].status \in statuses}

\* _history_conditions, in the transaction of c.
Seen(c, h) ==
  {i \in Messages : /\ msg[i].thread = h
                    /\ \/ msg[i].state = "active" /\ i \notin turn[c].swept
                       \/ i \in turn[c].wrote}

\* The end of _get_latest_completed_summary.
MutantSummarized(h) == Newest({summary[s].last : s \in Of(h, {"completed", "failed"})})
Summarized(h) == Newest({summary[s].last : s \in Of(h, {"completed"})})

-----------------------------------------------------------------------------
(* A turn: the request and the answer, or the result of a scan.             *)

\* No other transaction has deleted a row of the thread that it may still roll back.
RowsFree(c, h) == \A x \in Callers \ {c} : \A i \in turn[x].swept : msg[i].thread # h

BeginTurn(c, h) ==
  /\ turn[c] = NoTurn /\ thread[h].status # "none"
  /\ \/ turn' = [turn EXCEPT ![c] = [NoTurn EXCEPT !.pc = "writing", !.thread = h, !.left = 2]]
        /\ UNCHANGED busy
     \/ /\ h \in busy /\ busy' \in {busy, busy \ {h}}
        /\ turn' = [turn EXCEPT ![c] = [NoTurn EXCEPT !.pc = "writing", !.thread = h, !.left = 1]]
  /\ UNCHANGED <<msg, summary, archive, thread, writer, aged, events, overlooked>>

\* _compress_conversation_if_needed: the segments that may be queued, none if one is
\* pending.  It ends after Segment messages or, with long ones, before.
Segments(c, h, seen) ==
  LET waiting == {s \in Summaries : /\ summary[s].thread = h
                                    /\ \/ summary[s].status \in {"queued", "processing"}
                                       \/ s \in turn[c].rows}
      candidates == {i \in seen : i > Summarized(h)}
      upTo(i) == {j \in candidates : j <= i}
  IN  IF waiting # {} THEN {{}}
      ELSE {S \in {upTo(i) : i \in candidates} : Cardinality(S) <= Segment}
             \cup {S \in {{}} : Cardinality(candidates) < Segment}

\* add_conversation
Say(c) ==
  LET h == turn[c].thread
      i == Newest({j \in Messages : msg[j].state # "none"}) + 1
      s == Newest({r \in Summaries : summary[r].status # "none"}) + 1
      seen == Seen(c, h) \cup {i}
  IN  /\ turn[c].pc = "writing" /\ turn[c].left > 0 /\ i \in Messages
      /\ RowsFree(c, h)
      /\ msg' = [msg EXCEPT ![i] = [@ EXCEPT !.state = "unsaved", !.thread = h]]
      /\ \E seg \in Segments(c, h, seen) :
           /\ seg # {} => s \in Summaries
           /\ summary' = IF seg = {} THEN summary
                         ELSE [summary EXCEPT ![s] = [@ EXCEPT !.status = "unsaved", !.thread = h,
                                                               !.first = Min(seg), !.last = Max(seg),
                                                               !.count = Cardinality(seg)]]
           /\ turn' = [turn EXCEPT ![c] = [turn[c] EXCEPT
                         !.left = @ - 1, !.wrote = @ \cup {i},
                         !.swept = @ \cup {j \in seen : j <= aged},
                         !.rows = IF seg = {} THEN @ ELSE @ \cup {s}]]
      /\ UNCHANGED <<archive, thread, busy, writer, aged, events, overlooked>>

\* A summary that is or will be written without the message that commits now.
Misses(s, i) ==
  \/ summary[s].status \in {"unsaved", "queued", "processing", "completed"} /\ i < summary[s].first
  \/ i \in Within(s) /\ (summary[s].status = "completed" \/ writer.row = s)

\* The commit.  A turn that asks for a scan starts it and does not roll over.
Answer(c) ==
  LET t == turn[c]
  IN  /\ t.pc = "writing" /\ t.left = 0
      /\ msg' = [i \in Messages |-> CASE i \in t.wrote -> [msg[i] EXCEPT !.state = "active"]
                                      [] i \in t.swept \ t.wrote -> [msg[i] EXCEPT !.state = "gone"]
                                      [] OTHER -> msg[i]]
      /\ summary' = [s \in Summaries |-> IF s \in t.rows THEN [summary[s] EXCEPT !.status = "queued"]
                                         ELSE summary[s]]
      /\ overlooked' = overlooked \cup
           {i \in t.wrote : \E s \in Summaries : summary[s].thread = t.thread /\ Misses(s, i)}
      /\ \/ UNCHANGED busy
            /\ turn' = [turn EXCEPT ![c] = [NoTurn EXCEPT !.pc = "answered", !.thread = t.thread]]
         \/ busy' = busy \cup {t.thread} /\ turn' = [turn EXCEPT ![c] = NoTurn]
      /\ UNCHANGED <<archive, thread, writer, aged, events>>

\* The request fails, or its process ends: what it has not committed is undone.
Fail(c) ==
  LET t == turn[c]
  IN  /\ t.pc # "idle" /\ Event
      /\ msg' = [i \in Messages |-> IF i \in t.wrote THEN [msg[i] EXCEPT !.state = "gone"] ELSE msg[i]]
      /\ summary' = [s \in Summaries |-> IF s \in t.rows THEN [summary[s] EXCEPT !.status = "deleted"]
                                         ELSE summary[s]]
      /\ turn' = [turn EXCEPT ![c] = NoTurn]
      /\ UNCHANGED <<archive, thread, busy, writer, aged, overlooked>>

-----------------------------------------------------------------------------
(* Archives.                                                                *)

\* create_archive_placeholder reads the history, for POST /archives or, by
\* maybe_auto_rollover, after a turn when no scan of the thread is active.
Gather(c, h) ==
  /\ \/ turn[c] = NoTurn /\ thread[h].status # "none"
     \/ turn[c].pc = "answered" /\ turn[c].thread = h /\ h \notin busy
  /\ Seen(c, h) # {}
  /\ turn' = [turn EXCEPT ![c] = [NoTurn EXCEPT !.pc = "gathered", !.thread = h,
                                                !.source = Seen(c, h),
                                                !.rolls = (turn[c].pc = "answered")]]
  /\ UNCHANGED <<msg, summary, archive, thread, busy, writer, aged, events, overlooked>>

\* Below the thresholds, or while a scan is active, nothing is archived.
Stay(c) ==
  /\ turn[c].pc = "answered" /\ turn' = [turn EXCEPT ![c] = NoTurn]
  /\ UNCHANGED <<msg, summary, archive, thread, busy, writer, aged, events, overlooked>>

\* ... and files it: messages that another archive took meanwhile, too.
File(c, a) ==
  LET t == turn[c]
  IN  /\ t.pc = "gathered" /\ archive[a].status = "none" /\ RowsFree(c, t.thread)
      /\ archive' = [archive EXCEPT ![a] = [status |-> "filed", source |-> t.source]]
      /\ msg' = [i \in Messages |-> IF i \in t.source /\ msg[i].state # "gone"
                                    THEN [msg[i] EXCEPT !.state = "archived", !.archive = a]
                                    ELSE msg[i]]
      /\ turn' = [turn EXCEPT ![c] = IF t.rolls THEN [t EXCEPT !.pc = "filed", !.filed = a]
                                     ELSE NoTurn]
      /\ UNCHANGED <<summary, thread, busy, writer, aged, events, overlooked>>

\* create_thread; its archive must still be there.
Opened(h, a) == thread' = [thread EXCEPT ![h] = [status |-> "live", source |-> a]]
HandOver(c, h) ==
  /\ turn[c].pc = "filed" /\ archive[turn[c].filed].status = "filed"
  /\ thread[h].status = "none" /\ Opened(h, turn[c].filed)
  /\ turn' = [turn EXCEPT ![c] = [@ EXCEPT !.pc = "handed"]]
  /\ UNCHANGED <<msg, summary, archive, busy, writer, aged, events, overlooked>>
\* The end of maybe_auto_rollover: the thread itself is archived, if it has a row, and
\* stays deleted if it was.
Retire(c) ==
  LET h == turn[c].thread
  IN  /\ turn[c].pc = "handed" /\ turn' = [turn EXCEPT ![c] = NoTurn]
      /\ thread' = IF h = Default \/ thread[h].status = "deleted" THEN thread
                   ELSE [thread EXCEPT ![h].status = "archived"]
      /\ UNCHANGED <<msg, summary, archive, busy, writer, aged, events, overlooked>>

\* delete_archive, with every summary of the user whose numbers meet those of the archive.
DeleteArchive(a) ==
  LET kept == archive[a].source
      lost == {s \in Summaries : /\ summary[s].status \notin {"none", "unsaved", "deleted"}
                                 /\ summary[s].first <= Max(kept) /\ summary[s].last >= Min(kept)}
  IN  /\ archive[a].status = "filed"
      /\ summary' = [s \in Summaries |-> IF s \in lost THEN [summary[s] EXCEPT !.status = "deleted"]
                                         ELSE summary[s]]
      /\ overlooked' = overlooked \cup {i \in UNION {summary[s].text : s \in lost} :
                                          msg[i].state = "active"}
      /\ msg' = [i \in Messages |-> IF msg[i].state = "archived" /\ msg[i].archive = a
                                    THEN [msg[i] EXCEPT !.state = "gone"] ELSE msg[i]]
      /\ thread' = [h \in Threads |-> IF thread[h].source = a
                                      THEN [thread[h] EXCEPT !.source = "none"] ELSE thread[h]]
      /\ archive' = [archive EXCEPT ![a].status = "deleted"]
      /\ UNCHANGED <<busy, turn, writer, aged, events>>

-----------------------------------------------------------------------------
(* Threads, and messages that leave.                                        *)

\* create_thread, and continue_from_archive of an archive whose text is complete.
CreateThread(h) ==
  /\ thread[h].status = "none"
  /\ \E a \in {"none"} \cup {x \in Archives : archive[x].status = "filed"} : Opened(h, a)
  /\ UNCHANGED <<msg, summary, archive, busy, turn, writer, aged, events, overlooked>>
DeleteThread(h) ==
  /\ h # Default /\ thread[h].status \in {"live", "archived"}
  /\ thread' = [thread EXCEPT ![h].status = "deleted"]
  /\ Event
  /\ UNCHANGED <<msg, summary, archive, busy, turn, writer, aged, overlooked>>

\* POST /chat/clear; the summaries stay.
Clear(h) ==
  /\ thread[h].status # "none" /\ RowsFree("none", h)
  /\ msg' = [i \in Messages |-> IF msg[i].thread = h /\ msg[i].state = "active"
                                THEN [msg[i] EXCEPT !.state = "gone"] ELSE msg[i]]
  /\ Event
  /\ UNCHANGED <<summary, archive, thread, busy, turn, writer, aged, overlooked>>
\* The retention of the oldest message ends; the next turn in its thread deletes it.
Ages ==
  /\ aged < MaxMessages /\ msg[aged + 1].state \notin {"none", "unsaved"}
  /\ aged' = aged + 1
  /\ Event
  /\ UNCHANGED <<msg, summary, archive, thread, busy, turn, writer, overlooked>>
\* POST /chat with a choice of assets starts a scan and writes no message.
StartScan(h) ==
  /\ thread[h].status # "none" /\ busy' = busy \cup {h}
  /\ UNCHANGED <<msg, summary, archive, thread, turn, writer, aged, events, overlooked>>
\* The last scan of the thread ends without a result for the conversation.
ScanFails(h) ==
  /\ h \in busy /\ busy' = busy \ {h}
  /\ UNCHANGED <<msg, summary, archive, thread, turn, writer, aged, events, overlooked>>

-----------------------------------------------------------------------------
(* generate_conversation_summary                                            *)

\* It reads the messages between the two numbers, of whatever thread, and fails if
\* their count is not the one of the segment.
StartSummary(s) ==
  LET read == {i \in Within(s) : msg[i].state = "active"}
      fits == Cardinality(read) = summary[s].count
  IN  /\ writer = NoWriter /\ summary[s].status \in {"queued", "processing"}
      /\ writer' = IF fits THEN [row |-> s, read |-> read] ELSE NoWriter
      /\ summary' = [summary EXCEPT ![s].status = IF fits THEN "processing" ELSE "failed"]
      /\ UNCHANGED <<msg, archive, thread, busy, turn, aged, events, overlooked>>
\* A row that was deleted meanwhile stays deleted.
EndSummary ==
  LET s == writer.row
  IN  /\ writer # NoWriter /\ writer' = NoWriter
      /\ IF summary[s].status = "deleted" THEN UNCHANGED summary
         ELSE \/ summary' = [summary EXCEPT ![s].status = "failed"]
              \/ summary' = [summary EXCEPT ![s] = [@ EXCEPT !.status = "completed",
                                                             !.text = writer.read]]
      /\ UNCHANGED <<msg, archive, thread, busy, turn, aged, events, overlooked>>
\* The worker dies; the lease runs out and the row is claimed again.
WriterDies ==
  /\ writer # NoWriter /\ writer' = NoWriter
  /\ Event
  /\ UNCHANGED <<msg, summary, archive, thread, busy, turn, aged, overlooked>>

ConvNext ==
  \/ \E c \in Callers : Say(c) \/ Answer(c) \/ Fail(c) \/ Stay(c) \/ Retire(c)
  \/ \E c \in Callers, h \in Threads : BeginTurn(c, h) \/ Gather(c, h) \/ HandOver(c, h)
  \/ \E c \in Callers, a \in Archives : File(c, a)
  \/ \E a \in Archives : DeleteArchive(a)
  \/ \E h \in Threads : CreateThread(h) \/ DeleteThread(h) \/ Clear(h)
                        \/ StartScan(h) \/ ScanFails(h)
  \/ Ages \/ EndSummary \/ WriterDies
  \/ \E s \in Summaries : StartSummary(s)

ConvSpec == ConvInit /\ [][ConvNext]_convVars

-----------------------------------------------------------------------------

ConvTypeOK ==
  /\ msg \in [Messages -> Message] /\ summary \in [Summaries -> Summary]
  /\ archive \in [Archives -> Archive] /\ thread \in [Threads -> Thread]
  /\ busy \subseteq Threads /\ turn \in [Callers -> Turn]
  /\ writer.row \in 0 .. MaxSummaries /\ writer.read \subseteq Messages
  /\ aged \in 0 .. MaxMessages /\ events \in 0 .. MaxEvents /\ overlooked \subseteq Messages

\* Compression and archives forget nothing ("never delete conversation rows"): a message
\* that no user deleted and that has not expired is newer than all that is summarized of
\* its thread, or a completed summary of its thread was written from it, or it lies in an
\* archive.  This is whatever segments fail, are cut again or are written by a worker that
\* read them before others wrote, except for the messages in overlooked.
NoMessageForgotten ==
  \A i \in Messages :
    /\ msg[i].state = "active" =>
         \/ i \in overlooked \/ i > Summarized(msg[i].thread)
         \/ \E s \in Of(msg[i].thread, {"completed"}) : i \in summary[s].text
    /\ msg[i].state = "archived" => archive[msg[i].archive].status = "filed"
=============================================================================
