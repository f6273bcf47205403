----------------------------- MODULE AuditFrames -----------------------------
(***************************************************************************)
(* The offline auditor (internal/audit/audit.go), its checks of frames:    *)
(* whole frames, LSN order and batch counts.  It walks every segment in    *)
(* the order of their IDs and repairs nothing.                             *)
(*                                                                         *)
(* Frames are those of Wal.  Behind a frame that is not whole the auditor  *)
(* reads bytes of other frames as headers; here it goes on with the next   *)
(* segment, which is what it does when the torn frame is the last.         *)
(* Every whole record counts: one that AuditLedger's replay refuses would  *)
(* not be counted in its batch.                                            *)
(***************************************************************************)
EXTENDS Naturals, Sequences

violation(kind, l) == [kind |-> kind, lsn |-> l]

\* prevLSN, pendingCount and rep.Violations before the first segment.
unread == [prev |-> 0, count |-> 0, found |-> {}]

lsnOrder(s, f) == IF s.prev > 0 /\ f.lsn <= s.prev THEN {violation("lsn_order", f.lsn)} ELSE {}

batchCount(s, f) ==
  IF f.kind = "commit" /\ s.count # f.count THEN {violation("batch_count_mismatch", f.lsn)} ELSE {}

\* One whole frame.
auditFrame(s, f) ==
  [prev |-> f.lsn, count |-> IF f.kind = "commit" THEN 0 ELSE s.count + 1,
   found |-> s.found \cup lsnOrder(s, f) \cup batchCount(s, f)]

\* One segment, up to a frame that extends past its end.
auditSegment(s, segment) ==
  LET upTo[k \in 0 .. Len(segment)] ==
        IF k = 0 THEN [s |-> s, stop |-> FALSE]
        ELSE IF upTo[k - 1].stop THEN upTo[k - 1]
        ELSE IF segment[k].kind = "torn"
        THEN [s |-> [upTo[k - 1].s EXCEPT !.found = @ \cup {violation("torn_tail", 0)}], stop |-> TRUE]
        ELSE [s |-> auditFrame(upTo[k - 1].s, segment[k]), stop |-> FALSE]
  IN  upTo[Len(segment)].s

\* All segments; IDs without a file are skipped.
Audit(files, newest) ==
  LET upTo[id \in 0 .. newest] ==
        IF id = 0 THEN unread
        ELSE IF id \in DOMAIN files THEN auditSegment(upTo[id - 1], files[id])
        ELSE upTo[id - 1]
  IN  upTo[newest].found

=============================================================================
