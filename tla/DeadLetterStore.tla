-------------------------- MODULE DeadLetterStore --------------------------
(***************************************************************************)
(* The dead-letter store: an entry per failed operation, captured by the   *)
(* component that gave the operation up, then retried, resolved or         *)
(* archived by people through the control API.  Every such request loads   *)
(* the entry, decides, and writes the columns it has changed in a later    *)
(* statement, so two requests for one entry overlap.                       *)
(*                                                                         *)
(* Retrying an entry only marks it: nothing re-executes the operation.     *)
(* The attempts counter, which no code reads, is left out, and so is       *)
(* archive_old_entries, which no code calls.                               *)
(***************************************************************************)
CONSTANTS
    Sources,        \* operations that may be given up, one entry for each
    Operators,      \* requests to the control API being served
    NoSource

VARIABLES
    entry,          \* dead_letter_entries: status and whether resolved_at is set
    request         \* what each request is doing, and what it has loaded

deadVars == <<entry, request>>

EntryStatuses == {"absent", "pending", "retrying", "resolved", "archived"}
Terminal      == {"resolved", "archived"}
Requests      == {"retry", "resolve", "archive"}

EntryType   == [status : EntryStatuses, stamped : BOOLEAN]
RequestType == [act : Requests \cup {"none"}, on : Sources \cup {NoSource}, seen : EntryType]

NoEntry   == [status |-> "absent", stamped |-> FALSE]
NoRequest == [act |-> "none", on |-> NoSource, seen |-> NoEntry]

DeadLetterTypeOK ==
    /\ entry \in [Sources -> EntryType]
    /\ request \in [Operators -> RequestType]

DeadLetterInit ==
    /\ entry = [s \in Sources |-> NoEntry]
    /\ request = [o \in Operators |-> NoRequest]

-----------------------------------------------------------------------------
Captured(s) == entry[s].status # "absent"

(* capture_failure, for an operation given up for the first time.          *)
CaptureFailure(s) ==
    /\ ~Captured(s)
    /\ entry' = [entry EXCEPT ![s].status = "pending"]

(* Mutant of Admits: a resolved entry may be retried.                      *)
AdmitsAll(act, s) == Captured(s)

(* The SELECT and the check that follows it: a retry of a terminal entry   *)
(* returns it as it is.                                                    *)
Admits(act, s) == Captured(s) /\ (act = "retry" => entry[s].status \notin Terminal)

Load(o, act, s) ==
    /\ request[o] = NoRequest
    /\ Admits(act, s)
    /\ request' = [request EXCEPT ![o] = [act |-> act, on |-> s, seen |-> entry[s]]]
    /\ UNCHANGED entry

Outcome(act) == CASE act = "retry"   -> [status |-> "retrying", stamped |-> FALSE]
                  [] act = "resolve" -> [status |-> "resolved", stamped |-> TRUE]
                  [] act = "archive" -> [status |-> "archived", stamped |-> TRUE]

(* The UPDATE at commit: a column the request has not changed, compared    *)
(* with what it loaded, keeps the value it has now; a new time is always a *)
(* change.                                                                 *)
Merged(seen, new, now) ==
    [status  |-> IF new.status = seen.status THEN now.status ELSE new.status,
     stamped |-> IF ~new.stamped /\ ~seen.stamped THEN now.stamped ELSE new.stamped]

Save(o) ==
    LET r == request[o] IN
    /\ r # NoRequest
    /\ entry' = [entry EXCEPT ![r.on] = Merged(r.seen, Outcome(r.act), @)]
    /\ request' = [request EXCEPT ![o] = NoRequest]

DeadLetterNext ==
    \E o \in Operators :
        \/ \E act \in Requests, s \in Sources : Load(o, act, s)
        \/ Save(o)

-----------------------------------------------------------------------------
(* An entry that was resolved or archived is taken up again only by a      *)
(* retry whose SELECT came before the resolution and found the entry never *)
(* yet retried; a retry of an entry already in retry cannot undo it        *)
(* (retry_entry, resolve_entry and archive_entry, in any order).           *)
ReopenedOnlyByFirstRetry ==
    [][\A s \in Sources :
          entry[s].status \in Terminal /\ entry'[s].status \notin Terminal
              => \E o \in Operators :
                    request[o].on = s /\ request[o].act = "retry"
                        /\ request[o].seen.status = "pending"]_deadVars
=============================================================================
