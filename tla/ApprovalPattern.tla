--------------------------- MODULE ApprovalPattern ---------------------------
(***************************************************************************)
(* What an organization has learnt about one type of approval: a row of    *)
(* approval_patterns that counts how its approvals were decided.  Every    *)
(* decision is recorded after it has been committed, in three steps: the   *)
(* row is looked up, and created where there is none; it is read again;    *)
(* the counter is written back, one higher.  Nothing makes the type unique *)
(* in the table.  The CEO enables auto-approval with a threshold, or       *)
(* deletes the row.                                                        *)
(***************************************************************************)
EXTENDS Naturals, FiniteSets

CONSTANTS
    Patterns,       \* ids; a new row takes one that was never used
    NoPattern,
    Deciders,       \* requests of /approve or /reject
    Thresholds,
    MaxDecisions    \* bound

VARIABLES
    pattern,        \* the table
    decider,
    decided,        \* history: decisions of this type, by answer
    together        \* history: two decisions have been recorded at once, or
                    \* one was not recorded to the end

patternVars == <<pattern, decider, decided, together>>

(* Rows that do not exist yet, that exist, and that were deleted.          *)
Rows == [is : {"unused", "there", "deleted"}, yes : Nat, no : Nat, enabled : BOOLEAN,
         threshold : Thresholds]

(* auto_approve_threshold is 0.9 in a new row, which asks for one approval *)
(* just as 1 does.                                                         *)
NewRow == [is |-> "there", yes |-> 0, no |-> 0, enabled |-> FALSE, threshold |-> 1]
Unused == [NewRow EXCEPT !.is = "unused"]

(* answer is the decision to record, row the pattern at hand, read the     *)
(* counter as it was read.                                                 *)
Done == [at |-> "idle", answer |-> "yes", row |-> NoPattern, read |-> 0]

DeciderType == [at : {"idle", "find", "create", "read", "write"}, answer : {"yes", "no"},
                row : Patterns \cup {NoPattern}, read : Nat]

PatternTypeOK ==
    /\ pattern \in [Patterns -> Rows]
    /\ decider \in [Deciders -> DeciderType]
    /\ \A d \in Deciders : decider[d].at \in {"read", "write"} => decider[d].row \in Patterns
    /\ decided \in [yes : Nat, no : Nat]
    /\ together \in BOOLEAN

PatternInit ==
    /\ pattern = [p \in Patterns |-> Unused]
    /\ decider = [d \in Deciders |-> Done]
    /\ decided = [yes |-> 0, no |-> 0]
    /\ together = FALSE

There == {p \in Patterns : pattern[p].is = "there"}

Unborn == {p \in Patterns : pattern[p].is = "unused"}

-----------------------------------------------------------------------------
(* An approval is approved or rejected, which is another module's matter,  *)
(* and the decision is to be recorded.                                     *)
Recording(d) == decider[d].at # "idle"

Decide(d, answer) ==
    /\ ~Recording(d)
    /\ decided.yes + decided.no < MaxDecisions
    /\ decided' = [decided EXCEPT ![answer] = @ + 1]
    /\ decider' = [decider EXCEPT ![d] = [Done EXCEPT !.at = "find", !.answer = answer]]
    /\ together' = (together \/ \E e \in Deciders : Recording(e))
    /\ UNCHANGED pattern

Leave(d) == decider' = [decider EXCEPT ![d] = Done]

At(d, step, row) == decider' = [decider EXCEPT ![d] = [@ EXCEPT !.at = step, !.row = row]]

(* The query of get_or_create; it raises an error where there are two.     *)
Find(d) ==
    /\ decider[d].at = "find"
    /\ \/ There = {} /\ At(d, "create", NoPattern)
       \/ \E p \in There : There = {p} /\ At(d, "read", p)
       \/ (\E p, q \in There : p # q) /\ Leave(d)
    /\ UNCHANGED <<pattern, decided, together>>

Create(d) ==
    /\ decider[d].at = "create"
    /\ \E p \in Unborn :
       /\ pattern' = [pattern EXCEPT ![p] = NewRow]
       /\ At(d, "read", p)
    /\ UNCHANGED <<decided, together>>

Count(p, answer) == IF answer = "yes" THEN pattern[p].yes ELSE pattern[p].no

(* record_decision: a row that was deleted meanwhile is let alone.         *)
Read(d) ==
    LET r == decider[d]
    IN  /\ r.at = "read"
        /\ IF r.row \in There
           THEN decider' = [decider EXCEPT ![d].at = "write", ![d].read = Count(r.row, r.answer)]
           ELSE Leave(d)
        /\ UNCHANGED <<pattern, decided, together>>

\* mutant: a rejection counts as an approval
IncrementedYes(row, r) == [row EXCEPT !.yes = r.read + 1]

Incremented(row, r) ==
    IF r.answer = "yes" THEN [row EXCEPT !.yes = r.read + 1] ELSE [row EXCEPT !.no = r.read + 1]

Write(d) ==
    LET r == decider[d]
    IN  /\ r.at = "write"
        /\ pattern' = [pattern EXCEPT ![r.row] = IF r.row \in There THEN Incremented(@, r) ELSE @]
        /\ Leave(d)
        /\ UNCHANGED <<decided, together>>

(* The process that handles the request dies.                              *)
Lose(d) ==
    /\ Recording(d)
    /\ Leave(d)
    /\ together' = TRUE
    /\ UNCHANGED <<pattern, decided>>

Record(d) == Find(d) \/ Create(d) \/ Read(d) \/ Write(d)

-----------------------------------------------------------------------------
(* update_pattern and delete_pattern, used by one CEO.                     *)
Configure(p, enabled, threshold) ==
    /\ p \in There
    /\ pattern' = [pattern EXCEPT ![p] = [@ EXCEPT !.enabled = enabled, !.threshold = threshold]]
    /\ UNCHANGED <<decider, decided, together>>

Delete(p) ==
    /\ p \in There
    /\ pattern' = [pattern EXCEPT ![p] = [Unused EXCEPT !.is = "deleted"]]
    /\ together' = (together \/ \E d \in Deciders : Recording(d))
    /\ UNCHANGED <<decider, decided>>

-----------------------------------------------------------------------------
(* A pattern counts no decision that was not made, however the recordings  *)
(* overlap and whatever was deleted: a lost update only makes it slower.   *)
CountsWereDecided ==
    \A p \in There : pattern[p].yes <= decided.yes /\ pattern[p].no <= decided.no

(* A decision is counted, once, where they are recorded one after the      *)
(* other: a decision that is recorded leaves one more in the pattern.      *)
NoneLost ==
    \A p \in There :
        (~together /\ (\A d \in Deciders : ~Recording(d)) /\ Cardinality(There) = 1
            /\ \A q \in Patterns : pattern[q].is # "deleted")
        => pattern[p].yes = decided.yes /\ pattern[p].no = decided.no
=============================================================================
