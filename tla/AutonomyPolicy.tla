--------------------------- MODULE AutonomyPolicy ---------------------------
(***************************************************************************)
(* How far an organization may act by itself: one row with its policy      *)
(* (which mode, whether requests may be auto-approved) and its rollout     *)
(* (the kill switch, the cap of actions a day), a history of policy        *)
(* versions, and a copy of all that in the JSON of the organization, kept  *)
(* for the prompts.  Administrators change a part of it, but write all of  *)
(* it; editors of another part of the JSON write back all of that;         *)
(* executions of approvals are allowed or not by reading the policy, those *)
(* of workflow steps are not asked about.                                  *)
(*                                                                         *)
(* Every query sees what is committed (READ COMMITTED).  A record that the *)
(* code has turned into a dict is no longer referenced, so the session     *)
(* forgets it and the next query loads the row again.                      *)
(***************************************************************************)
EXTENDS Naturals, Sequences, FiniteSets

CONSTANTS
    Admins,         \* requests that change the policy or the rollout
    Editors,        \* requests that rewrite another part of the JSON
    Executors,      \* requests of /approve with YES EXECUTE
    Caps,           \* values of max_actions_per_day
    MaxVersions     \* bound

VARIABLES
    record,         \* the row of autonomy_policy_configs
    exists,         \* there is one
    versions,       \* autonomy_policy_versions, the oldest first
    legacy,         \* the copy in organizations.policy_json
    admin,
    editor,
    executor,
    today,          \* executions started since midnight
    unchecked,      \* history: those of workflow steps among them
    apart           \* history: what may differ from the policy in force, the
                    \* last "version" or the "copy" in the JSON

policyVars ==
    <<record, exists, versions, legacy, admin, editor, executor, today, unchecked, apart>>

PolicyPart  == {"mode", "allow"}
RolloutPart == {"kill", "cap"}

(* Below "approved_execution" nothing is executed; "autonomous" is         *)
(* above it.  kill stands for the kill switch, and for a pilot to which    *)
(* the organization does not belong.                                       *)
Modes   == {"suggest_only", "approved_execution"}
Configs == [mode : Modes, allow : BOOLEAN, kill : BOOLEAN, cap : Caps]

(* default_policy_config, which the row replaces when it is there          *)
Default == [mode |-> "approved_execution", allow |-> TRUE, kill |-> FALSE,
            cap |-> CHOOSE c \in Caps : \A d \in Caps : d <= c]

Policy(c)  == [mode |-> c.mode, allow |-> c.allow]
Policies   == [mode : Modes, allow : BOOLEAN]

(* c, with the columns of `columns` as they are in d                       *)
Merged(c, d, columns) == [col \in DOMAIN c |-> IF col \in columns THEN d[col] ELSE c[col]]

(* A request that changes the columns `updates`: the row it is going to    *)
(* write, and the row as it was loaded for that, if there was one.         *)
(* disturbed (history): the columns that other changes have given another  *)
(* value since it began.                                                   *)
Resting == [at |-> "idle", what |-> "policy", updates |-> [mode |-> "suggest_only"],
            config |-> Default, base |-> Default, new |-> FALSE, disturbed |-> {}]

(* A request has no columns of the other part, and values the code takes.  *)
IsChange(what, updates) ==
    /\ what \in {"policy", "rollout"}
    /\ DOMAIN updates \subseteq (IF what = "policy" THEN PolicyPart ELSE RolloutPart)
    /\ Merged(Default, updates, DOMAIN updates) \in Configs

AdminOK(r) ==
    /\ r \in [at : {"idle", "rollout", "row", "write", "sync"}, what : {"policy", "rollout"},
              updates : {r.updates}, config : Configs, base : Configs,
              new : BOOLEAN, disturbed : SUBSET (PolicyPart \cup RolloutPart)]
    /\ IsChange(r.what, r.updates)

(* A request that changes the feature flags, say: the copy as it was read  *)
(* with them; stale (history): a change has synchronized the copy since.   *)
NoEdit == [at |-> "idle", copy |-> Default, stale |-> FALSE]

EditorType == [at : {"idle", "write"}, copy : Configs, stale : BOOLEAN]

(* A request that is to execute what it approves.  round: the endpoint     *)
(* checks whether it may, then the engine does; cap as it was read; off    *)
(* (history): for either check, there was a moment since it began at which *)
(* the kill switch was off; blind: the engine's check met an error.        *)
Waiting == [at |-> "idle", round |-> 1, cap |-> 1, off |-> [n \in 1..2 |-> FALSE],
            blind |-> FALSE]

ExecutorType == [at : {"idle", "rollout", "count", "mode", "start"}, round : 1..2, cap : Caps,
                 off : [1..2 -> BOOLEAN], blind : BOOLEAN]

PolicyTypeOK ==
    /\ {record, legacy} \subseteq Configs
    /\ exists \in BOOLEAN
    /\ versions \in Seq(Policies)
    /\ DOMAIN admin = Admins /\ \A a \in Admins : AdminOK(admin[a])
    /\ editor \in [Editors -> EditorType]
    /\ executor \in [Executors -> ExecutorType]
    /\ {today, unchecked} \subseteq Nat
    /\ apart \subseteq {"version", "copy"}

PolicyInit ==
    /\ record = Default
    /\ exists = FALSE
    /\ versions = <<>>
    /\ legacy = Default
    /\ admin = [a \in Admins |-> Resting]
    /\ editor = [e \in Editors |-> NoEdit]
    /\ executor = [w \in Executors |-> Waiting]
    /\ today = 0
    /\ unchecked = 0
    /\ apart = {}

(* get_autonomy_policy, get_rollout_config                                 *)
Current == IF exists THEN record ELSE legacy

-----------------------------------------------------------------------------
(* update_autonomy_policy, update_rollout_config, rollback_autonomy_policy *)
Changing(a) == admin[a].at # "idle"

Change(a, r) == admin' = [admin EXCEPT ![a] = r]

Underway == {a \in Admins : Changing(a) /\ admin[a].what = "policy"}

(* The policy is read first.  A rollback changes it to that of a version.  *)
Begin(a, what, updates) ==
    /\ ~Changing(a)
    /\ what = "policy" => Len(versions) + Cardinality(Underway) < MaxVersions
    /\ Change(a, [Resting EXCEPT !.at = "rollout", !.what = what, !.updates = updates,
                                 !.config = Merged(Current, updates, DOMAIN updates)])
    /\ UNCHANGED <<record, exists, versions, legacy, editor, executor, today, unchecked, apart>>

Rollback(a) == \E i \in DOMAIN versions : Begin(a, "policy", versions[i])

\* mutant: what is not in the request is taken from the defaults
RolloutOfDefault(r) == Merged(Merged(r.config, Default, RolloutPart), r.updates, DOMAIN r.updates)

(* The rollout is read next, and gets its changes.                         *)
RolloutOf(r) == Merged(Merged(r.config, Current, RolloutPart), r.updates, DOMAIN r.updates)

ReadRollout(a) ==
    /\ admin[a].at = "rollout"
    /\ Change(a, [admin[a] EXCEPT !.at = "row", !.config = RolloutOf(admin[a])])
    /\ UNCHANGED <<record, exists, versions, legacy, editor, executor, today, unchecked, apart>>

(* _upsert_config_record loads the row once more, and sets every column.   *)
LoadRow(a) ==
    /\ admin[a].at = "row"
    /\ Change(a, [admin[a] EXCEPT !.at = "write", !.base = record, !.new = ~exists])
    /\ UNCHANGED <<record, exists, versions, legacy, editor, executor, today, unchecked, apart>>

(* Of these columns the ORM writes those that are not as they were loaded. *)
Flushed(r) == [col \in DOMAIN record |-> IF r.config[col] # r.base[col] THEN r.config[col] ELSE record[col]]

\* mutant: a version keeps the policy that is replaced
VersionReplaced(r) == Policy(r.base)

Version(r) == Policy(r.config)

Turned(config) ==
    executor' = [w \in Executors |->
        [executor[w] EXCEPT !.off = IF config.kill THEN @ ELSE [n \in 1..2 |-> TRUE]]]

Differing(config) == {col \in DOMAIN record : config[col] # record[col]}

(* The others that are under way are disturbed in what changes.            *)
Disturbed(r, columns) == [r EXCEPT !.disturbed = IF r.at = "idle" THEN {} ELSE @ \cup columns]

Commit(a, config) ==
    LET r == admin[a]
    IN  /\ record' = config
        /\ exists' = TRUE
        /\ versions' = IF r.what = "policy" THEN Append(versions, Version(r)) ELSE versions
        /\ admin' = [b \in Admins |-> IF b = a THEN [r EXCEPT !.at = "sync"]
                                      ELSE Disturbed(admin[b], Differing(config))]
        /\ apart' = IF r.disturbed \cap PolicyPart # {} THEN apart \cup {"version"}
                    ELSE IF r.what = "policy" THEN apart \ {"version"} ELSE apart
        /\ Turned(config)
        /\ UNCHANGED <<legacy, editor, today, unchecked>>

Write(a) ==
    /\ admin[a].at = "write"
    /\ IF admin[a].new THEN ~exists /\ Commit(a, admin[a].config)
                       ELSE Commit(a, Flushed(admin[a]))

(* The organization has but one row: the second INSERT fails.              *)
FailToInsert(a) ==
    /\ admin[a].at = "write" /\ admin[a].new /\ exists
    /\ Change(a, Resting)
    /\ UNCHANGED <<record, exists, versions, legacy, editor, executor, today, unchecked, apart>>

(* _sync_legacy_policy_json: one that was disturbed leaves an older policy *)
(* behind, and so does one that is lost.                                   *)
Sync(a) ==
    /\ admin[a].at = "sync"
    /\ legacy' = admin[a].config
    /\ Change(a, Resting)
    /\ editor' = [e \in Editors |-> [editor[e] EXCEPT !.stale = (editor[e].at # "idle")]]
    /\ apart' = IF admin[a].disturbed = {} THEN apart \ {"copy"} ELSE apart \cup {"copy"}
    /\ UNCHANGED <<record, exists, versions, executor, today, unchecked>>

LoseChange(a) ==
    /\ Changing(a)
    /\ Change(a, Resting)
    /\ apart' = IF admin[a].at = "sync" THEN apart \cup {"copy"} ELSE apart
    /\ UNCHANGED <<record, exists, versions, legacy, editor, executor, today, unchecked>>

-----------------------------------------------------------------------------
(* update_feature_flags; so do the other writers of policy_json: they read *)
(* all of it, change their own part, and write all of it.                  *)
ReadJson(e) ==
    /\ editor[e].at = "idle"
    /\ editor' = [editor EXCEPT ![e] = [NoEdit EXCEPT !.at = "write", !.copy = legacy]]
    /\ UNCHANGED <<record, exists, versions, legacy, admin, executor, today, unchecked, apart>>

WriteJson(e) ==
    /\ editor[e].at = "write"
    /\ legacy' = editor[e].copy
    /\ editor' = [editor EXCEPT ![e] = NoEdit]
    /\ apart' = IF editor[e].stale THEN apart \cup {"copy"} ELSE apart
    /\ UNCHANGED <<record, exists, versions, admin, executor, today, unchecked>>

-----------------------------------------------------------------------------
(* can_execute_post_approval, called by the endpoint and by the engine     *)
Move(w, r) ==
    /\ executor' = [executor EXCEPT ![w] = r]
    /\ UNCHANGED <<record, exists, versions, legacy, admin, editor, unchecked, apart>>

Checked(r, round) ==
    [r EXCEPT !.at = "rollout", !.round = round, !.off = [@ EXCEPT ![round] = ~Current.kill]]

Approve(w) ==
    /\ executor[w].at = "idle"
    /\ Move(w, Checked(Waiting, 1))
    /\ UNCHANGED today

Denied(w) == Move(w, Waiting) /\ UNCHANGED today

\* mutant: the engine relies on the endpoint's look at the switch
KillSwitchSeenOnce(r) == Current.kill /\ r.round = 1

KillSwitchSeen(r) == Current.kill

ReadSwitch(w) ==
    /\ executor[w].at = "rollout"
    /\ IF KillSwitchSeen(executor[w]) THEN Denied(w)
       ELSE Move(w, [executor[w] EXCEPT !.at = "count", !.cap = Current.cap]) /\ UNCHANGED today

\* mutant: the action that is to come is not counted
CapReachedLate(r) == today > r.cap

CapReached(r) == today >= r.cap

CountActions(w) ==
    /\ executor[w].at = "count"
    /\ IF CapReached(executor[w]) THEN Denied(w)
       ELSE Move(w, [executor[w] EXCEPT !.at = "mode"]) /\ UNCHANGED today

(* Allowed by the endpoint, the approval is committed as approved and the  *)
(* engine asks again; if it denies then, the approval stays as it is.      *)
ReadMode(w) ==
    /\ executor[w].at = "mode"
    /\ IF Current.mode = "suggest_only" THEN Denied(w)
       ELSE /\ Move(w, IF executor[w].round = 1 THEN Checked(executor[w], 2)
                       ELSE [executor[w] EXCEPT !.at = "start"])
            /\ UNCHANGED today

(* "If policy lookup fails unexpectedly, proceed": the engine only.        *)
FailLookup(w) ==
    /\ executor[w].at \in {"rollout", "count", "mode"} /\ executor[w].round = 2
    /\ Move(w, [executor[w] EXCEPT !.at = "start", !.blind = TRUE])
    /\ UNCHANGED today

(* create_execution                                                        *)
Start(w) ==
    /\ executor[w].at = "start"
    /\ today' = today + 1
    /\ Move(w, Waiting)

(* _execute_approved_step: the execution of a workflow step is a row of    *)
(* the same table, but nothing is asked before it is created.              *)
StartStep ==
    /\ today' = today + 1
    /\ unchecked' = unchecked + 1
    /\ UNCHANGED <<record, exists, versions, legacy, admin, editor, executor, apart>>

Midnight ==
    /\ today > 0
    /\ today' = 0
    /\ unchecked' = 0
    /\ UNCHANGED <<record, exists, versions, legacy, admin, editor, executor, apart>>

-----------------------------------------------------------------------------
(* A change sets every column, from values read earlier, but no column     *)
(* gets another value that nobody asked for: those that do are its own, or *)
(* others have changed them since it began, and it takes that back.        *)
WritesItsColumns ==
    [][\A a \in Admins :
          admin[a].at = "write" /\ admin'[a].at = "sync"
             => Differing(record') \subseteq DOMAIN admin[a].updates \cup admin[a].disturbed]_policyVars

(* The last version is the policy in force, except where a change that     *)
(* others disturbed in the policy was committed last.  The copy is what is *)
(* in force, except after a change that was disturbed or died before it    *)
(* wrote it, and after an edit of the JSON that began before a change and  *)
(* ended after it.  The next change that is not disturbed repairs either.  *)
InStep ==
    /\ "version" \notin apart /\ versions # <<>> => versions[Len(versions)] = Policy(record)
    /\ ("copy" \notin apart /\ \A a \in Admins : admin[a].at # "sync") => legacy = Current

(* No execution of an approval starts that was checked only while the kill *)
(* switch was on.                                                          *)
StartsUnderSwitch ==
    \A w \in Executors :
        LET r == executor[w]
        IN  r.at = "start" => r.off[1] /\ (r.off[2] \/ r.blind)
=============================================================================
