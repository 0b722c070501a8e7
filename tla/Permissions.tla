---------------------------- MODULE Permissions ----------------------------
(***************************************************************************)
(* Who may run a tool call (src/myclaude/permissions/): a check of layers, *)
(* of which the first that has an opinion decides, rules read from the     *)
(* local rules file at every check, and the answers of the user, which     *)
(* "always" adds to the file and to the process's memory.  The file is     *)
(* locked within a process; processes that share it read it, then replace  *)
(* it.                                                                     *)
(***************************************************************************)
EXTENDS Naturals, FiniteSets

CONSTANTS
    Procs,      \* processes in one project
    Calls,      \* the calls there are, of the kinds below
    MaxRules    \* bound: rules but those of answers, before nobody adds another by hand

VARIABLES
    tried,      \* bound: the one call this history is about
    rules,      \* the rules in the file
    broken,     \* the file is not YAML while a user edits it
    session,    \* session[p]: _session_allowed
    asking,     \* asking[p]: the calls the user is asked about
    saving,     \* saving[p]: an append in progress, the rules it read and adds, or NoAppend
    always,     \* the calls answered "always"
    lost,       \* of these, those whose rule an append took that no longer knew the file
    again       \* calls asked about although they were answered "always"

vars == <<tried, rules, broken, session, asking, saving, always, lost, again>>

\* One call of each kind the layers tell apart; "build; look" runs "build" and "look", and
\* "plug-in" is a tool whose name no rule can carry.
Commands == {"build", "look", "build; look", "wipe", "plug-in"}
Dangerous == {"wipe"}
SafeToLook == {"look"}
Shell == {"build", "look", "build; look", "wipe"}
Segments(c) == IF c = "build; look" THEN {"build", "look"} ELSE {c}
Writes == {"edit", "plan", "config", "outside"}
Unspeakable == {"plug-in"}

\* What is in force at a check and nothing here depends on but the check: the mode, whether
\* commands run in an OS sandbox that answers for them, and whether the path sandbox's root is
\* the project or a worktree.
Modes == {"default", "acceptEdits", "plan", "bypassPermissions"}
Settings == [mode : Modes, boxed : BOOLEAN, home : BOOLEAN]

Effects == {"allow", "ask", "deny"}
Rules == [on : Calls \cup UNION {Segments(c) : c \in Calls}, effect : Effects]
NoAppend == [read |-> {}, add |-> {}]

TypeOK ==
    /\ tried \in Calls /\ rules \subseteq Rules /\ broken \in BOOLEAN
    /\ session \in [Procs -> SUBSET Calls] /\ asking \in [Procs -> SUBSET Calls]
    /\ \A p \in Procs : saving[p].read \subseteq Rules /\ saving[p].add \subseteq Rules
    /\ always \subseteq Calls /\ lost \subseteq Calls /\ again \subseteq Calls

Init ==
    /\ tried \in Calls /\ rules = {} /\ broken = FALSE
    /\ session = [p \in Procs |-> {}] /\ asking = [p \in Procs |-> {}]
    /\ saving = [p \in Procs |-> NoAppend]
    /\ always = {} /\ lost = {} /\ again = {}

\* _load_rules_file: nothing of a broken file, and no rule whose name does not parse.
Loaded == IF broken THEN {} ELSE {r \in rules : r.on \notin Unspeakable}

\* _resolve_matching: deny, then ask, then allow.
Strongest(effects) ==
    IF "deny" \in effects THEN "deny"
    ELSE IF "ask" \in effects THEN "ask"
    ELSE IF "allow" \in effects THEN "allow" ELSE "none"

Resolve(c) == Strongest({r.effect : r \in {s \in Loaded : s.on = c}})

\* evaluate: a shell expression is allowed when every command of it is.
Evaluate(c) ==
    LET parts == {Resolve(s) : s \in Segments(c)}
        worst == Strongest(parts \cup {Resolve(c)})
    IN  IF c \notin Shell THEN Resolve(c)
        ELSE IF worst \in {"deny", "ask"} THEN worst
        ELSE IF parts = {"allow"} THEN "allow" ELSE "none"

\* PathSandbox: which file a write reaches depends on where the sandbox's root is.
WriteDenied(e, c) == c = "config" /\ e.home

Outside(e, c) == c = "outside" \/ (c = "config" /\ ~e.home)

\* mode_decide.
ByMode(m, c) ==
    IF m = "bypassPermissions" THEN "allow"
    ELSE IF m = "plan" THEN "deny"
    ELSE IF m = "acceptEdits" /\ c \in Writes THEN "allow" ELSE "ask"

\* The layers no allow rule overrules, then those that allow.
Refused(e, c) ==
    c \in Dangerous \/ Evaluate(c) = "deny" \/ (Evaluate(c) # "ask" /\ WriteDenied(e, c))

MustAsk(e, c) == Evaluate(c) = "ask" \/ (Outside(e, c) /\ e.mode # "bypassPermissions")

\* What the user answered in this process is not asked for.
GrantedByRules(e, p, c) ==
    \/ Evaluate(c) = "allow"
    \/ c = "plan" /\ e.mode = "plan"
    \/ c \in Commands /\ (c \in SafeToLook \/ e.boxed)

Granted(e, p, c) ==
    \/ Evaluate(c) = "allow"
    \/ c = "plan" /\ e.mode = "plan"
    \/ c \in Commands /\ (c \in SafeToLook \/ e.boxed)
    \/ c \in session[p]

Decision(e, p, c) ==
    IF Refused(e, c) THEN "deny"
    ELSE IF MustAsk(e, c) THEN "ask"
    ELSE IF Granted(e, p, c) THEN "allow" ELSE ByMode(e.mode, c)

\* The answer "always" speaks for this check: no rule says ask and the path is in the sandbox,
\* which outrank any answer, and this process was given it, or its rule is the call's own and
\* the file is whole and still has it.
Settled(e, p, c) ==
    /\ ~MustAsk(e, c)
    /\ \/ c \in session[p]
       \/ /\ c \in always \ Unspeakable /\ Segments(c) = {c}
          /\ ~broken /\ c \notin lost

\* A call is checked and needs an answer; one that is denied or allowed changes nothing here.
Check(p, c) ==
    /\ c \notin asking[p]
    /\ asking' = [asking EXCEPT ![p] = @ \cup {c}]
    /\ \E needless \in {Settled(e, p, c) : e \in {s \in Settings : Decision(s, p, c) = "ask"}} :
        again' = IF needless THEN again \cup {c} ELSE again
    /\ UNCHANGED <<tried, rules, broken, session, saving, always, lost>>

\* No, yes this once, or no answer before the deadline.
Answered(p, c) ==
    /\ c \in asking[p] /\ saving[p] = NoAppend
    /\ asking' = [asking EXCEPT ![p] = @ \ {c}]
    /\ UNCHANGED <<tried, rules, broken, session, saving, always, lost, again>>

\* The rule "always" adds: the call itself, word for word.
OwnRule(c) == [on |-> c, effect |-> "allow"]

\* append_local_rule reads the file under the process's lock ...
Reads(p, r) == saving[p] = NoAppend /\ saving' = [saving EXCEPT ![p] = [read |-> Loaded, add |-> {r}]]

Always(p, c) ==
    /\ c \in asking[p] /\ Reads(p, OwnRule(c))
    /\ UNCHANGED <<tried, rules, broken, session, asking, always, lost, again>>

\* /permission add.
AddRule(p, c, e) ==
    /\ Cardinality(rules \ {OwnRule(d) : d \in always}) < MaxRules
    /\ e \in {"allow", "deny"} /\ c \notin Unspeakable /\ Reads(p, [on |-> c, effect |-> e])
    /\ UNCHANGED <<tried, rules, broken, session, asking, always, lost, again>>

\* append_local_rule without the rules it has read.
OnlyAdded(s) == s.add

\* ... and replaces it; the call that waited for "always" is remembered and runs.
Written(s) == s.read \cup s.add

\* The file is not what the append has read: another process, or the user, wrote it in between,
\* or it could not be read.
Outdated(s) == s.read # {r \in rules : r.on \notin Unspeakable}

Replace(p) ==
    LET s == saving[p]
        answered == asking[p] \cap {r.on : r \in {a \in s.add : a.effect = "allow"}}
    IN  /\ s # NoAppend
        /\ rules' = Written(s) /\ broken' = FALSE
        /\ session' = [session EXCEPT ![p] = @ \cup answered]
        /\ always' = always \cup answered
        /\ lost' = {c \in always : OwnRule(c) \notin Written(s) /\ (c \in lost \/ Outdated(s))}
        /\ asking' = [asking EXCEPT ![p] = @ \ answered]
        /\ saving' = [saving EXCEPT ![p] = NoAppend]
        /\ UNCHANGED <<tried, again>>

\* /permission reset empties the file: what it said is withdrawn.
Reset(p) ==
    /\ saving[p] = NoAppend /\ rules # {}
    /\ rules' = {} /\ broken' = FALSE
    /\ always' = {} /\ lost' = {}
    /\ UNCHANGED <<tried, session, asking, saving, again>>

\* The user edits the file by hand, not always in one go.
UserWrites(c) ==
    /\ Cardinality(rules) < MaxRules
    /\ ~broken /\ \E e \in {"ask", "deny"} : rules' = rules \cup {[on |-> c, effect |-> e]}
    /\ UNCHANGED <<tried, broken, session, asking, saving, always, lost, again>>

UserBreaks ==
    /\ Cardinality(rules) > 0
    /\ broken' = ~broken
    /\ UNCHANGED <<tried, rules, session, asking, saving, always, lost, again>>

\* A new process in the same project.
Restart(p) ==
    /\ session[p] # {} \/ asking[p] # {}
    /\ session' = [session EXCEPT ![p] = {}] /\ asking' = [asking EXCEPT ![p] = {}]
    /\ saving' = [saving EXCEPT ![p] = NoAppend]
    /\ UNCHANGED <<tried, rules, broken, always, lost, again>>

Next ==
    \/ \E p \in Procs :
        \/ Check(p, tried) \/ Answered(p, tried) \/ Always(p, tried)
        \/ Replace(p) \/ Reset(p) \/ Restart(p)
        \/ \E c \in Segments(tried) \cup {tried}, e \in Effects : AddRule(p, c, e)
    \/ \E c \in Segments(tried) \cup {tried} : UserWrites(c)
    \/ UserBreaks

Spec == Init /\ [][Next]_vars

-----------------------------------------------------------------------------
(* A call answered "always" is not asked about again: by the process that  *)
(* was answered for the rest of its life, by every process as long as its  *)
(* rule is in the file, unless it is a command of several or a tool no     *)
(* rule can name.  Asked again in spite of the answer are a call a rule    *)
(* says to ask about, and a path outside the sandbox.  A rule leaves the   *)
(* file only with /permission reset, or by an append that had read it      *)
(* before others wrote, or while it could not be read.                     *)
AnswersKept == again = {} /\ \A c \in always \ (lost \cup Unspeakable) : OwnRule(c) \in rules
=============================================================================
