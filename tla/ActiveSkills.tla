---------------------------- MODULE ActiveSkills ----------------------------
(***************************************************************************)
(* One skill as it is used: LoadSkill, called by the model or by a         *)
(* sub-agent, and the slash command, which the user may give at any time,  *)
(* make its text active and grant its tools; the text goes into a          *)
(* conversation once, and compaction leaves no more of it than a name.     *)
(* The agent knows the conversation of its last run, the surface the       *)
(* present one.                                                            *)
(***************************************************************************)
EXTENDS FiniteSets

CONSTANTS
    Texts,     \* texts of the skill, with different arguments or after an edit
    NoSkill

VARIABLES
    active,     \* Agent.active_skills
    granted,    \* _active_skill_allowed_tools, by the text that granted them
    shown,      \* texts in the present conversation
    hint,       \* its summary names the active skills
    results,    \* results of LoadSkill not in the conversation yet
    here,       \* Agent._current_conversation is the present conversation
    inRun,
    summary,    \* the compaction that waits for its summary, or NoSummary
    since,      \* texts made active since the conversation began
    carried,    \* tools an earlier conversation left granted
    untold      \* texts that were told to another conversation, or taken back

vars == <<active, granted, shown, hint, results, here, inRun, summary, since, carried, untold>>

NoSummary == [tail |-> {}, late |-> {}, names |-> FALSE, on |-> FALSE]

TypeOK ==
    /\ active \in Texts \cup {NoSkill}
    /\ \A s \in {granted, shown, results, since, carried, untold} : s \subseteq Texts
    /\ {hint, here, inRun} \subseteq BOOLEAN
    /\ summary \in [tail : SUBSET Texts, late : SUBSET Texts, names : BOOLEAN, on : BOOLEAN]

Init ==
    /\ active = NoSkill /\ granted = {} /\ shown = {} /\ hint = FALSE /\ results = {}
    /\ here = FALSE /\ inRun = FALSE /\ summary = NoSummary
    /\ since = {} /\ carried = {} /\ untold = {}

-----------------------------------------------------------------------------
(* activate_skill: nothing happens if this text is active already; tools   *)
(* are only ever added.                                                    *)
Activated(b) ==
    IF active = b THEN UNCHANGED <<active, granted, since>>
    ELSE active' = b /\ granted' = granted \cup {b} /\ since' = since \cup {b}

\* The texts come into the conversation, and are lost again if it is being compacted.
Shown(texts) ==
    /\ shown' = shown \cup texts /\ untold' = untold \ texts
    /\ summary' = IF summary.on THEN [summary EXCEPT !.late = @ \cup texts] ELSE summary

ShownElsewhere(texts) == untold' = untold \cup texts /\ UNCHANGED <<shown, summary>>

\* The model: of a text that is active already the result has no more than the name.
LoadSkill(b, reload) ==
    /\ inRun /\ Activated(b)
    /\ results' = IF active # b \/ reload THEN results \cup {b} ELSE results
    /\ UNCHANGED <<shown, hint, here, inRun, summary, carried, untold>>

\* The end of the batch: its results join the conversation of the run.
Recorded ==
    /\ inRun /\ results # {} /\ results' = {}
    /\ IF here THEN Shown(results) ELSE ShownElsewhere(results)
    /\ UNCHANGED <<active, granted, hint, here, inRun, since, carried>>

\* execute_inline: the text goes to the conversation of the last run.
Inline(b) ==
    /\ Activated(b)
    /\ IF active = b THEN UNCHANGED <<shown, summary, untold>>
       ELSE IF here THEN Shown({b}) ELSE ShownElsewhere({b})
    /\ UNCHANGED <<hint, results, here, inRun, carried>>

\* The copy of LoadSkill that a sub-agent has still acts on the main agent.
ChildLoads(b) ==
    /\ Activated(b) /\ ShownElsewhere(IF active # b THEN {b} ELSE {})
    /\ UNCHANGED <<hint, results, here, inRun, carried>>

StartRun ==
    /\ ~inRun /\ inRun' = TRUE /\ here' = TRUE
    /\ UNCHANGED <<active, granted, shown, hint, results, summary, since, carried, untold>>

\* The run ends, or is cancelled before the results of a batch are in.
EndRun ==
    /\ inRun /\ inRun' = FALSE /\ results' = {} /\ untold' = untold \cup results
    /\ UNCHANGED <<active, granted, shown, hint, here, summary, since, carried>>

-----------------------------------------------------------------------------
(* The conversation is cut or replaced.                                    *)

\* Faulty variant: the attachment of a summary names no skills.
NamedNone == FALSE

\* build_recovery_attachment of an agent with a ledger, as the main agent is one.
Named == active # NoSkill

\* A run's compaction or /compact, with its tail and the names of this moment.
Compact ==
    /\ ~summary.on
    /\ \E some \in SUBSET shown :
          summary' = [tail |-> some, late |-> {}, names |-> Named, on |-> TRUE]
    /\ UNCHANGED <<active, granted, shown, hint, results, here, inRun, since, carried, untold>>

\* What came in meanwhile is lost, as from a conversation that is replaced.
Summarized ==
    /\ summary.on /\ summary' = NoSummary
    /\ \/ /\ shown' = summary.tail /\ hint' = summary.names
          /\ untold' = untold \cup summary.late
       \/ UNCHANGED <<shown, hint, untold>>
    /\ UNCHANGED <<active, granted, results, here, inRun, since, carried>>

\* /rewind: active skills stay active.
Rewind ==
    /\ \E some \in SUBSET shown, named \in {FALSE, hint} :
        /\ shown' = some /\ hint' = named
        /\ untold' = (untold \cup (shown \ some)) \cup
                     (IF hint /\ ~named THEN {active} \ {NoSkill} ELSE {})
    /\ UNCHANGED <<active, granted, results, here, inRun, summary, since, carried>>

\* /session new and /session resume, whose conversation may tell of the skill or not.
SwitchSession ==
    /\ shown' \in SUBSET Texts /\ hint' = FALSE /\ here' = FALSE /\ summary' = NoSummary
    /\ since' = {} /\ carried' = granted /\ untold' = {active} \ {NoSkill}
    /\ UNCHANGED <<active, granted, results, inRun>>

\* Faulty variant: the names only.
ClearedNames == active' = NoSkill /\ UNCHANGED granted

\* clear_active_skills.
Cleared == active' = NoSkill /\ granted' = {}

\* /clear, during a run too.
Clear ==
    /\ Cleared
    /\ shown' = {} /\ hint' = FALSE /\ here' = FALSE /\ summary' = NoSummary
    /\ since' = {} /\ carried' = {} /\ untold' = {}
    /\ UNCHANGED <<results, inRun>>

Next ==
    \/ \E b \in Texts : Inline(b) \/ ChildLoads(b) \/ \E reload \in BOOLEAN : LoadSkill(b, reload)
    \/ StartRun \/ Recorded \/ EndRun \/ Compact \/ Summarized \/ Rewind \/ SwitchSession \/ Clear

Spec == Init /\ [][Next]_vars

-----------------------------------------------------------------------------
(* Properties.                                                             *)

(* The model knows the active text: it is in the conversation or about to  *)
(* be, or the summary says how to get it.  Except for texts that went to   *)
(* another conversation (a slash command before a first run, the LoadSkill *)
(* of a sub-agent, a conversation left) or were taken back (/rewind, a     *)
(* cancelled batch, a compaction that was under way).                      *)
ActiveTold == active = NoSkill \/ hint \/ active \in shown \cup results \cup untold

(* No tools are granted but by skills of this conversation, and those that *)
(* /session takes along.                                                   *)
GrantsOwn == granted \subseteq since \cup carried

SkillsKept == ActiveTold /\ GrantsOwn
=============================================================================
