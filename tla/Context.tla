------------------------------ MODULE Context ------------------------------
(***************************************************************************)
(* What an agent's conversation refers to (src/myclaude/context/): tool    *)
(* results too large to keep are files with a preview in their place, and  *)
(* the context ledger is told in reminders, each of what is new since the  *)
(* last.  Compaction puts a summary with the ledger in place of all but a  *)
(* tail and removes the files the tail does not refer to.  It waits for    *)
(* the LLM with the tail and the rendered ledger in hand, while skills are *)
(* activated, and /compact may do so while a run works on the same         *)
(* conversation.                                                           *)
(***************************************************************************)
EXTENDS Integers, Sequences, FiniteSets, SequencesExt

CONSTANTS
    MaxMade,        \* bound: messages
    MaxUpdates,     \* updates the ledger keeps
    MaxShown,       \* entries a rendering has room for: 30 of a section, 7000 characters in all
    MaxFailures     \* CompactCircuitBreaker.max_failures

VARIABLES
    conv,       \* the conversation
    made,       \* messages made
    files,      \* results that have a spill file
    replaced,   \* ContentReplacementState.replacements
    seen,       \* ... and seen_ids
    ledger,     \* ContextLedger.version
    injected,   \* _ledger_injected_version
    failures,   \* consecutive_failures
    phase,      \* "idle", "run" or "summing": the run waits for its summary
    auto,       \* the compaction of the run, its tail, the version of the ledger it found and
                \* what it tells of it, or NoSummary
    manual,     \* that of /compact
    overlapped, \* /compact or /rewind has met a run
    untold      \* updates taken back by a rewind, dropped from the ledger's list, left out of a
                \* full rendering or made while a summary was written, and not told since

vars == <<conv, made, files, replaced, seen, ledger, injected, failures, phase, auto, manual,
          overlapped, untold>>

\* A message: a result by its number, in full or as a preview, and the updates it tells.
Bodies == {"text", "small", "large", "preview"}
Message(id, body, tells) == [id |-> id, body |-> body, tells |-> tells]
NoSummary == [tail |-> <<>>, upTo |-> -1, told |-> {}]
Tells(c) == UNION {c[i].tells : i \in DOMAIN c}

TypeOK ==
    /\ \A i \in DOMAIN conv : /\ conv[i].id \in 0..made /\ conv[i].body \in Bodies
                              /\ conv[i].tells \subseteq 1..ledger
    /\ made \in 0..MaxMade /\ ledger \in Nat /\ injected \in 0..ledger
    /\ \A s \in {files, replaced, seen} : s \subseteq 1..made
    /\ failures \in Nat /\ phase \in {"idle", "run", "summing"}
    /\ \A s \in {auto, manual} : s.upTo \in -1..ledger /\ s.told \subseteq 1..s.upTo
    /\ overlapped \in BOOLEAN /\ untold \subseteq 1..ledger

Init ==
    /\ conv = <<>> /\ made = 0
    /\ files = {} /\ replaced = {} /\ seen = {}
    /\ ledger = 0 /\ injected = 0 /\ failures = 0
    /\ phase = "idle" /\ auto = NoSummary /\ manual = NoSummary
    /\ overlapped = FALSE /\ untold = {}

-----------------------------------------------------------------------------
(* The ledger.                                                             *)

\* _commit: a new task, steering, constraints, decisions, files, artifacts, verification and
\* orchestration, each when it differs from what is there.
Committed(n) == ledger' = ledger + n

\* render_for_prompt of n updates: all that stands in the ledger, or as much as there is room
\* for; which entries those are depends on the sections they are in and on their length.
Renderings(n) == IF n <= MaxShown THEN {1..n} ELSE kSubset(MaxShown, 1..n)

\* render_updates: a full rendering at first, then the updates still listed.
Tellings ==
    IF ledger = injected THEN {{}}
    ELSE IF injected = 0 THEN Renderings(ledger)
    ELSE {{v \in (injected + 1)..ledger : v > ledger - MaxUpdates}}

Reminded(c, told) == IF ledger > injected THEN Append(c, Message(0, "text", told)) ELSE c

-----------------------------------------------------------------------------
(* Spilled results.                                                        *)

\* apply_tool_result_budget: earlier decisions stand, new large results become previews.
TooLarge(c) == {c[i].id : i \in {j \in DOMAIN c : c[j].body = "large" /\ c[j].id \notin seen}}

Budgeted(c) ==
    [i \in DOMAIN c |->
        IF c[i].id # 0 /\ c[i].id \in replaced \cup TooLarge(c)
        THEN [c[i] EXCEPT !.body = "preview"] ELSE c[i]]

Decided(c) ==
    LET tagged == {c[i].id : i \in {j \in DOMAIN c : c[j].body = "preview"}}
    IN  /\ replaced' = replaced \cup TooLarge(c) \cup tagged
        /\ seen' = seen \cup ({c[i].id : i \in DOMAIN c} \ {0})

\* Nothing refers to a file.
ReferencedNowhere(c) == {}

\* referenced_persisted_paths, cleanup_tool_results.
Referenced(c) == {c[i].id : i \in {j \in DOMAIN c : c[j].body = "preview"}}

-----------------------------------------------------------------------------
(* Compaction.                                                             *)

\* _compute_keep_start_index: some messages before the tail, at least one in it.
Tails(c) == {SubSeq(c, k, Len(c)) : k \in 2..Len(c)}

\* Compaction begins: the ledger is rendered before the LLM is asked.
Begun(c) ==
    {[tail |-> tail, upTo |-> ledger, told |-> told] : tail \in Tails(c), told \in Renderings(ledger)}

\* auto_compact without the ledger in its recovery attachment.
SummaryOnly(s) == <<Message(0, "text", {})>> \o s.tail

\* The summary, with the recovery attachment: the ledger as it was rendered.
Compacted(s) == <<Message(0, "text", s.told)>> \o s.tail

\* The thresholds: below the first there is no compaction, above it not while the breaker is
\* open, above the second in any case.
Due(load) == load = "second" \/ failures < MaxFailures

\* auto_compact once the LLM has answered; all of the ledger now counts as told, what was left
\* out of the rendering and what was committed since among it.
LeftOut(s) == (1..s.upTo) \ s.told
Meanwhile(s) == (s.upTo + 1)..ledger

Rewritten(s, c) ==
    /\ conv' = c
    /\ files' = files \cap Referenced(s.tail)
    /\ injected' = ledger /\ failures' = 0
    /\ untold' = (untold \ s.told) \cup LeftOut(s) \cup Meanwhile(s)

\* The summary failed, or every half of it that was still too long.
Failed ==
    /\ failures' = IF failures < MaxFailures THEN failures + 1 ELSE failures
    /\ UNCHANGED <<conv, files, injected, untold>>

-----------------------------------------------------------------------------
(* The run.                                                                *)

Room(n) == made + n <= MaxMade

\* A message starts a run, and maybe a task: its goal and what is decided for it.
StartRun ==
    /\ phase = "idle" /\ phase' = "run" /\ Room(1) /\ made' = made + 1
    /\ conv' = Append(conv, Message(0, "text", {}))
    /\ \E n \in {0, 1} : Committed(n)
    /\ overlapped' = (overlapped \/ manual # NoSummary)
    /\ UNCHANGED <<files, replaced, seen, injected, failures, auto, manual, untold>>

\* A result: very long ones are spilled before they are added, and what the tool read, wrote
\* or left behind goes into the ledger.
Result(body) ==
    /\ phase = "run" /\ Room(1) /\ made' = made + 1
    /\ conv' = Append(conv, Message(made', body, {}))
    /\ files' = IF body = "preview" THEN files \cup {made'} ELSE files
    /\ \E n \in {0, 2} : Committed(n)
    /\ UNCHANGED <<replaced, seen, injected, failures, phase, auto, manual, overlapped, untold>>

\* activate_skill, from a slash command, which adds a message, or by a sub-agent that loads a
\* skill: at any time, while a summary is being written too.
SkillActivated ==
    /\ Room(1) /\ made' = made + 1 /\ Committed(1)
    /\ conv' \in {conv, Append(conv, Message(0, "text", {}))}
    /\ UNCHANGED <<files, replaced, seen, injected, failures, phase, auto, manual, overlapped,
                   untold>>

\* The top of an iteration: the ledger's news, the budget, and a compaction if one is due.
Top ==
    /\ phase = "run"
    /\ \E told \in Tellings :
          LET c == Reminded(conv, told)
          IN  /\ conv' = Budgeted(c) /\ Decided(c)
              /\ files' = files \cup TooLarge(c)
              /\ untold' = (untold \cup ((injected + 1)..ledger)) \ told
    /\ injected' = ledger
    /\ \/ UNCHANGED <<phase, auto>>
       \/ /\ \E load \in {"first", "second"} : Due(load)
          /\ phase' = "summing" /\ auto' \in Begun(conv')
    /\ UNCHANGED <<made, ledger, failures, manual, overlapped>>

Summarized ==
    /\ phase = "summing" /\ phase' = "run" /\ auto' = NoSummary
    /\ \/ /\ Rewritten(auto, Budgeted(Compacted(auto))) /\ Decided(Compacted(auto))
       \/ Failed /\ UNCHANGED <<replaced, seen>>
    /\ UNCHANGED <<made, ledger, manual, overlapped>>

\* The run ends or is cancelled, its summary with it.
EndRun ==
    /\ phase # "idle" /\ phase' = "idle" /\ auto' = NoSummary
    /\ UNCHANGED <<conv, made, files, replaced, seen, ledger, injected, failures, manual,
                   overlapped, untold>>

-----------------------------------------------------------------------------
(* Commands, which do not ask whether a run is on.                         *)

Compact ==
    /\ manual = NoSummary /\ manual' \in Begun(conv)
    /\ overlapped' = (overlapped \/ phase # "idle")
    /\ UNCHANGED <<conv, made, files, replaced, seen, ledger, injected, failures, phase, auto,
                   untold>>

ManualSummarized ==
    /\ manual # NoSummary /\ manual' = NoSummary
    /\ Rewritten(manual, Compacted(manual)) \/ Failed
    /\ UNCHANGED <<made, replaced, seen, ledger, phase, auto, overlapped>>

\* /rewind: what the messages cut off told is not told again.
Rewind ==
    /\ \E k \in 0..(Len(conv) - 1) :
        /\ conv' = SubSeq(conv, 1, k)
        /\ untold' = untold \cup (Tells(conv) \ Tells(conv'))
    /\ overlapped' = (overlapped \/ phase # "idle" \/ manual # NoSummary)
    /\ UNCHANGED <<made, files, replaced, seen, ledger, injected, failures, phase, auto, manual>>

\* /clear and /session: another conversation, with its session's ledger.
SwitchSession ==
    /\ phase = "idle" /\ manual = NoSummary /\ conv # <<>>
    /\ conv' = <<>> /\ injected' = 0 /\ ledger' \in {0, ledger}
    /\ untold' = {}
    /\ UNCHANGED <<made, files, replaced, seen, failures, phase, auto, manual, overlapped>>

Next ==
    \/ StartRun \/ SkillActivated \/ Top \/ Summarized \/ EndRun
    \/ \E b \in {"small", "large", "preview"} : Result(b)
    \/ Compact \/ ManualSummarized \/ Rewind \/ SwitchSession

\* Bound: what follows a command that met a run is not followed.
Alone == ~overlapped

Spec == Init /\ [][Next]_vars

-----------------------------------------------------------------------------
(* A preview in the conversation names a file that is there.               *)
PreviewsReadable == \A i \in DOMAIN conv : conv[i].body = "preview" => conv[i].id \in files

(* What the agent takes for told, the conversation tells: in a reminder or *)
(* in a summary.                                                           *)
LedgerTold == 1..injected \subseteq Tells(conv) \cup untold

(* Both hold unless a command met a run: compaction removes no file that a *)
(* remaining preview names and drops no part of the ledger, whatever was   *)
(* rewound, cancelled or summed up in between.  Four things leave updates  *)
(* untold: a rewind; more updates between two reminders than the ledger    *)
(* lists; a ledger that has more entries than a full rendering shows, so   *)
(* that the summary drops what the reminders it replaces had told; and a   *)
(* skill activated while a summary is written.                             *)
ContextKept == overlapped \/ (PreviewsReadable /\ LedgerTold)
=============================================================================
