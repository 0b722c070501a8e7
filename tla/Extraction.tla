----------------------------- MODULE Extraction -----------------------------
(***************************************************************************)
(* Automatic memories (src/myclaude/memory/auto_memory.py and the agent's  *)
(* _extract_memories): after a run, and when the program is left, an LLM   *)
(* reads the part of the conversation no extraction has read and its       *)
(* answer becomes memory files and lines of an index.  Where that part     *)
(* begins is a count of messages, kept for the process and never set back  *)
(* when the conversation is replaced.                                      *)
(***************************************************************************)
EXTENDS Integers, Sequences, SequencesExt

CONSTANTS MaxSaid       \* bound: messages

VARIABLES
    hist,       \* the conversation, messages numbered as they were made
    said,       \* the last message made
    mark,       \* _last_extraction_msg_count
    current,    \* the snapshot being extracted, with where its part begins
    extracting, \* _extracting
    pending,    \* _pending_extraction, or None
    read,       \* messages an extraction has read
    memories,   \* messages a memory file was made of
    index,      \* those the index names
    changed,    \* the memory files changed since the run began
    marked,     \* the snapshot the mark was set from
    passed,     \* messages left out by an extraction of another conversation than that
    skipped     \* messages an extraction of the same conversation left out

vars == <<hist, said, mark, current, extracting, pending, read, memories, index, changed, marked, passed, skipped>>

None == <<>>

TypeOK ==
    /\ said \in 0..MaxSaid /\ hist \in Seq(1..said) /\ pending \in Seq(1..said)
    /\ mark \in 0..MaxSaid
    /\ current.snapshot \in Seq(1..said) /\ current.start \in 0..MaxSaid
    /\ extracting \in BOOLEAN /\ changed \in BOOLEAN /\ marked \in Seq(1..said)
    /\ \A s \in {read, memories, index, passed, skipped} : s \subseteq 1..said

Init ==
    /\ hist = <<>> /\ said = 0 /\ mark = 0
    /\ current = [snapshot |-> <<>>, start |-> 0]
    /\ extracting = FALSE /\ pending = None
    /\ read = {} /\ memories = {} /\ index = {}
    /\ changed = FALSE /\ marked = <<>> /\ passed = {} /\ skipped = {}

\* extract: a mark beyond the end means the conversation was shortened.
StartOf(s) == IF mark > Len(s) THEN 0 ELSE mark

\* extract begins on s; nothing new returns at once.
Begin(s) ==
    /\ extracting' = (StartOf(s) < Len(s))
    /\ current' = [snapshot |-> s, start |-> StartOf(s)]

\* A run ends; memory files the model wrote itself during the run suppress the extraction, and
\* so does a conversation that mentions nothing worth remembering.
EndRun(extract) ==
    /\ said < MaxSaid /\ said' = said + 1 /\ hist' = Append(hist, said + 1)
    /\ changed' = FALSE
    /\ \/ (~extract \/ changed) /\ UNCHANGED <<current, extracting, pending>>
       \/ extract /\ ~changed /\ extracting
          /\ pending' = hist' /\ UNCHANGED <<current, extracting>>
       \/ extract /\ ~changed /\ ~extracting /\ Begin(hist') /\ UNCHANGED pending
    /\ UNCHANGED <<mark, read, memories, index, marked, passed, skipped>>

\* Leaving the program extracts too, whatever was said.
Leave ==
    /\ hist # <<>>
    /\ \/ extracting /\ pending' = hist /\ UNCHANGED <<current, extracting>>
       \/ ~extracting /\ Begin(hist) /\ UNCHANGED pending
    /\ UNCHANGED <<hist, said, mark, read, memories, index, changed, marked, passed, skipped>>

\* After the snapshot in any case.
MarkAfterAny(answered, s) == Len(s)

\* Where the next part begins: after the snapshot when the LLM answered.
MarkAfter(answered, s) == IF answered THEN Len(s) ELSE mark

\* The extraction is over, one way or the other; a stashed snapshot follows at once.
Over(answered) ==
    LET s == current.snapshot
        m == MarkAfter(answered, s)
        begin == IF m > Len(pending) THEN 0 ELSE m
    IN  /\ mark' = m /\ marked' = IF m = mark THEN marked ELSE s
        /\ pending' = None
        /\ extracting' = (pending # None /\ begin < Len(pending))
        /\ current' = IF pending = None THEN current ELSE [snapshot |-> pending, start |-> begin]

Messages(s, from) == {s[i] : i \in (from + 1)..Len(s)}

\* The LLM answered: what it named becomes files, and lines of the index unless that write
\* fails.  What it was not shown and nothing has read is skipped.
Extracted ==
    /\ extracting
    /\ LET s == current.snapshot
           now == read \cup Messages(s, current.start)
           out == Messages(s, 0) \ (now \cup passed)
           same == IsPrefix(marked, s)
       IN  /\ read' = now
           /\ skipped' = IF same THEN skipped \cup out ELSE skipped
           /\ passed' = IF same THEN passed ELSE passed \cup out
           /\ \E m \in {{}, Messages(s, current.start)}, written \in BOOLEAN :
                /\ memories' = memories \cup m
                /\ index' = IF written THEN index \cup m ELSE index
    /\ Over(TRUE)
    /\ changed' = TRUE
    /\ UNCHANGED <<hist, said>>

\* No answer, or an unfinished one.
ExtractionFails ==
    /\ extracting
    /\ Over(FALSE)
    /\ UNCHANGED <<hist, said, read, memories, index, changed, passed, skipped>>

\* Compaction, /clear and /resume put another conversation in place.
Replace(h) ==
    /\ said < MaxSaid /\ said' = said + 1
    /\ hist # <<>> /\ hist' = h
    /\ UNCHANGED <<mark, current, extracting, pending, read, memories, index, changed, marked, passed, skipped>>

\* /memory clear removes the files and the index.
Clear ==
    /\ memories # {}
    /\ memories' = {} /\ index' = {} /\ changed' = TRUE
    /\ UNCHANGED <<hist, said, mark, current, extracting, pending, read, marked, passed, skipped>>

Next ==
    \/ \E extract \in BOOLEAN : EndRun(extract)
    \/ Leave \/ Extracted \/ ExtractionFails \/ Clear
    \/ Replace(<<said + 1>>) \/ Replace(<<>>)

Spec == Init /\ [][Next]_vars

-----------------------------------------------------------------------------
(* No message is passed over as read before that no extraction has read,   *)
(* unless the conversation does not continue the one the mark was set in;  *)
(* and the index names only what has a file.                               *)
NothingSkipped == skipped = {} /\ index \subseteq memories
=============================================================================
