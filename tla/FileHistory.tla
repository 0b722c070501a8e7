---------------------------- MODULE FileHistory ----------------------------
(***************************************************************************)
(* The checkpoints of a session: the backup FileHistory takes before every *)
(* change a tool makes, the snapshot at the end of a run, the clean-up of  *)
(* backups and the /rewind command.  Everything here is in the manifest,   *)
(* which every operation rewrites atomically under one lock, so a restart  *)
(* changes nothing of it.  A change is two steps, since a rewind may fall  *)
(* between the backup and the write of a background agent.                 *)
(***************************************************************************)
EXTENDS Integers, Sequences, SequencesExt

CONSTANTS Paths,
          MaxMade,         \* bound: contents written
          MaxVersions,     \* bound: backups of one path
          MaxSaid,         \* bound: runs and compactions
          MAX_SNAPSHOTS    \* snapshots kept

VARIABLES
    disk,       \* path -> its content
    made,       \* the last content written
    open,       \* paths backed up for a change that is not written yet
    was,        \* path -> content before each tracked change; its length is the version
    files,      \* the backup files, as <<path, version, content>>
    snaps,      \* the snapshots, oldest first
    hist,       \* the conversation, one entry for the messages of a run
    said        \* the last entry made

vars == <<disk, made, open, was, files, snaps, hist, said>>

Absent == 0

\* Snapshot: version and earlier content per path; a version 0 is a path it does not name.
\* then and moved are not in the code: the conversation it was made in, and whether that
\* has been rewritten since.
Snapshots == [index : 0..MaxSaid, version : [Paths -> 0..MaxVersions],
              before : [Paths -> 0..MaxMade], then : Seq(1..MaxSaid), moved : BOOLEAN]

TypeOK ==
    /\ made \in 0..MaxMade /\ said \in 0..MaxSaid
    /\ disk \in [Paths -> 0..made] /\ open \subseteq Paths
    /\ \A p \in Paths : was[p] \in Seq(0..made) /\ Len(was[p]) <= MaxVersions
    /\ files \subseteq Paths \X (1..MaxVersions) \X (1..MaxMade)
    /\ snaps \in Seq(Snapshots) /\ Len(snaps) <= MAX_SNAPSHOTS
    /\ hist \in Seq(1..said)

Init ==
    /\ disk = [p \in Paths |-> 1] /\ made = 1 /\ open = {}
    /\ was = [p \in Paths |-> <<>>] /\ files = {} /\ snaps = <<>>
    /\ hist = <<>> /\ said = 0

\* The same version for every change after the first: its file is written over.
NextVersionReused(p) == IF was[p] = <<>> THEN 1 ELSE Len(was[p])

\* The version a change of p is tracked under.
NextVersion(p) == Len(was[p]) + 1

\* track_edit: the file as it is now, under the next version.
TrackEdit(p) ==
    LET v == NextVersion(p)
        rest == {f \in files : <<f[1], f[2]>> # <<p, v>>}
    IN  /\ p \notin open /\ v <= MaxVersions
        /\ files' = IF disk[p] = Absent THEN files ELSE rest \cup {<<p, v, disk[p]>>}
        /\ was' = [was EXCEPT ![p] = Append(SubSeq(@, 1, v - 1), disk[p])]
        /\ open' = open \cup {p}
        /\ UNCHANGED <<disk, made, snaps, hist, said>>

\* The tool writes or deletes the file, or fails.
Finish(p) ==
    /\ p \in open /\ open' = open \ {p}
    /\ \/ made < MaxMade /\ made' = made + 1 /\ disk' = [disk EXCEPT ![p] = made + 1]
       \/ disk' = [disk EXCEPT ![p] = Absent] /\ UNCHANGED made
       \/ UNCHANGED <<disk, made>>
    /\ UNCHANGED <<was, files, snaps, hist, said>>

\* Only what the latest versions refer to.
ReferencedByHistory(ss, w) ==
    {f \in files : Len(w[f[1]]) = f[2] /\ w[f[1]][f[2]] # Absent}

\* _cleanup_backups: what a snapshot or the latest version of a path refers to stays.
Referenced(ss, w) ==
    {f \in files : \/ \E i \in DOMAIN ss : ss[i].version[f[1]] = f[2]
                                           /\ ss[i].before[f[1]] # Absent
                   \/ Len(w[f[1]]) = f[2] /\ w[f[1]][f[2]] # Absent}

\* A run ends: its messages are in the conversation and make_snapshot notes where it ends.
EndRun ==
    LET h == Append(hist, said + 1)
        s == [index |-> Len(h), version |-> [p \in Paths |-> Len(was[p])],
              before |-> [p \in Paths |-> IF was[p] = <<>> THEN 0 ELSE Last(was[p])],
              then |-> h, moved |-> FALSE]
        all == Append(snaps, s)
        ss == SubSeq(all, Len(all) - (IF Len(all) > MAX_SNAPSHOTS THEN MAX_SNAPSHOTS - 1
                                      ELSE Len(all) - 1), Len(all))
    IN  /\ said < MaxSaid /\ said' = said + 1
        /\ hist' = h /\ snaps' = ss
        /\ files' = Referenced(ss, was)
        /\ UNCHANGED <<disk, made, open, was>>

\* Compaction replaces the conversation; the snapshots keep their indices.
Compact ==
    /\ Len(hist) > 1 /\ said < MaxSaid /\ said' = said + 1
    /\ hist' = <<said + 1>>
    /\ snaps' = [i \in DOMAIN snaps |-> [snaps[i] EXCEPT !.moved = TRUE]]
    /\ UNCHANGED <<disk, made, open, was, files>>

\* The conversation up to the checkpoint.
Cut(s) == SubSeq(hist, 1, IF s.index < Len(hist) THEN s.index ELSE Len(hist))

\* What a rewind to s puts back for a tracked path: the snapshot's version, else the
\* first one; "keep" when that backup is gone or nothing is tracked.
Restored(s, p) ==
    LET v == IF s.version[p] # 0 THEN s.version[p] ELSE 1
        c == IF s.version[p] # 0 THEN s.before[p] ELSE was[p][1]
    IN  CASE was[p] = <<>> -> disk[p]
          [] was[p] # <<>> /\ c = Absent -> Absent
          [] was[p] # <<>> /\ c # Absent ->
                IF \E f \in files : f[1] = p /\ f[2] = v
                THEN (CHOOSE f \in files : f[1] = p /\ f[2] = v)[3]
                ELSE disk[p]

\* The versions of p a rewind to s leaves.
Kept(s, p) == SubSeq(was[p], 1, s.version[p])

\* FileHistory.rewind: files, snapshots and versions go back; the tools' cache does not.
RewindFiles(i) ==
    LET s == snaps[i]
        w == [p \in Paths |-> Kept(s, p)]
        ss == SubSeq(snaps, 1, i)
    IN  /\ disk' = [p \in Paths |-> Restored(s, p)]
        /\ was' = w /\ files' = Referenced(ss, w)
        /\ UNCHANGED <<made, open, said>>

\* /rewind with option 1, 2 (conversation only) or 3 (code only).
Rewind(i, option) ==
    /\ \/ option # 2 /\ RewindFiles(i)
       \/ option = 2 /\ UNCHANGED <<disk, made, open, was, files, said>>
    /\ hist' = IF option = 3 THEN hist ELSE Cut(snaps[i])
    /\ snaps' = IF option # 2 THEN SubSeq(snaps, 1, i)
                ELSE [j \in DOMAIN snaps |->
                        [snaps[j] EXCEPT !.moved = @ \/ j > i \/ snaps[i].moved]]

Next ==
    \/ \E p \in Paths : TrackEdit(p) \/ Finish(p)
    \/ EndRun \/ Compact
    \/ \E i \in DOMAIN snaps, option \in 1..3 : Rewind(i, option)

Spec == Init /\ [][Next]_vars

-----------------------------------------------------------------------------
(* Whatever was rewound, trimmed, cleaned up and tracked again since, a    *)
(* snapshot's backups still hold what they were taken of, and the first    *)
(* backup of a later path is there unless the path was changed twice; the  *)
(* snapshot's place in the conversation is right unless the conversation   *)
(* was compacted, or cut alone, after it.                                  *)
CheckpointsIntact ==
    \A i \in DOMAIN snaps : LET s == snaps[i] IN
        /\ \A p \in Paths :
            /\ s.version[p] # 0 /\ s.before[p] # Absent =>
                   <<p, s.version[p], s.before[p]>> \in files
            /\ s.version[p] = 0 /\ Len(was[p]) = 1 /\ was[p][1] # Absent =>
                   <<p, 1, was[p][1]>> \in files
        /\ ~s.moved => IsPrefix(s.then, hist) /\ s.index = Len(s.then)
=============================================================================
