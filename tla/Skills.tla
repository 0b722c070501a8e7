------------------------------- MODULE Skills -------------------------------
(***************************************************************************)
(* Installed skills (src/myclaude/skills/): InstallSkill downloads a tree  *)
(* into a staging directory beside the others and puts it in the place of  *)
(* the skill's directory; the loader scans the directories, remembers      *)
(* which one a skill came from and reads it again at each use; the model   *)
(* has a catalog of what the loader found.  Several processes install      *)
(* into the user's directory.  One skill is followed, in this process's    *)
(* loader.                                                                 *)
(***************************************************************************)
EXTENDS Naturals, FiniteSets

CONSTANT MaxInstalls    \* bound: installations of the skill, numbered as they begin

VARIABLES
    dir,        \* dir[d]: the installation it holds files of, and which parts are there
    place,      \* place[i]: "none", "fetching", "clear" (the old one is gone), "over" or "left"
    own,        \* installations made in this process
    entry,      \* SkillLoader._skills: the directory, and the installation it was read from
    noticed,    \* the modification times the loader noted are still those of the directory
    catalog,    \* Agent._skill_catalog names the skill
    torn,       \* the removal of an old installation was not finished
    unlisted    \* InstallSkill has reloaded since the catalog was made

vars == <<dir, place, own, entry, noticed, catalog, torn, unlisted>>

Installs == 1..MaxInstalls
Home == MaxInstalls + 1     \* the skill's own directory; the others are for staging
Dirs == 1..Home
Parts == {"manifest", "rest"}
Gone == [of |-> 0, has |-> {}]
NoEntry == [dir |-> 0, of |-> 0]

TypeOK ==
    /\ dir \in [Dirs -> [of : {0} \cup Installs, has : SUBSET Parts]]
    /\ place \in [Installs -> {"none", "fetching", "clear", "over", "left"}]
    /\ own \subseteq Installs
    /\ entry \in [dir : {0} \cup Dirs, of : {0} \cup Installs]
    /\ {noticed, catalog, torn, unlisted} \subseteq BOOLEAN

-----------------------------------------------------------------------------
(* SkillLoader.                                                            *)

Readable(d) == "manifest" \in dir'[d].has
Staged == {d \in Dirs \ {Home} : Readable(d)}

\* _scan_directory: the entries in order, hidden ones too, and ".install-" comes first.
Found == IF Staged # {} THEN Staged ELSE {d \in {Home} : Readable(d)}

Load ==
    /\ IF Found = {} THEN entry' = NoEntry
       ELSE \E d \in Found : entry' = [dir |-> d, of |-> dir'[d].of]
    /\ noticed' = TRUE

\* Whoever makes the catalog makes it of the loader's entries.
Listed == catalog' = (entry'.dir # 0) /\ unlisted' = FALSE

Init ==
    /\ dir = [d \in Dirs |-> Gone] /\ place = [i \in Installs |-> "none"] /\ own = {}
    /\ entry = NoEntry /\ noticed = TRUE /\ catalog = FALSE /\ torn = FALSE /\ unlisted = FALSE

\* Of an installation of this process, clearing and renaming are one step for its agents.
AtRest == \A i \in own : place[i] # "clear"

\* needs_reload: the modification times are compared, not the contents.
NeedsReload == ~noticed

\* Before each message the terminal interface looks whether a directory was changed.
Refresh ==
    /\ AtRest /\ NeedsReload /\ UNCHANGED <<dir, place, own, torn>> /\ Load /\ Listed

\* /skill reload.
Reload ==
    /\ AtRest /\ UNCHANGED <<dir, place, own, torn>> /\ Load /\ Listed

\* get: the file is read again, and if it cannot be the entry serves.
Served == IF entry.dir # 0 /\ "manifest" \in dir[entry.dir].has THEN dir[entry.dir].of
          ELSE entry.of

Get ==
    /\ AtRest /\ entry.dir # 0 /\ entry' = [entry EXCEPT !.of = Served]
    /\ UNCHANGED <<dir, place, own, noticed, catalog, torn, unlisted>>

-----------------------------------------------------------------------------
(* install_skill.                                                          *)

Goes(i, there) == place' = [place EXCEPT ![i] = there]
Elsewhere == UNCHANGED <<entry, catalog, unlisted>>

Begin(i) ==
    /\ AtRest /\ place[i] = "none" /\ \A j \in 1..(i - 1) : place[j] # "none"
    /\ Goes(i, "fetching") /\ dir' = [dir EXCEPT ![i].of = i]
    /\ own' \in {own, own \cup {i}} /\ noticed' = FALSE
    /\ UNCHANGED torn /\ Elsewhere

Download(i) ==
    /\ AtRest /\ place[i] = "fetching"
    /\ \E p \in Parts \ dir[i].has : dir' = [dir EXCEPT ![i].has = @ \cup {p}]
    /\ UNCHANGED <<place, own, noticed, torn>> /\ Elsewhere

\* Faulty variant: what was downloaded stays.
Abandoned(i) == dir

\* The except clause: the network, a limit, a tree without manifest, a name taken meanwhile.
Discarded(i) == [dir EXCEPT ![i] = Gone]

Fails(i) ==
    /\ AtRest /\ place[i] = "fetching"
    /\ Goes(i, "over") /\ dir' = Discarded(i) /\ noticed' = FALSE
    /\ UNCHANGED <<own, torn>> /\ Elsewhere

\* Faulty variant: no look for the manifest.
MayReplaceAny(i) == TRUE

\* The download returned, that is all parts are there, and a manifest is among them.
MayReplace(i) == dir[i].has = Parts

Clear(i) ==
    /\ AtRest /\ place[i] = "fetching" /\ MayReplace(i)
    /\ \/ Goes(i, "clear") /\ dir' = [dir EXCEPT ![Home] = Gone] /\ UNCHANGED torn
       \/ \* rmtree raises half-way
          /\ dir[Home].has # {} /\ Goes(i, "over") /\ torn' = TRUE
          /\ \E some \in SUBSET dir[Home].has :
                dir' = [Discarded(i) EXCEPT ![Home].has = some]
    /\ noticed' = FALSE /\ UNCHANGED own /\ Elsewhere

\* rename, which fails when another process was faster; then reload, of this process.
Place(i) ==
    /\ place[i] = "clear" /\ Goes(i, "over") /\ UNCHANGED <<own, torn>>
    /\ IF dir[Home].has = {}
       THEN /\ dir' = [Discarded(i) EXCEPT ![Home] = dir[i]]
            /\ IF i \in own
               THEN Load /\ unlisted' = TRUE /\ UNCHANGED catalog
               ELSE noticed' = FALSE /\ Elsewhere
       ELSE dir' = Discarded(i) /\ noticed' = FALSE /\ Elsewhere

\* A cancelled run ends the download outside the except clause; another process dies.
Aborts(i) ==
    /\ place[i] = "fetching" \/ (place[i] = "clear" /\ i \notin own)
    /\ Goes(i, "left") /\ UNCHANGED <<own, noticed, torn>> /\ Elsewhere
    /\ AtRest /\ UNCHANGED dir

\* This process ends, perhaps while it removes the old installation, and starts again.
Restart ==
    /\ place' = [i \in Installs |-> IF i \in own /\ place[i] \in {"fetching", "clear"}
                                    THEN "left" ELSE place[i]]
    /\ \/ UNCHANGED <<dir, torn>>
       \/ /\ \E i \in own : place[i] = "fetching" /\ MayReplace(i)
          /\ \E some \in SUBSET dir[Home].has : dir' = [dir EXCEPT ![Home].has = some]
          /\ torn' = TRUE
    /\ own' = {} /\ Load /\ Listed

Next ==
    \/ \E i \in Installs : Begin(i) \/ Download(i) \/ Fails(i) \/ Clear(i) \/ Place(i) \/ Aborts(i)
    \/ Refresh \/ Reload \/ Get \/ Restart

Spec == Init /\ [][Next]_vars

-----------------------------------------------------------------------------
(* Properties.                                                             *)

Present == {i \in Installs : "manifest" \in dir[i].has /\ place[i] # "over"}

(* The skill's directory holds all of one installation or none; and once   *)
(* the loader has noticed the last change, LoadSkill serves what is        *)
(* installed and the model is told of it.  Three things get in the way: a  *)
(* removal that stops half-way; a staging directory with a manifest, of a  *)
(* download on its way or one that was cancelled, which the loader prefers *)
(* for as long as it lies there; and InstallSkill, which reloads without   *)
(* making the catalog, so that the next look finds nothing new.            *)
InstalledWhole ==
    torn \/ /\ dir[Home].has \in {{}, Parts}
            /\ noticed /\ Present = {} => Served = dir[Home].of
            /\ noticed /\ Present = {} /\ ~unlisted => catalog = (dir[Home].has # {})
=============================================================================
