----------------------------- MODULE Discovery -----------------------------
(*****************************************************************************)
(* Skills and extensions found on disk at boot: the order of the roots, the  *)
(* scan of each, the loading of every document found and the resolution of   *)
(* names.  A root may be missing, and a document may be edited or removed    *)
(* between the scan and the load.                                            *)
(*                                                                           *)
(* Skills are told apart twice, by the name of their directory while the     *)
(* roots are scanned and by the name they declare once they are loaded;      *)
(* extensions by the declared name only.                                     *)
(*****************************************************************************)
EXTENDS Naturals, Sequences, FiniteSets, SequencesExt

CONSTANTS
    Above,      \* the directories from the current one upwards
    GitRoot,    \* the set of the repository's root, empty outside of one
    ExtraRoots, \* configured roots, in order
    Dirs,       \* directory names in a root, sorted
    Docs,       \* documents, by kind of discovery
    Placements, \* the sets of roots that exist
    MaxEdits    \* bound: edits during the discovery

VARIABLES
    what,       \* skills or extensions
    disk,       \* per existing root and directory, the document or None
    cursor,     \* the root to scan, then the document to load
    hits,       \* what the scan found: root and directory
    loadedDocs, \* the documents that loaded, in that order
    chosen,     \* the documents kept
    stage,      \* scan, load, resolve or done
    edited      \* edits so far

discoveryVars == <<what, disk, cursor, hits, loadedDocs, chosen, stage, edited>>

None == [kind |-> "none"]
Home == "home"

-----------------------------------------------------------------------------
(* The roots, lowest priority first.                                        *)

External(base) == <<<<base, ".claude">>, <<base, ".agents">>>>

(* `ancestor_external_roots`: up to the repository's root, which comes      *)
(* first; only the current directory outside of a repository.               *)
Chain ==
    IF GitRoot = {} THEN <<Head(Above)>>
    ELSE LET top == CHOOSE i \in DOMAIN Above : Above[i] \in GitRoot
         IN  Reverse(SubSeq(Above, 1, top))

(* `skill_roots`. *)
SkillRoots ==
    External(Home) \o <<<<Home, "native">>>>
        \o FlattenSeq([i \in DOMAIN Chain |-> External(Chain[i])])
        \o <<<<Head(Above), "native">>>> \o ExtraRoots

(* `setting_roots`. *)
SettingRoots ==
    <<<<Home, ".zhive">>, <<Head(Above), ".zhive">>, <<Head(Above), ".zhive.local">>>> \o ExtraRoots

Roots == IF what = "skills" THEN SkillRoots ELSE SettingRoots

-----------------------------------------------------------------------------
(* Whether a document loads.                                                *)

(* `load` of a skill: both fences, the header parses, the name is of the    *)
(* allowed form and the description is short enough.                        *)
SkillLoads(doc) == doc.fenced /\ doc.parses /\ doc.name # "bad" /\ ~doc.long

(* `load_manifest_file` and `parse_manifest`: by the declared kind, and an  *)
(* extension is built in and describes its tools briefly.                   *)
ManifestLoads(doc) ==
    /\ doc.parses /\ doc.kind \in {"extension", "prompt", "skill"} /\ doc.schema = 1
    /\ doc.name # "bad"
    /\ doc.kind = "extension" => doc.builtin /\ ~doc.long

Loads(doc) == doc # None /\ IF what = "skills" THEN SkillLoads(doc) ELSE ManifestLoads(doc)

Init ==
    /\ what \in {"skills", "extensions"}
    /\ \E there \in Placements[what] :
         disk \in [there -> [{Dirs[i] : i \in DOMAIN Dirs} -> Docs[what] \cup {None}]]
    /\ cursor = 1 /\ hits = <<>> /\ loadedDocs = <<>> /\ chosen = <<>>
    /\ stage = "scan" /\ edited = 0

-----------------------------------------------------------------------------
(* The entries of a root that hold a document, sorted. *)
Entries(root) ==
    IF root \notin DOMAIN disk THEN <<>>
    ELSE LET names == SelectSeq(Dirs, LAMBDA d : disk[root][d] # None)
         IN  [i \in DOMAIN names |-> [root |-> root, dir |-> names[i]]]

(* A skill whose directory was seen in an earlier root takes over its slot; *)
(* an extension is put at the end in any case.                              *)
Merge(seen, found) ==
    LET fresh == SelectSeq(found, LAMBDA e :
                    what = "extensions" \/ \A i \in DOMAIN seen : seen[i].dir # e.dir)
        moved == [i \in DOMAIN seen |->
                   IF what = "skills" /\ \E k \in DOMAIN found : found[k].dir = seen[i].dir
                   THEN found[CHOOSE k \in DOMAIN found : found[k].dir = seen[i].dir]
                   ELSE seen[i]]
    IN  moved \o fresh

ScanRoot ==
    /\ stage = "scan"
    /\ hits' = Merge(hits, Entries(Roots[cursor]))
    /\ IF cursor = Len(Roots) THEN stage' = "load" /\ cursor' = 1
       ELSE cursor' = cursor + 1 /\ UNCHANGED stage
    /\ UNCHANGED <<what, disk, loadedDocs, chosen, edited>>

(* The plain `discover`, where later roots overwrite earlier ones by the    *)
(* name of the directory.                                                   *)
Discover ==
    LET has(d) == {i \in DOMAIN Roots : Roots[i] \in DOMAIN disk /\ disk[Roots[i]][d] # None}
    IN  {[root |-> Roots[CHOOSE i \in has(d) : \A j \in has(d) : j <= i], dir |-> d] :
            d \in {d \in ToSet(Dirs) : has(d) # {}}}

(* A document that does not load, or is gone, costs only itself. *)
LoadNext ==
    /\ stage = "load"
    /\ IF cursor > Len(hits) THEN stage' = "resolve" /\ UNCHANGED <<cursor, loadedDocs>>
       ELSE LET at == hits[cursor]
                doc == disk[at.root][at.dir]
            IN  /\ loadedDocs' = IF Loads(doc) THEN Append(loadedDocs, [at |-> at, doc |-> doc]) ELSE loadedDocs
                /\ cursor' = cursor + 1 /\ UNCHANGED stage
    /\ UNCHANGED <<what, disk, hits, chosen, edited>>

(* The last of each declared name is kept; `from_output` of extensions only *)
(* orders what is left by name as well.                                     *)
KeepLast(docs) ==
    SelectSeq(docs, LAMBDA s :
        \A i \in DOMAIN docs : docs[i].doc.name = s.doc.name => \E k \in i..Len(docs) : docs[k] = s)

(* Mutant: the first of a name is kept *)
ResolveFirst ==
    /\ stage = "resolve"
    /\ chosen' = SelectSeq(loadedDocs, LAMBDA s :
                    \A i \in DOMAIN loadedDocs : loadedDocs[i].doc.name = s.doc.name =>
                        \E k \in 1..i : loadedDocs[k] = s)
    /\ stage' = "done"
    /\ UNCHANGED <<what, disk, cursor, hits, loadedDocs, edited>>

(* The end of `discover_and_load`. *)
Resolve ==
    /\ stage = "resolve"
    /\ chosen' = KeepLast(loadedDocs)
    /\ stage' = "done"
    /\ UNCHANGED <<what, disk, cursor, hits, loadedDocs, edited>>

(* External: somebody rewrites or removes a document meanwhile. *)
Edit ==
    /\ stage \in {"scan", "load"} /\ edited < MaxEdits
    /\ \E root \in DOMAIN disk, doc \in Docs[what] \cup {None} :
         \E dir \in DOMAIN disk[root] : disk' = [disk EXCEPT ![root][dir] = doc]
    /\ edited' = edited + 1
    /\ UNCHANGED <<what, cursor, hits, loadedDocs, chosen, stage>>

Next == ScanRoot \/ LoadNext \/ Resolve \/ Edit

Spec == Init /\ [][Next]_discoveryVars

-----------------------------------------------------------------------------
(* The list in the model's prompt, the names left to slash commands, and    *)
(* what a host can run by hand.                                             *)
Available == SelectSeq(chosen, LAMBDA s : ~s.doc.slashOnly)
SlashOnly == SelectSeq(chosen, LAMBDA s : s.doc.slashOnly)
Catalogue == chosen

(* The documented precedence of the roots: local beats project beats home,  *)
(* and a directory deeper in the tree beats one above it.                   *)
Depth(base) == IF base = Home THEN 0
               ELSE 1 + Len(Above) - (CHOOSE i \in DOMAIN Above : Above[i] = base)
Rank(root) ==
    IF \E i \in DOMAIN ExtraRoots : ExtraRoots[i] = root
    THEN 100 + (CHOOSE i \in DOMAIN ExtraRoots : ExtraRoots[i] = root)
    ELSE IF root[2] = ".zhive.local" THEN 90
    ELSE IF root \in {<<Head(Above), "native">>, <<Head(Above), ".zhive">>} THEN 80
    ELSE IF root = <<Home, "native">> THEN 9
    ELSE 10 * Depth(root[1]) + (IF root[2] = ".agents" THEN 2 ELSE 1)

(* The discovery has the shape it announces. *)
TypeOK ==
    /\ what \in {"skills", "extensions"}
    /\ stage \in {"scan", "load", "resolve", "done"}
    /\ cursor \in 1..(Len(Roots) + Len(hits) + 1)
    /\ \A i \in DOMAIN hits : hits[i].root \in DOMAIN disk
    /\ Len(chosen) <= Len(loadedDocs) /\ Len(loadedDocs) <= Len(hits)
    /\ edited \in 0..MaxEdits

Shadows == \E i, j \in DOMAIN hits :
              Rank(hits[i].root) > Rank(hits[j].root) /\ i < j

(* The documented rule: of two documents that declare one name, the one of  *)
(* the higher root is kept.                                                 *)
HighestRootWins ==
    stage = "done" =>
        \A i \in DOMAIN chosen, k \in DOMAIN loadedDocs :
            loadedDocs[k].doc.name = chosen[i].doc.name =>
                Rank(loadedDocs[k].at.root) <= Rank(chosen[i].at.root)

(* Once done, every declared name that loaded is there exactly once, and    *)
(* the model's list and the slash-only names share it out.  The document    *)
(* kept is the one of the highest root for extensions, and for skills as    *)
(* long as no directory of a higher root took over the slot of a lower one: *)
(* then the last slot is kept, which may hold the lower document (see       *)
(* HighestRootWins).  On a quiet disk the ordered scan finds what the plain *)
(* one does.                                                                *)
NamesResolved ==
    stage = "done" =>
        /\ {loadedDocs[i].doc.name : i \in DOMAIN loadedDocs} = {chosen[i].doc.name : i \in DOMAIN chosen}
        /\ \A i, j \in DOMAIN chosen : chosen[i].doc.name = chosen[j].doc.name => i = j
        /\ what = "skills" =>
             /\ Len(Available) + Len(SlashOnly) = Len(Catalogue)
             /\ \A i, j \in DOMAIN hits : hits[i].dir = hits[j].dir => i = j
        /\ ~Shadows => HighestRootWins
        /\ what = "extensions" => ~Shadows
        /\ edited = 0 /\ what = "skills" =>
             /\ ToSet(hits) = Discover
             /\ \A root \in DOMAIN disk : \A dir \in DOMAIN disk[root] :
                    disk[root][dir] # None =>
                        \E i \in DOMAIN hits : hits[i].dir = dir /\ Rank(hits[i].root) >= Rank(root)
=============================================================================
