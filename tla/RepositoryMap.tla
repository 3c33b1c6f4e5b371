---------------------------- MODULE RepositoryMap ----------------------------
(***************************************************************************)
(* The repository map (repo_map.rs): the tracked paths and the special     *)
(* files (manifests, instructions, readmes) of a Git repository, cached    *)
(* behind the stamp of the index file and the digests of the special       *)
(* files, and the lazily filled symbol index.                              *)
(*                                                                         *)
(* The agent makes one call at a time; git, the user and the tools change  *)
(* the index and the files between any two steps of a call.  The stamp     *)
(* (length and modification time) of an index file is a number of its own  *)
(* for every rewrite.  A manifest's content is a sequence of line records, *)
(* that of a source a sequence of pieces (SymbolNavigation).               *)
(***************************************************************************)
EXTENDS SymbolNavigation, Lists

CONSTANTS Versions,        \* path -> sequence of the contents the file may have
          MatchScore,      \* <<term, path>> -> 1, 3 or 5; absent when the term misses
          FirstTracked,    \* the tracked paths at the start
          Retrackings,     \* the sets of tracked paths the index is rewritten to
          Calls,           \* the calls the agent makes
          MaxRewrites, MaxEdits, MaxCalls,
          MaxFiles, MaxSpecialFiles, MaxManifest, MaxInstruction, MaxReadme

ASSUME RepoAssumption ==
    /\ Len(RepoFiles) \in Nat /\ DOMAIN RepoFiles = 1 .. Len(RepoFiles)
    /\ DOMAIN Versions = DOMAIN RepoFiles
    /\ \A p \in DOMAIN Versions : Len(Versions[p]) \in Nat \ {0}
    /\ {FirstTracked} \cup Retrackings \subseteq SUBSET DOMAIN RepoFiles
    /\ MaxSpecialFiles \in Nat

VARIABLES gitIndex,        \* [stamp, tracked, plain]: plain when read_git_index can read it
          disk,            \* path -> the version on disk, 0 when there is none to read
          mapCache,        \* the CacheEntry, or NoEntry
          symbolIndex,     \* the SymbolIndex
          mapCall,         \* the call in progress
          mapEdits, mapCalls,
          indexSeen        \* the sets of tracked paths the index held during the call

repoVars == <<gitIndex, disk, mapCache, symbolIndex, mapCall, mapEdits, mapCalls, indexSeen>>

Tracked(S) == Sift([p \in DOMAIN RepoFiles |-> p], S)
NoInventory == [paths |-> <<>>, special |-> <<>>, stamp |-> 0, listed |-> FALSE]
NoEntry == [inventory |-> NoInventory, map |-> [tracked |-> <<>>]]
Idle == [pc |-> "idle", op |-> "", todo |-> <<>>, terms |-> <<>>, targets |-> {},
         inventory |-> NoInventory, answer |-> NoEntry, result |-> <<>>]

(* ------------------------------ path classes ------------------------------ *)

ManifestNames ==
    ("Cargo.toml" :> "cargo") @@ ("package.json" :> "node") @@ ("deno.json" :> "node")
    @@ ("pyproject.toml" :> "python") @@ ("go.mod" :> "go") @@ ("pom.xml" :> "java")
    @@ ("Package.swift" :> "swift") @@ ("composer.json" :> "php") @@ ("Gemfile" :> "ruby")
    @@ ("mix.exs" :> "elixir") @@ ("a.sln" :> "dotnet")

ManifestKind(p) ==
    IF RepoFiles[p].name \in DOMAIN ManifestNames THEN ManifestNames[RepoFiles[p].name] ELSE "other"
IsManifest(p) == ManifestKind(p) # "other"
IsInstruction(p) == RepoFiles[p].name \in {"AGENTS.md", "CLAUDE.md", "CONTRIBUTING.md"}
IsReadme(p) == RepoFiles[p].name = "README.md"
IsMarkdown(p) == RepoFiles[p].ext = "md"
IsSpecialFile(p) == IsManifest(p) \/ IsInstruction(p) \/ IsReadme(p)
IsSourceFile(p) == RepoFiles[p].ext \in {"rs", "py", "ts", "go"}
IsTestPath(p) == \/ ToSet(RepoFiles[p].dir) \cap {"test", "tests", "__tests__"} # {}
                 \/ RepoFiles[p].marks \cap {"test_", "_test", ".test."} # {}

ClassifyFile(p) ==
    IF IsManifest(p) THEN "manifest"
    ELSE IF IsInstruction(p) THEN "instruction"
    ELSE IF IsReadme(p) \/ IsMarkdown(p) THEN "documentation"
    ELSE IF IsTestPath(p) THEN "test"
    ELSE IF IsSourceFile(p) THEN "source" ELSE "other"

SelectionKind(p) == IF ClassifyFile(p) \in {"source", "other"} THEN "file" ELSE ClassifyFile(p)

(* source_root: up to the first conventional directory, or else the parent *)
SourceRoot(p) ==
    LET dir  == RepoFiles[p].dir
        conv == {i \in DOMAIN dir : dir[i] \in {"src", "lib", "app", "cmd", "internal"}}
    IN  IF conv = {} THEN dir ELSE SubSeq(dir, 1, CHOOSE i \in conv : \A j \in conv : i <= j)

ScopeContains(scope, dir) == IsPrefix(scope, dir)

(* wildcard_path_matches: an exact path, or one directory under "prefix/*" *)
WildcardMatches(pattern, dir) ==
    \/ pattern = dir
    \/ /\ pattern # <<>> /\ Last(pattern) = "*"
       /\ Len(dir) = Len(pattern) /\ IsPrefix(Front(pattern), dir)

(* -------------------------------- reading -------------------------------- *)

SpecialLimit(p) == IF IsManifest(p) THEN MaxManifest
                   ELSE IF IsInstruction(p) THEN MaxInstruction ELSE MaxReadme

(* read_special_file: absent, a link and a failed read are all unreadable *)
ReadSpecialFile(p) ==
    IF disk[p] = 0 THEN [path |-> p, content |-> <<>>, truncated |-> FALSE, readable |-> FALSE]
    ELSE LET text == Versions[p][disk[p]]
         IN  [path |-> p, content |-> AtMost(SpecialLimit(p), text),
              truncated |-> Len(text) > SpecialLimit(p), readable |-> TRUE]

(* The special files of an inventory, the first ones in path order. *)
ReadSpecialFiles(paths) ==
    LET special == AtMost(MaxSpecialFiles, Sift(paths, {p \in DOMAIN RepoFiles : IsSpecialFile(p)}))
    IN  [i \in DOMAIN special |-> ReadSpecialFile(special[i])]

IsCurrentByStamp(entry) == entry.inventory.stamp = gitIndex.stamp

(* CacheEntry::is_current: the index stamp, then every special file's digest *)
IsCurrent(entry) ==
    /\ entry.inventory.stamp = gitIndex.stamp
    /\ \A i \in DOMAIN entry.inventory.special :
          ReadSpecialFile(entry.inventory.special[i].path) = entry.inventory.special[i]

Fingerprint(inventory) == <<inventory.paths, inventory.special>>

(* ------------------------------- manifests ------------------------------- *)

(* parse_toml_like over line records: section, assign, open (an array that the
   line does not close), more (a line of it), bad *)
TomlLine(acc, line) ==
    LET named == line.key = "name" /\ line.kind = "assign"
                 /\ acc.section \in {"package", "project", "tool.poetry"}
        member == line.key = "members" /\ line.kind = "assign" /\ acc.section = "workspace"
    IN  CASE acc.array # "" ->
               IF line.kind # "close" THEN [acc EXCEPT !.values = @ \o line.values]
               ELSE LET all == acc.values \o line.values
                    IN  [acc EXCEPT !.array = "", !.values = <<>>,
                                    !.bad = @ \/ all = <<>>,
                                    !.members = IF acc.array = "members" THEN @ \o all ELSE @]
          [] acc.array = "" /\ line.kind = "section" -> [acc EXCEPT !.section = line.key]
          [] acc.array = "" /\ line.kind = "open" ->
               [acc EXCEPT !.array = line.key, !.values = line.values]
          [] acc.array = "" /\ line.kind = "assign" ->
               [acc EXCEPT !.assigned = TRUE,
                           !.name = IF named THEN line.values ELSE @,
                           !.bad = @ \/ (member /\ line.values = <<>>),
                           !.members = IF member THEN @ \o line.values ELSE @]
          [] OTHER -> [acc EXCEPT !.bad = TRUE]

ParseTomlLike(text) ==
    LET acc == FoldLeft(TomlLine, [section |-> "", name |-> <<>>, members |-> <<>>, array |-> "",
                                   values |-> <<>>, assigned |-> FALSE, bad |-> FALSE], text)
        whole == ~acc.bad /\ acc.array = ""
                 /\ (acc.assigned \/ acc.name # <<>> \/ acc.members # <<>>)
    IN  [name |-> acc.name, members |-> acc.members,
         status |-> IF whole THEN "parsed" ELSE "malformed"]

(* parse_package_json: one bad line and nothing is known *)
ParsePackageJson(text) ==
    IF \E i \in DOMAIN text : text[i].kind = "bad"
    THEN [name |-> <<>>, members |-> <<>>, status |-> "malformed"]
    ELSE LET Of(key) == FlattenSeq([i \in DOMAIN text |->
                            IF text[i].key = key THEN text[i].values ELSE <<>>])
         IN  [name |-> Of("name"), members |-> Of("workspaces"), status |-> "parsed"]

ParseGoMod(text) ==
    LET modules == SelectSeq(text, LAMBDA line : line.key = "module")
    IN  [name |-> IF modules = <<>> THEN <<>> ELSE modules[1].values, members |-> <<>>,
         status |-> IF modules = <<>> THEN "malformed" ELSE "parsed"]

ParseManifest(file) ==
    LET kind == ManifestKind(file.path)
        info == CASE kind \in {"node", "php"} -> ParsePackageJson(file.content)
                  [] kind = "go" -> ParseGoMod(file.content)
                  [] kind \in {"cargo", "python", "ruby", "elixir"} -> ParseTomlLike(file.content)
                  [] OTHER -> [name |-> <<>>, members |-> <<>>, status |-> "parsed"]
    IN  [info EXCEPT !.status = IF file.readable THEN @ ELSE "unreadable"]
        @@ [path |-> file.path, kind |-> kind, truncated |-> file.truncated]

(* ------------------------------ the snapshot ------------------------------ *)

(* A package for every named manifest, then one for every workspace member's
   manifest that has none. *)
Packages(manifests, members) ==
    LET Info(m) == [name |-> m.name, root |-> RepoFiles[m.path].dir, manifest |-> m.path]
        own == LET named == SelectSeq(manifests, LAMBDA m : m.name # <<>>)
               IN  [i \in DOMAIN named |-> Info(named[i])]
        Add(out, member) ==
            IF member.manifest = 0 \/ \E i \in DOMAIN out : out[i].manifest = member.manifest
            THEN out
            ELSE Append(out, Info(manifests[CHOOSE i \in DOMAIN manifests :
                                               manifests[i].path = member.manifest]))
    IN  AtMost(MaxSpecialFiles, FoldLeft(Add, AtMost(MaxSpecialFiles, own), members))

(* strip_prefix(base) of the candidate's directory, or the directory itself *)
MemberDir(base, dir) == IF IsPrefix(base, dir) THEN SubSeq(dir, Len(base) + 1, Len(dir)) ELSE dir

WorkspaceMembers(manifests) ==
    LET Resolve(m, pattern) ==
          LET hits == {i \in DOMAIN manifests :
                 WildcardMatches(pattern, MemberDir(RepoFiles[m.path].dir, RepoFiles[manifests[i].path].dir))}
          IN  IF hits = {} THEN 0
              ELSE manifests[CHOOSE i \in hits : \A j \in hits : i <= j].path
        Of(m) == [k \in DOMAIN m.members |->
                    [by |-> m.path, pattern |-> m.members[k], manifest |-> Resolve(m, m.members[k])]]
    IN  AtMost(MaxSpecialFiles, FlattenSeq([i \in DOMAIN manifests |-> Of(manifests[i])]))

(* effective order of the instructions: broad to specific *)
InstructionBefore(a, b) ==
    \/ Len(a.scope) < Len(b.scope)
    \/ Len(a.scope) = Len(b.scope) /\ a.path < b.path

BuildSnapshot(inventory) ==
    LET files == inventory.special
        Some(Test(_)) == SelectSeq(files, LAMBDA f : Test(f.path))
        manifests == [i \in DOMAIN Some(IsManifest) |-> ParseManifest(Some(IsManifest)[i])]
        members == WorkspaceMembers(manifests)
        told == {[scope |-> RepoFiles[f.path].dir, path |-> f.path, content |-> f.content,
                  truncated |-> f.truncated] : f \in ToSet(Some(IsInstruction))}
        documents == {p \in ToSet(inventory.paths) : IsMarkdown(p) /\ ~IsReadme(p)}
                     \cup {f.path : f \in ToSet(Some(IsReadme))}
        all == ToSet(inventory.paths)
    IN  [count |-> Len(inventory.paths),
         tracked |-> AtMost(MaxFiles, inventory.paths),
         manifests |-> manifests,
         packages |-> Packages(manifests, members),
         members |-> members,
         documentation |-> AtMost(MaxSpecialFiles, Tracked(documents)),
         instructions |-> AtMost(MaxSpecialFiles, SetToSortSeq(told, InstructionBefore)),
         roots |-> {SourceRoot(p) : p \in {p \in all : IsSourceFile(p) /\ ~IsTestPath(p)}},
         tests |-> AtMost(MaxSpecialFiles, Tracked({p \in all : IsTestPath(p)})),
         truncated |-> Len(inventory.paths) > MaxFiles]

(* ------------------------------- selection ------------------------------- *)

PathScore(p, terms) ==
    IF terms = <<>> THEN 1
    ELSE FoldLeft(LAMBDA sum, t : sum + IF <<t, p>> \in DOMAIN MatchScore THEN MatchScore[<<t, p>>] ELSE 0,
                  0, terms)

AddSelection(out, s) ==
    IF s.score = 0 \/ \E i \in DOMAIN out : out[i].path = s.path THEN out ELSE Append(out, s)

Selection(p, kind, score, symbol) == [path |-> p, kind |-> kind, score |-> score, symbol |-> symbol]

BestFirst(out) ==
    AtMost(MaxLookup, SortSeq(out, LAMBDA a, b : a.score > b.score \/ (a.score = b.score /\ a.path < b.path)))

(* RepoMapSnapshot::select: a path is taken once, under the first list that has it *)
SelectPaths(map, terms) ==
    LET Of(paths, Kind(_)) == [i \in DOMAIN paths |->
                                 Selection(paths[i], Kind(paths[i]), PathScore(paths[i], terms), NoSymbol)]
        lists == Of(map.tracked, SelectionKind)
                 \o Of([i \in DOMAIN map.manifests |-> map.manifests[i].path], LAMBDA p : "manifest")
                 \o Of(map.tests, LAMBDA p : "test")
                 \o Of(map.documentation, LAMBDA p : "documentation")
                 \o Of([i \in DOMAIN map.instructions |-> map.instructions[i].path], LAMBDA p : "instruction")
    IN  BestFirst(FoldLeft(AddSelection, <<>>, lists))

(* A symbol or a relation raises the score of its file, or adds the file. *)
MergeHit(out, hit, kind, score) ==
    LET at == {i \in DOMAIN out : out[i].path = hit.path}
        i  == CHOOSE i \in at : TRUE
    IN  IF at = {} THEN Append(out, Selection(hit.path, kind, score, hit.symbol))
        ELSE [out EXCEPT ![i].score = @ + score,
                         ![i].symbol = IF @ = NoSymbol THEN hit.symbol ELSE @]

MergeSymbol(out, hit) == MergeHit(out, hit, "file", hit.score)

RelationSelectionKind(hit) == IF IsTestPath(hit.path) \/ hit.kind = "test" THEN "test" ELSE "file"

(* an ambiguous relation loses its eight points a second time *)
MergeRelation(out, hit) ==
    MergeHit(out, hit, RelationSelectionKind(hit),
             IF hit.ambiguous THEN IF hit.score < 8 THEN 0 ELSE hit.score - 8 ELSE hit.score)

(* RepoMap::select over the paths the snapshot selected *)
SelectWithSymbols(selected, index, targets, terms) ==
    BestFirst(FoldLeft(MergeRelation,
                       FoldLeft(MergeSymbol, selected, LookupFiles(index, targets, terms)),
                       LookupRelationships(index, terms)))

(* ------------------------- the world around a call ------------------------- *)

RepoInit ==
    /\ gitIndex \in [stamp : {1}, tracked : {FirstTracked}, plain : BOOLEAN]
    /\ disk = [p \in DOMAIN RepoFiles |-> 1]
    /\ mapCache = NoEntry /\ symbolIndex = EmptyIndex /\ mapCall = Idle
    /\ mapEdits = 0 /\ mapCalls = 0
    /\ indexSeen = [tracked |-> {}, disk |-> {}]

(* git writes a new index file and renames it over the old one *)
GitRewritesIndex ==
    /\ gitIndex.stamp <= MaxRewrites
    /\ \E S \in Retrackings :
          /\ gitIndex' = [gitIndex EXCEPT !.stamp = @ + 1, !.tracked = S]
          /\ indexSeen' = IF mapCall.pc = "idle" THEN indexSeen
                          ELSE [indexSeen EXCEPT !.tracked = @ \cup {S}]
    /\ UNCHANGED <<disk, mapCache, symbolIndex, mapCall, mapEdits, mapCalls>>

(* a tool or the user writes, replaces by a link or removes a file *)
FileChanges ==
    /\ mapEdits < MaxEdits
    /\ \E p \in DOMAIN RepoFiles : \E v \in (0 .. Len(Versions[p])) \ {disk[p]} :
          /\ disk' = [disk EXCEPT ![p] = v]
          /\ indexSeen' = IF mapCall.pc = "idle" THEN indexSeen
                          ELSE [indexSeen EXCEPT !.disk = @ \cup {<<p, v>>}]
    /\ mapEdits' = mapEdits + 1
    /\ UNCHANGED <<gitIndex, mapCache, symbolIndex, mapCall, mapCalls>>

(* ------------------------------- one call ------------------------------- *)

SeenNow == [tracked |-> {gitIndex.tracked}, disk |-> {<<p, disk[p]>> : p \in DOMAIN disk}]

BeginCall ==
    /\ mapCall.pc = "idle" /\ mapCalls < MaxCalls
    /\ \E c \in Calls : mapCall' = [Idle EXCEPT !.pc = "check", !.op = c.op, !.terms = c.terms,
                                               !.todo = c.paths, !.targets = ToSet(c.paths)]
    /\ mapCalls' = mapCalls + 1
    /\ indexSeen' = SeenNow
    /\ UNCHANGED <<gitIndex, disk, mapCache, symbolIndex, mapEdits>>

(* snapshot: the cached map is the answer while it is current *)
CheckCache ==
    /\ mapCall.pc = "check"
    /\ mapCall' = IF mapCache # NoEntry /\ IsCurrent(mapCache)
                  THEN [mapCall EXCEPT !.pc = "answered", !.answer = mapCache]
                  ELSE [mapCall EXCEPT !.pc = "list", !.inventory = NoInventory]
    /\ UNCHANGED <<gitIndex, disk, mapCache, symbolIndex, mapEdits, mapCalls, indexSeen>>

(* read_git_index: the stamp is that of the open file the paths come from *)
ReadGitIndex ==
    /\ mapCall.pc = "list" /\ gitIndex.plain
    /\ mapCall' = [mapCall EXCEPT !.pc = "special",
                       !.inventory = [NoInventory EXCEPT !.paths = Tracked(gitIndex.tracked),
                                                         !.stamp = gitIndex.stamp]]
    /\ UNCHANGED <<gitIndex, disk, mapCache, symbolIndex, mapEdits, mapCalls, indexSeen>>

(* git_ls_files, for an index the program does not read: the stamp comes later *)
GitLsFiles ==
    /\ mapCall.pc = "list" /\ ~gitIndex.plain
    /\ mapCall' = [mapCall EXCEPT !.pc = "stamp",
                       !.inventory = [NoInventory EXCEPT !.paths = Tracked(gitIndex.tracked),
                                                         !.listed = TRUE]]
    /\ UNCHANGED <<gitIndex, disk, mapCache, symbolIndex, mapEdits, mapCalls, indexSeen>>

StampIndex ==
    /\ mapCall.pc = "stamp"
    /\ mapCall' = [mapCall EXCEPT !.pc = "special", !.inventory.stamp = gitIndex.stamp]
    /\ UNCHANGED <<gitIndex, disk, mapCache, symbolIndex, mapEdits, mapCalls, indexSeen>>

CollectSpecialFiles ==
    /\ mapCall.pc = "special"
    /\ mapCall' = [mapCall EXCEPT !.pc = "store",
                                  !.inventory.special = ReadSpecialFiles(mapCall.inventory.paths)]
    /\ UNCHANGED <<gitIndex, disk, mapCache, symbolIndex, mapEdits, mapCalls, indexSeen>>

(* an inventory with the cached fingerprint leaves the entry, and its stamp, alone *)
StoreSnapshot ==
    /\ mapCall.pc = "store"
    /\ LET inventory == mapCall.inventory
           known == mapCache # NoEntry /\ Fingerprint(mapCache.inventory) = Fingerprint(inventory)
           entry == IF known THEN mapCache
                    ELSE [inventory |-> inventory, map |-> BuildSnapshot(inventory)]
       IN  /\ mapCache' = entry
           /\ mapCall' = [mapCall EXCEPT !.pc = "answered", !.answer = entry,
                                         !.inventory = NoInventory]
    /\ UNCHANGED <<gitIndex, disk, symbolIndex, mapEdits, mapCalls, indexSeen>>

(* select: the paths of the snapshot, whose files are then looked up twice *)
SelectFromMap ==
    /\ mapCall.pc = "answered" /\ mapCall.op = "select"
    /\ LET chosen == SelectPaths(mapCall.answer.map, mapCall.terms)
           files  == SelectSeq(chosen, LAMBDA s : s.kind \in {"file", "test"})
           paths  == AtMost(MaxSymbolFiles, [i \in DOMAIN files |-> files[i].path])
       IN  mapCall' = [mapCall EXCEPT !.op = "symbols", !.result = chosen,
                           !.targets = ToSet(paths), !.todo = paths \o paths,
                           !.pc = IF paths = <<>> THEN "search" ELSE "check"]
    /\ indexSeen' = SeenNow
    /\ UNCHANGED <<gitIndex, disk, mapCache, symbolIndex, mapEdits, mapCalls>>

(* symbols_for_file: the index forgets a file that is no readable source and
   keeps the entry whose content is the one on disk *)
SymbolsForFile(index, p) ==
    IF ~IsSourceFile(p) \/ disk[p] = 0 THEN RemoveSymbolFile(index, p)
    ELSE LET source == Versions[p][disk[p]]
         IN  IF p \in DOMAIN index.files /\ index.files[p].hash = source THEN index
             ELSE InsertSymbolFile(index, ParseSource(p, source, FALSE))

IndexTarget ==
    /\ mapCall.pc = "answered" /\ mapCall.op = "symbols" /\ mapCall.todo # <<>>
    /\ symbolIndex' = SymbolsForFile(symbolIndex, Head(mapCall.todo))
    /\ mapCall' = [mapCall EXCEPT !.todo = Tail(@), !.answer = NoEntry,
                                  !.pc = IF Len(mapCall.todo) = 1 THEN "search" ELSE "check"]
    /\ indexSeen' = SeenNow
    /\ UNCHANGED <<gitIndex, disk, mapCache, mapEdits, mapCalls>>

SearchSymbols ==
    /\ mapCall.pc = "search"
    /\ mapCall' = [mapCall EXCEPT !.pc = "done",
                       !.result = SelectWithSymbols(@, symbolIndex, mapCall.targets, mapCall.terms)]
    /\ UNCHANGED <<gitIndex, disk, mapCache, symbolIndex, mapEdits, mapCalls, indexSeen>>

EndCall ==
    /\ mapCall.pc = "done" \/ (mapCall.pc = "answered" /\ mapCall.op = "map")
    /\ mapCall' = Idle
    /\ indexSeen' = [tracked |-> {}, disk |-> {}]
    /\ UNCHANGED <<gitIndex, disk, mapCache, symbolIndex, mapEdits, mapCalls>>

(* invalidate, between calls: after a command that may have changed the files *)
Invalidate ==
    /\ mapCall.pc = "idle" /\ mapCache # NoEntry
    /\ mapCache' = NoEntry /\ symbolIndex' = EmptyIndex
    /\ UNCHANGED <<gitIndex, disk, mapCall, mapEdits, mapCalls, indexSeen>>

RepoNext ==
    \/ GitRewritesIndex \/ FileChanges
    \/ BeginCall \/ CheckCache \/ ReadGitIndex \/ GitLsFiles \/ StampIndex
    \/ CollectSpecialFiles \/ StoreSnapshot \/ SelectFromMap \/ IndexTarget
    \/ SearchSymbols \/ EndCall \/ Invalidate

RepoSpec == RepoInit /\ [][RepoNext]_repoVars

(* ------------------------------- properties ------------------------------- *)

WasThere(inventory) ==
    /\ \E S \in indexSeen.tracked : inventory.paths = Tracked(S)
    /\ \A i \in DOMAIN inventory.special :
          LET f == inventory.special[i]
          IN  \E v \in 0 .. Len(Versions[f.path]) :
                /\ <<f.path, v>> \in indexSeen.disk
                /\ f.readable = (v # 0)
                /\ v # 0 => f.content = AtMost(SpecialLimit(f.path), Versions[f.path][v])

(* The map a call gets, cached or new, lists the paths the index held at some
   moment of that call, and every special file in it had that content during
   it, however the index and the files changed while the call was listing,
   reading and storing (RepoMap::snapshot).  Maps listed by git ls-files are
   left out: their stamp is taken after the listing (collect_inventory). *)
MapIsOfThisCall ==
    mapCall.pc = "answered" /\ ~mapCall.answer.inventory.listed => WasThere(mapCall.answer.inventory)

(* The inductive invariant behind it.  A listing taken with a stamp is the     *)
(* index's as long as the stamp is.                                            *)
AsStamped(inventory) ==
    ~inventory.listed => /\ inventory.stamp \in 0 .. gitIndex.stamp
                         /\ inventory.stamp = gitIndex.stamp =>
                               inventory.paths = Tracked(gitIndex.tracked)

WorldInv ==
    /\ gitIndex \in [stamp : Nat, tracked : SUBSET DOMAIN RepoFiles, plain : BOOLEAN]
    /\ disk \in [DOMAIN RepoFiles -> Nat]
    /\ \A p \in DOMAIN disk : disk[p] <= Len(Versions[p])
    /\ DOMAIN indexSeen = {"tracked", "disk"} /\ indexSeen.tracked \subseteq SUBSET DOMAIN RepoFiles
    /\ mapCall.pc # "idle" => /\ gitIndex.tracked \in indexSeen.tracked
                              /\ \A p \in DOMAIN disk : <<p, disk[p]>> \in indexSeen.disk

CacheInv ==
    mapCache # NoEntry =>
        /\ AsStamped(mapCache.inventory) /\ mapCache.inventory.listed = ~gitIndex.plain
        /\ \A i \in DOMAIN mapCache.inventory.special :
              mapCache.inventory.special[i].path \in DOMAIN RepoFiles

CallInv ==
    /\ DOMAIN mapCall = DOMAIN Idle /\ DOMAIN mapCall.inventory = DOMAIN NoInventory
    /\ mapCall.pc \in {"stamp", "special", "store"} =>
          /\ mapCall.inventory.listed = ~gitIndex.plain
          /\ \E S \in indexSeen.tracked : mapCall.inventory.paths = Tracked(S)
    /\ mapCall.pc = "stamp" => mapCall.inventory.listed
    /\ mapCall.pc \in {"special", "store"} => AsStamped(mapCall.inventory)
    /\ mapCall.pc = "store" =>
          /\ WasThere(mapCall.inventory)
          /\ \A i \in DOMAIN mapCall.inventory.special :
                mapCall.inventory.special[i].path \in DOMAIN RepoFiles

MapInv == WorldInv /\ CacheInv /\ CallInv /\ MapIsOfThisCall

(* Every piece of evidence the relationship index holds was contributed by a
   file it still retains, with a symbol position of the version it retains:
   no sequence of re-indexing, eviction, removal and fan-out cuts leaves
   evidence of another version behind (SymbolIndex::insert, remove_file). *)
RelationsAreOfRetainedFiles ==
    \A k \in DOMAIN symbolIndex.relations.byKey : \A e \in symbolIndex.relations.byKey[k] :
        /\ e.path \in DOMAIN symbolIndex.files
        /\ [key |-> k, evidence |-> e] \in Under(symbolIndex.relations.contributions, e.path)
        /\ LET file == symbolIndex.files[e.path]
           IN  e.sym # 0 => /\ e.sym \in DOMAIN file.syms
                            /\ e.kind \in {"definition", "module"} => file.syms[e.sym].name = k
==============================================================================
