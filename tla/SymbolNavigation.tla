-------------------------- MODULE SymbolNavigation --------------------------
(***************************************************************************)
(* Lexical symbol navigation (symbol_index.rs): the masking and the token  *)
(* machine that turn one Rust source into symbols and relations, and the   *)
(* bounded index of files and of the relations between them.               *)
(*                                                                         *)
(* A source is a sequence of pieces.  A piece is a word, a comment, or a   *)
(* literal; what a literal contains is the constant LiteralText.  Lines    *)
(* are positions in the token sequence, so the span of a symbol is the     *)
(* interval of tokens from its keyword to its closing brace.  A path is    *)
(* its rank in path order; RepoFiles gives its directory, stem and so on.  *)
(* A key is the sequence of the segments a name is made of.                *)
(***************************************************************************)
EXTENDS Integers, Sequences, FiniteSets, SequencesExt

CONSTANTS RepoFiles,       \* sequence, in path order, of file descriptions
          LiteralText,     \* the words inside a string literal
          StartsName,      \* pairs <<term, key>>: the name begins with the term
          ContainsName,    \* pairs <<term, key>>: the name contains the term
          MaxSymbolTokens, MaxSymbolsPerFile, MaxRelationsPerFile,
          MaxSymbolFiles, MaxFanout, MaxLookup

ASSUME SymbolAssumption == {MaxSymbolsPerFile, MaxRelationsPerFile} \subseteq Nat

NoSymbol == [name |-> <<>>, kind |-> "none", start |-> 0, end |-> 0,
             container |-> <<>>, test |-> FALSE]

(* ---------------------------- masking, tokens ---------------------------- *)

Comments == {"//"}                 \* a line or a block comment
Literals == {"text", "text\\"}     \* the second ends in an escaped backslash

(* mask_rust, one piece: inside says whether the scan is inside a literal.  A
   quote is taken for an escaped one whenever the byte before it is a
   backslash, also when that backslash is itself escaped, so the scan leaves
   such a literal only at the next quote, which opens another literal. *)
MaskPiece(acc, piece) ==
    CASE piece \in Comments -> acc
      [] piece \in Literals /\ ~acc.inside ->
             [acc EXCEPT !.inside = (piece = "text\\")]
      [] piece \in Literals /\ acc.inside ->
             [acc EXCEPT !.words = @ \o LiteralText]
      [] OTHER -> IF acc.inside THEN acc ELSE [acc EXCEPT !.words = Append(@, piece)]

Tokenize(source) ==
    LET words == FoldLeft(MaskPiece, [words |-> <<>>, inside |-> FALSE], source).words
    IN  SubSeq(words, 1, IF Len(words) < MaxSymbolTokens THEN Len(words) ELSE MaxSymbolTokens)

(* --------------------------- the token machine --------------------------- *)

Punctuation == {"{", "}", ";", "#", "[", "]", "=", "<", ">", ","}
DeclarationKind == [fn |-> "function", struct |-> "struct", enum |-> "enum",
                    trait |-> "trait", type |-> "type", mod |-> "module"]
Keywords == DOMAIN DeclarationKind \cup
            {"as", "for", "impl", "let", "pub", "self", "use", "where", "unsafe"}

IsIdentifier(w) == w \notin Punctuation
IsReferenceIdentifier(w) == IsIdentifier(w) /\ w \notin Keywords

FirstAt(T, from, Test(_)) ==
    LET hits == {i \in from .. Len(T) : Test(T[i])}
    IN  IF hits = {} THEN 0 ELSE CHOOSE i \in hits : \A j \in hits : i <= j

(* next_identifier: nothing is found past an opening brace, ; or = *)
NextIdentifier(T, from) ==
    LET i == FirstAt(T, from, LAMBDA w : IsIdentifier(w) \/ w \in {"{", ";", "="})
    IN  IF i = 0 THEN 0 ELSE IF IsIdentifier(T[i]) THEN i ELSE 0

(* find_attribute_end: the bracket that closes the one at open *)
FindAttributeEnd(T, open) ==
    LET Depth(i) == Cardinality({j \in open .. i : T[j] = "["})
                    - Cardinality({j \in open .. i : T[j] = "]"})
        ends == {i \in open .. Len(T) : T[i] = "]" /\ Depth(i) = 0}
    IN  IF ends = {} THEN 0 ELSE CHOOSE i \in ends : \A j \in ends : i <= j

FindSemicolon(T, from) == FirstAt(T, from, LAMBDA w : w = ";")
AttributeIsTest(T, open, close) == \E i \in open .. close : T[i] = "test"

(* import_entry: "path as alias" names the entry with the alias, else with its path *)
ImportEntry(item) ==
    LET as == FirstAt(item, 1, LAMBDA w : w = "as")
        target == IF as = 0 THEN item ELSE SubSeq(item, 1, as - 1)
        name == IF as = 0 THEN target ELSE SubSeq(item, as + 1, Len(item))
    IN  [target |-> target, name |-> IF name = <<>> THEN <<"use">> ELSE name]

(* import_entries: the items of a braced list are prefixed with the path before the brace *)
ImportEntries(raw) ==
    LET open   == FirstAt(raw, 1, LAMBDA w : w = "{")
        closes == {i \in DOMAIN raw : raw[i] = "}"}
        close  == CHOOSE i \in closes : \A j \in closes : j <= i
        prefix == SubSeq(raw, 1, open - 1)
        cuts   == SetToSortSeq({i \in open .. close : i \in {open, close} \/ raw[i] = ","}, <)
        Part(k) == SubSeq(raw, cuts[k] + 1, cuts[k + 1] - 1)
        parts  == SelectSeq([k \in 1 .. Len(cuts) - 1 |-> Part(k)], LAMBDA p : p # <<>>)
    IN  IF open = 0 \/ closes = {} \/ parts = <<>> THEN <<ImportEntry(raw)>>
        ELSE [k \in 1 .. Len(parts) |->
                ImportEntry(IF parts[k] = <<"self">> THEN prefix ELSE prefix \o parts[k])]

(* impl_name: the type after "for", or else the last name outside angle brackets *)
ImplName(T, from) ==
    LET brace == FirstAt(T, from, LAMBDA w : w = "{")
        last  == IF brace = 0 THEN Len(T) ELSE brace - 1
        for   == FirstAt(T, from, LAMBDA w : w = "for")
        angle[i \in from - 1 .. last] ==
            CASE i < from -> 0
              [] i >= from /\ T[i] = "<" -> angle[i - 1] + 1
              [] i >= from /\ T[i] = ">" -> IF angle[i - 1] = 0 THEN 0 ELSE angle[i - 1] - 1
              [] OTHER -> angle[i - 1]
        names == {i \in from .. last : /\ IsIdentifier(T[i]) /\ angle[i] = 0
                                       /\ T[i] \notin {"where", "unsafe", "for"}}
        after == {i \in names : for # 0 /\ for < i}
    IN  IF names = {} THEN <<>>
        ELSE IF after # {} THEN <<T[CHOOSE i \in after : \A j \in after : i <= j]>>
        ELSE <<T[CHOOSE i \in names : \A j \in names : j <= i]>>

ContainerName(scopes) ==
    LET named == SelectSeq(scopes, LAMBDA s : s.kind \in {"module", "impl"} /\ s.name # <<>>)
    IN  FlattenSeq([i \in 1 .. Len(named) |-> named[i].name])

ReferenceOwner(scopes) ==
    LET owners == SelectSeq(scopes, LAMBDA s : s.kind = "function" /\ s.name # <<>>)
    IN  IF owners = <<>> THEN <<>> ELSE Last(owners).name

InImpl(scopes) == \E i \in DOMAIN scopes : scopes[i].kind = "impl"

PushRelation(rels, from, to, kind) ==
    IF Len(rels) < MaxRelationsPerFile
    THEN Append(rels, [from |-> from, to |-> to, kind |-> kind]) ELSE rels

NoPending == [kind |-> "none", sym |-> 0, name |-> <<>>]

(* A `use` item, up to its semicolon. *)
TakeImport(s, entry) ==
    IF Len(s.syms) >= MaxSymbolsPerFile THEN s
    ELSE LET within == ContainerName(s.scopes)
             held   == IF within = <<>> THEN s.rels
                       ELSE PushRelation(s.rels, within, entry.name, "contains")
         IN  [s EXCEPT !.syms = Append(@, [NoSymbol EXCEPT !.name = entry.name,
                                            !.kind = "import", !.start = s.at, !.end = s.at,
                                            !.container = within]),
                       !.rels = PushRelation(held, entry.name, entry.target, "imports")]

UseStep(T, s, close) ==
    [FoldLeft(TakeImport, s, ImportEntries(SubSeq(T, s.at + 1, close - 1)))
        EXCEPT !.pending = NoPending, !.ptest = FALSE, !.at = close + 1]

(* A declaration whose name is at position i. *)
DeclarationStep(T, s, i) ==
    LET word   == T[s.at]
        test   == s.ptest \/ \E k \in DOMAIN s.scopes : s.scopes[k].test
        kind   == IF word = "fn" /\ test THEN "test"
                  ELSE IF word = "fn" /\ InImpl(s.scopes) THEN "method"
                  ELSE DeclarationKind[word]
        within == ContainerName(s.scopes)
        kept   == Len(s.syms) < MaxSymbolsPerFile
        held   == IF within = <<>> THEN s.rels
                  ELSE PushRelation(s.rels, within, <<T[i]>>, "contains")
        impls  == IF within = <<>> \/ kind # "method" THEN held
                  ELSE PushRelation(held, <<T[i]>>, within, "implements")
    IN  [s EXCEPT
           !.syms = IF kept THEN Append(@, [name |-> <<T[i]>>, kind |-> kind, start |-> s.at,
                                            end |-> s.at, container |-> within, test |-> test])
                    ELSE @,
           !.rels = IF kept THEN impls ELSE @,
           !.pending = [kind |-> CASE word = "mod" -> "module" [] word = "fn" -> "function"
                                   [] OTHER -> "type",
                        sym |-> IF kept THEN Len(s.syms) + 1 ELSE 0, name |-> <<>>],
           !.ptest = test /\ kind = "module",
           !.at = i + 1]

(* An opening brace gives the pending declaration its scope. *)
OpenScope(s) ==
    LET p   == s.pending
        sym == IF p.kind = "module"
               THEN IF s.syms # <<>> /\ Last(s.syms).kind = "module" THEN Len(s.syms) ELSE 0
               ELSE p.sym
        scope == CASE p.kind = "none" -> [kind |-> "block", name |-> <<>>, sym |-> 0, test |-> FALSE]
                   [] p.kind = "impl" -> [kind |-> "impl", name |-> p.name, sym |-> 0, test |-> FALSE]
                   [] OTHER -> [kind |-> p.kind, sym |-> sym,
                                name |-> IF sym = 0 THEN <<>> ELSE s.syms[sym].name,
                                test |-> IF p.kind = "module" THEN s.ptest
                                         ELSE sym # 0 /\ s.syms[sym].test]
    IN  [s EXCEPT !.scopes = Append(@, scope), !.pending = NoPending,
                  !.ptest = FALSE, !.at = @ + 1]

(* A closing brace ends the innermost scope and the symbol it belongs to. *)
CloseScope(s) ==
    LET sym == IF s.scopes = <<>> THEN 0 ELSE Last(s.scopes).sym
    IN  [s EXCEPT !.syms = IF sym = 0 THEN @ ELSE [@ EXCEPT ![sym].end = s.at],
                  !.scopes = IF @ = <<>> THEN @ ELSE Front(@),
                  !.pending = NoPending, !.ptest = FALSE, !.at = @ + 1]

ParseStep(T, s) ==
    LET w     == T[s.at]
        attr  == IF w = "#" /\ s.at < Len(T) /\ T[s.at + 1] = "["
                 THEN FindAttributeEnd(T, s.at + 1) ELSE 0
        semi  == IF w = "use" THEN FindSemicolon(T, s.at + 1) ELSE 0
        named == IF w \in DOMAIN DeclarationKind THEN NextIdentifier(T, s.at + 1) ELSE 0
        owner == ReferenceOwner(s.scopes)
    IN  CASE attr # 0 -> [s EXCEPT !.ptest = @ \/ AttributeIsTest(T, s.at, attr), !.at = attr + 1]
          [] semi # 0 -> UseStep(T, s, semi)
          [] named # 0 -> DeclarationStep(T, s, named)
          [] w = "impl" -> [s EXCEPT !.pending = [kind |-> "impl", sym |-> 0,
                                                  name |-> ImplName(T, s.at + 1)],
                                     !.ptest = FALSE, !.at = @ + 1]
          [] w = "{" -> OpenScope(s)
          [] w = "}" -> CloseScope(s)
          [] w = ";" -> [s EXCEPT !.pending = NoPending, !.ptest = FALSE, !.at = @ + 1]
          [] OTHER -> [s EXCEPT !.at = @ + 1,
                                !.rels = IF IsReferenceIdentifier(w) /\ owner # <<>>
                                         THEN PushRelation(@, owner, <<w>>, "references") ELSE @]

FreshParse == [at |-> 1, syms |-> <<>>, rels |-> <<>>, scopes |-> <<>>,
               pending |-> NoPending, ptest |-> FALSE]

(* parse_rust_symbols: every step moves forward, so one step per token is enough *)
ParseRustSymbols(source) ==
    LET T   == Tokenize(source)
        end == FoldLeft(LAMBDA s, w : IF s.at > Len(T) THEN s ELSE ParseStep(T, s), FreshParse, T)
    IN  [syms |-> end.syms, rels |-> end.rels]

Language(path) ==
    CASE RepoFiles[path].ext = "rs" -> "rust"
      [] RepoFiles[path].ext \in {"ts", "tsx", "js", "jsx"} -> "typescript"
      [] RepoFiles[path].ext = "py" -> "python"
      [] OTHER -> "unsupported"

(* parse_source, with the hash of the whole file standing for the file *)
ParseSource(path, source, truncated) ==
    LET found == IF Language(path) = "rust" THEN ParseRustSymbols(source) ELSE [syms |-> <<>>, rels |-> <<>>]
    IN  [path |-> path, hash |-> source, truncated |-> truncated, readable |-> TRUE,
         syms |-> found.syms, rels |-> found.rels]

(* ------------------------- the relationship index ------------------------- *)

RelationOrder == <<"definition", "caller", "implementation", "test", "dependency", "import", "module">>
KindRank(kind) == CHOOSE i \in DOMAIN RelationOrder : RelationOrder[i] = kind

RelationshipScore ==
    [definition |-> 120, implementation |-> 104, caller |-> 92, test |-> 84,
     dependency |-> 68, import |-> 56, module |-> 48]

IsTestFile(path) == "tests" \in ToSet(RepoFiles[path].dir)
                    \/ RepoFiles[path].marks \cap {"test_", "_test"} # {}

PathStem(path) == RepoFiles[path].stem       \* without a trailing _test

EvidenceBefore(e, f) ==
    \/ e.path < f.path
    \/ e.path = f.path /\ e.sym < f.sym
    \/ e.path = f.path /\ e.sym = f.sym /\ KindRank(e.kind) < KindRank(f.kind)

FirstOf(S, Before(_, _)) == {e \in S : Cardinality({f \in S : Before(f, e)}) < MaxFanout}

EmptyRelations == [byKey |-> <<>>, contributions |-> <<>>, stems |-> <<>>]
Under(f, x) == IF x \in DOMAIN f THEN f[x] ELSE {}
Inserted(f, x, v) == [y \in DOMAIN f \cup {x} |-> IF y = x THEN v ELSE f[y]]
Removed(f, x) == [y \in DOMAIN f \ {x} |-> f[y]]
WithEntry(f, x, v) == IF v = {} THEN Removed(f, x) ELSE Inserted(f, x, v)

(* add_contribution: evidence that the fan-out cuts off is not a contribution *)
AddContribution(r, c) ==
    LET old  == Under(r.byKey, c.key)
        kept == IF c.evidence \in old THEN old
                ELSE FirstOf(old \cup {c.evidence}, EvidenceBefore)
    IN  IF c.key = <<>> THEN r
        ELSE [r EXCEPT !.byKey = WithEntry(@, c.key, kept),
                       !.contributions = WithEntry(@, c.evidence.path,
                            Under(@, c.evidence.path)
                            \cup IF c.evidence \in kept THEN {c} ELSE {})]

AddContributions(r, list) ==
    LET added[n \in 0 .. Len(list)] == IF n = 0 THEN r ELSE AddContribution(added[n - 1], list[n])
    IN  added[Len(list)]

(* those of every symbol or relation of a file, of which there are at most limit *)
AddLists(r, lists, limit) ==
    LET added[n \in 0 .. limit] ==
            IF n = 0 THEN r
            ELSE IF n \in DOMAIN lists THEN AddContributions(added[n - 1], lists[n]) ELSE added[n - 1]
    IN  added[limit]

Contribution(key, path, sym, kind) ==
    [key |-> key, evidence |-> [path |-> path, sym |-> sym, kind |-> kind]]

SymbolContributions(file, i) ==
    LET s == file.syms[i]
        kind == CASE s.kind = "module" -> "module" [] s.kind # "module" /\ s.test -> "test"
                  [] OTHER -> "definition"
        own == <<Contribution(s.name, file.path, i, kind)>>
    IN  CASE s.kind = "import" -> <<>>
          [] s.kind = "method" /\ s.container # <<>> ->
                 Append(own, Contribution(s.container, file.path, i, "implementation"))
          [] OTHER -> own

RelationContributions(file, testFile, r) ==
    LET named == {i \in 1 .. MaxSymbolsPerFile : i \in DOMAIN file.syms /\ file.syms[i].name = r.from}
        owner == IF named = {} THEN 0 ELSE CHOOSE i \in named : \A j \in named : i <= j
        test  == testFile \/ (owner # 0 /\ file.syms[owner].test)
        last  == <<Last(r.to)>>
    IN  CASE r.kind = "references" ->
                 <<Contribution(r.to, file.path, owner, IF test THEN "test" ELSE "caller")>>
          [] r.kind = "implements" -> <<Contribution(r.to, file.path, owner, "implementation")>>
          [] r.kind = "imports" /\ r.to # <<>> ->
                 <<Contribution(r.to, file.path, owner, "dependency")>>
                 \o (IF last # r.to THEN <<Contribution(last, file.path, owner, "dependency")>> ELSE <<>>)
                 \o (IF owner # 0 THEN <<Contribution(r.from, file.path, owner, "import")>> ELSE <<>>)
          [] OTHER -> <<>>

(* RelationshipIndex::remove_file: only what the file contributed goes *)
RemoveRelations(r, path) ==
    LET gone == Under(r.contributions, path)
        left == [k \in DOMAIN r.byKey |-> {e \in r.byKey[k] : [key |-> k, evidence |-> e] \notin gone}]
    IN  [byKey |-> [k \in {k \in DOMAIN left : left[k] # {}} |-> left[k]],
         contributions |-> WithEntry(r.contributions, path, {}),
         stems |-> Removed(r.stems, path)]

(* insert_path: the list of a stem is cut at the fan-out *)
InsertPath(stems, path, group) ==
    LET all  == Inserted(stems, path, group)
        same == {p \in DOMAIN all : all[p] = group}
    IN  [p \in (DOMAIN all \ same) \cup FirstOf(same, <) |-> all[p]]

(* RelationshipIndex::insert_file *)
InsertRelations(r, file) ==
    LET testFile == IsTestFile(file.path) \/ \E i \in DOMAIN file.syms : file.syms[i].test
        symbols == [i \in DOMAIN file.syms |-> SymbolContributions(file, i)]
        relations == [i \in DOMAIN file.rels |-> RelationContributions(file, testFile, file.rels[i])]
        clean == RemoveRelations(r, file.path)
        placed == [clean EXCEPT !.stems = InsertPath(@, file.path, <<testFile, PathStem(file.path)>>)]
    IN  AddLists(AddLists(placed, symbols, MaxSymbolsPerFile), relations, MaxRelationsPerFile)

TestsOfStem(r, stem) == {p \in DOMAIN r.stems : r.stems[p] = <<TRUE, stem>>}

EmptyIndex == [files |-> <<>>, relations |-> EmptyRelations]

RemoveSymbolFile(index, path) ==
    [files |-> Removed(index.files, path),
     relations |-> RemoveRelations(index.relations, path)]

InsertSymbolFileEvicting(index, file) ==
    LET full  == file.path \notin DOMAIN index.files
                 /\ Cardinality(DOMAIN index.files) >= MaxSymbolFiles
        first == CHOOSE p \in DOMAIN index.files : \A q \in DOMAIN index.files : p <= q
    IN  [files |-> Inserted(IF full THEN Removed(index.files, first) ELSE index.files, file.path, file),
         relations |-> InsertRelations(index.relations, file)]

(* SymbolIndex::insert: at the limit the first file in path order makes room *)
InsertSymbolFile(index, file) ==
    LET full  == file.path \notin DOMAIN index.files
                 /\ Cardinality(DOMAIN index.files) >= MaxSymbolFiles
        first == CHOOSE p \in DOMAIN index.files : \A q \in DOMAIN index.files : p <= q
        room  == IF full THEN RemoveSymbolFile(index, first) ELSE index
    IN  [files |-> Inserted(room.files, file.path, file),
         relations |-> InsertRelations(RemoveRelations(room.relations, file.path), file)]

(* --------------------------------- lookup --------------------------------- *)

(* symbol_score for a sequence of terms *)
SymbolScore(symbol, path, terms) ==
    LET Points(t) ==
          CASE symbol.name = <<t>> -> 100
            [] symbol.name # <<t>> /\ <<t, symbol.name>> \in StartsName -> 70
            [] symbol.name # <<t>> /\ <<t, symbol.name>> \in ContainsName \ StartsName -> 50
            [] OTHER -> IF <<t, symbol.container>> \in ContainsName THEN 25
                        ELSE IF t \in ToSet(RepoFiles[path].dir) \cup {PathStem(path), RepoFiles[path].ext}
                        THEN 10 ELSE 0
    IN  FoldLeft(LAMBDA sum, t : sum + Points(t), 0, terms)
        + IF symbol.test /\ "test" \in ToSet(terms) THEN 8 ELSE 0

AtMost(n, seq) == SubSeq(seq, 1, IF Len(seq) < n THEN Len(seq) ELSE n)

(* lookup_files over the chosen files, best first *)
LookupFiles(index, paths, terms) ==
    LET Score(p, i) == SymbolScore(index.files[p].syms[i], p, terms)
        hits == UNION {{<<Score(p, i), p, i>> : i \in DOMAIN index.files[p].syms} :
                          p \in paths \cap DOMAIN index.files}
        Better(a, b) == \/ a[1] > b[1]
                        \/ a[1] = b[1] /\ (a[2] < b[2] \/ (a[2] = b[2] /\ a[3] < b[3]))
        ranked == SetToSortSeq({h \in hits : h[1] > 0}, Better)
    IN  AtMost(MaxLookup, [k \in DOMAIN ranked |->
            [score |-> ranked[k][1], path |-> ranked[k][2],
             symbol |-> index.files[ranked[k][2]].syms[ranked[k][3]]]])

(* RelationshipIndex::lookup: evidence for each term, less for a later term and
   for an ambiguous name, and the tests that share a definition's stem *)
LookupRelationships(index, terms) ==
    LET r == index.relations
        Defines(e) == e.kind \in {"definition", "module"}
        keys == {<<t>> : t \in ToSet(terms)}
        definitions == UNION {{e \in Under(r.byKey, k) : Defines(e)} : k \in keys}
        ambiguous == Cardinality({<<e.path, e.sym>> : e \in definitions}) > 1
        Less(n, by) == IF n < by THEN 0 ELSE n - by
        Direct(i, e) ==
            [path |-> e.path, kind |-> e.kind, ambiguous |-> ambiguous,
             symbol |-> IF e.sym \in DOMAIN index.files[e.path].syms
                        THEN index.files[e.path].syms[e.sym] ELSE NoSymbol,
             score |-> Less(Less(RelationshipScore[e.kind], 4 * (i - 1)), IF ambiguous THEN 8 ELSE 0)]
        direct == UNION {{Direct(i, e) : e \in {e \in Under(r.byKey, <<terms[i]>>) :
                                                 e.path \in DOMAIN index.files}} :
                         i \in DOMAIN terms}
        tests == UNION {{[path |-> p, kind |-> "test", ambiguous |-> ambiguous, symbol |-> NoSymbol,
                          score |-> RelationshipScore["test"] - 4] :
                         p \in TestsOfStem(r, PathStem(e.path))} : e \in definitions}
        Better(a, b) == \/ a.score > b.score
                        \/ a.score = b.score /\ a.path < b.path
                        \/ /\ a.score = b.score /\ a.path = b.path
                           /\ \/ KindRank(a.kind) < KindRank(b.kind)
                              \/ a.kind = b.kind /\ a.symbol.start < b.symbol.start
        Same(a, b) == a.path = b.path /\ a.kind = b.kind /\ a.symbol = b.symbol
        Keep(out, m) == IF out # <<>> /\ Same(Last(out), m) THEN out ELSE Append(out, m)
    IN  AtMost(MaxLookup, FoldLeft(Keep, <<>>, SetToSortSeq(direct \cup tests, Better)))
=============================================================================
