--------------------------- MODULE MCModelEvidence ---------------------------
(***************************************************************************)
(* What the model is told and what it answers, for TLC: the repository map *)
(* and the planner, the work ledger, the coding policy, the context packets*)
(* and the Rainy stream.  In this run they share nothing: a behaviour is   *)
(* one of a single part, which Init chooses, while the others stay in an   *)
(* initial state.                                                          *)
(***************************************************************************)
EXTENDS RepositoryPlan, WorkLedger, CodingPolicy, PromptContext, RainyBackend

VARIABLE part

vars == <<part, planVars, ledgerVars, policyVars, contextVars, rainyVars>>

(* ------------------------------ the repository ------------------------------ *)

Described(d, n, st, e, m) == [dir |-> d, name |-> n, stem |-> st, ext |-> e, marks |-> m]
MCFiles == << Described(<<>>, "AGENTS.md", "AGENTS", "md", {}),
              Described(<<>>, "Cargo.toml", "Cargo", "toml", {}),
              Described(<<"crates", "a">>, "Cargo.toml", "Cargo", "toml", {}),
              Described(<<"crates", "a", "src">>, "lib.rs", "lib", "rs", {}),
              Described(<<"tests">>, "lib_test.rs", "lib", "rs", {"_test"}) >>
Row(k, key, v) == [kind |-> k, key |-> key, values |-> v]
MCVersions ==
    << << <<"keep it small">> >>,
       << <<Row("section", "workspace", <<>>), Row("open", "members", << <<"crates", "*">> >>),
            Row("close", "", <<>>), Row("section", "package", <<>>),
            Row("assign", "name", <<"root">>)>>,
          <<Row("section", "workspace", <<>>), Row("assign", "members", << <<"crates", "a">> >>)>> >>,
       << <<Row("section", "package", <<>>), Row("assign", "name", <<"a">>)>> >>,
       << <<"fn", "go", "{", "run", "}">>,
          <<"mod", "run", "{", "fn", "other", "{", "go", "}", "}">> >>,
       << <<"#", "[", "test", "]", "fn", "t", "{", "go", "run", "}">> >> >>
MCMatch == (<<"lib", 4>> :> 3) @@ (<<"lib", 5>> :> 3)
MCLiteral == <<"fn", "b">>
MCTracked == {1, 2, 4, 5}
MCRetrackings == {{2, 3, 4}, {1, 2, 3, 4, 5}}
Question(op, terms, paths) == [op |-> op, terms |-> terms, paths |-> paths]
MCQuestions == {Question("map", <<>>, <<>>), Question("select", <<"lib", "go">>, <<>>),
                Question("symbols", <<"run">>, <<4, 5>>)}

(* -------------------------------- the planner -------------------------------- *)

Target(p, r) == [path |-> p, ranges |-> r]
Reads(ts) == [tool |-> "read", targets |-> ts, terms |-> <<>>, bounded |-> FALSE]
Searches(ts) == [tool |-> "search", targets |-> <<>>, terms |-> ts, bounded |-> FALSE]
MCBatches == { <<Reads(<<Target(4, << <<1, 2>> >>)>>)>>,
               <<Reads(<<Target(4, << <<3, 4>> >>)>>), Reads(<<Target(5, <<>>)>>)>>,
               <<Reads(<<Target(4, << <<1, 2>> >>)>>), Reads(<<Target(4, << <<4, 4>> >>)>>)>>,
               <<Reads(<<Target(4, << <<1, 2>> >>), Target(5, << <<2, 3>> >>)>>)>>,
               <<Reads(<<Target(5, << <<1, 3>> >>)>>)>>,
               <<Searches(<<"lib">>), Reads(<<Target(5, << <<2, 3>> >>)>>)>>,
               <<Reads(<<Target(1, <<>>), Target(4, << <<1, 1>> >>), Target(5, <<>>)>>)>> }
Kept(p, a, b) == [path |-> p, start |-> a, end |-> b, version |-> 1, lines |-> a .. b]
Seen(ranges, stale) == [ranges |-> ranges, stale |-> stale]
Decided(p, score, symbol, line) == [path |-> p, score |-> score, symbol |-> symbol, line |-> line]
Knows(i, e, c) == [NoContext EXCEPT !.inspected = i, !.excerpts = e, !.candidates = c]
MCContexts == { NoContext, [NoContext EXCEPT !.changed = TRUE],
                Knows(4 :> Seen({<<1, 4>>}, FALSE), <<Kept(4, 3, 4), Kept(4, 1, 2)>>,
                      <<Decided(4, 120, "go", 1), Decided(5, 90, "", 0)>>),
                Knows(4 :> Seen({<<1, 4>>}, FALSE), <<[Kept(4, 1, 2) EXCEPT !.lines = {1}]>>, <<>>),
                Knows(4 :> Seen({<<1, 2>>}, TRUE), <<Kept(4, 1, 2)>>,
                      <<Decided(5, 100, "", 0), Decided(4, 96, "go", 1)>>) }
MCModifiedSets == { <<4>>, <<2, 4, 5>>, <<5>>, <<1>> }

(* ------------------------------ the work ledger ------------------------------ *)

UserPrompt(o, m, c, t) == [objective |-> o, markers |-> m, breaks |-> 1, criteria |-> c, text |-> t]
MCPrompts == {UserPrompt("a", {"refactor"}, <<{"tests"}, {}>>, 1), UserPrompt("a", {}, <<>>, 2)}
Unit(m, deps, paths) ==
    [id |-> <<"model", m>>, deps |-> {<<"model", d>> : d \in deps}, paths |-> paths, whole |-> TRUE]
Outline(units) == [subgoals |-> units, active |-> NoSubgoal]
MCOutlines ==
    { Outline(<<Unit("m", {"n"}, {"p"}), Unit("n", {}, {})>>), Outline(<<Unit("n", {"m"}, {"q"})>>),
      [Outline(<<Unit("m", {}, {"p"})>>) EXCEPT !.active = Root],
      Outline(<<Unit("n", {}, {"q"}), Unit("n", {}, {})>>),
      Outline(<<[Unit("n", {}, {}) EXCEPT !.whole = FALSE]>>) }
MCWorkCommands == {[name |-> "cargo test", words |-> {"test"}], [name |-> "cargo fmt", words |-> {}]}

(* ------------------------------ the coding policy ------------------------------ *)

MCSymbolMatches == (1 :> 50) @@ (2 :> 0)
MCRelatedMatches == (1 :> 40) @@ (2 :> 0)
Use(t, p, c) == [tool |-> t, path |-> p, command |-> c]
MCToolBatches == { <<Use("read", 1, "")>>, <<Use("search", 2, "")>>,
                   <<Use("write", 1, ""), Use("git", 0, "status")>>,
                   <<Use("check", 0, "check"), Use("check", 0, "check")>> }
MCCheckPlan == <<"check">>

(* ------------------------------ context packets ------------------------------ *)

\* A source and its test.
MCPromptPaths == << [test |-> FALSE, stem |-> "a"], [test |-> TRUE, stem |-> "a"] >>
MCTaskHits == <<"t", 1>> :> 65
MCSymbolHits == 2 :> 1
MCRelationHits == {[path |-> 2, kind |-> "test", score |-> 64, ambiguous |-> TRUE]}
MCItemBytes == [modified |-> 1, user |-> 1, excerpt |-> 3, inspected |-> 1, tool |-> 1,
                instructions |-> 4, repository |-> 1, git |-> 1]
MCInstructions == (0 :> "root") @@ (1 :> "root") @@ (2 :> "tests")
MCPhaseBudget == [discover |-> 5, inspect |-> 9, modify |-> 10, verify |-> 8, complete |-> 5]
MCReadRanges == {<<1, 1>>}
MCAutoRange == <<1, 2>>
Fresh == [phase |-> "discover", failures |-> <<>>, blockers |-> <<>>,
          recovery |-> [active |-> FALSE, paths |-> <<>>], relevant |-> <<2>>, subgoals |-> <<>>,
          diagnosed |-> <<>>, candidates |-> <<>>, mutations |-> <<>>, evidence |-> <<>>,
          observed |-> <<>>, revision |-> 1, objective |-> "o", checks |-> <<>>]
Failing ==
    [Fresh EXCEPT !.phase = "modify", !.failures = <<"f">>, !.subgoals = <<[paths |-> <<1>>]>>,
        !.diagnosed = <<2>>, !.mutations = <<[path |-> 1, revision |-> 1]>>,
        !.candidates = <<[path |-> 1, evidence |-> 1, score |-> 90, inspected |-> TRUE, stale |-> FALSE],
                         [path |-> 2, evidence |-> 0, score |-> 40, inspected |-> FALSE, stale |-> FALSE]>>,
        !.evidence = <<[path |-> 2, kind |-> "symbol", weight |-> 50]>>,
        !.observed = <<[path |-> 1, valid |-> TRUE]>>, !.checks = <<[revision |-> 1, passed |-> FALSE]>>]
MCWorkStates == {Fresh, Failing}

(* -------------------------------- the backend -------------------------------- *)

GptId == [provider |-> "openai", start |-> "openai", clean |-> TRUE]
ChatId == [provider |-> "x", start |-> "x", clean |-> TRUE]
BadId == [provider |-> "none", start |-> "gpt-", clean |-> FALSE]
Naming(of, call, item) == [of |-> of, call |-> call, item |-> item]
MCNamings == {Naming("p", <<"c">>, <<"i">>), Naming("p", <<>>, <<"i">>), Naming("p", <<"">>, <<"i">>),
              Naming("p", <<>>, <<>>), Naming("q", <<"c">>, <<>>)}
MCModelIds == {GptId, ChatId, BadId}
MCCatalogItems == {[id |-> ChatId, v1 |-> <<[tools |-> "yes", reasoning |-> "text"]>>,
                    parameters |-> <<{}>>, modalities |-> <<>>]}

(* ----------------------------------- parts ----------------------------------- *)

Init ==
    /\ part \in {"map", "plan", "work", "policy", "prompt", "stream"}
    /\ RepoInit /\ PlanInit /\ LedgerInit /\ PolicyInit /\ PromptInit /\ RainyInit
    /\ part \notin {"map", "plan"} => gitIndex.plain  \* one initial state of an idle part

MapPart == part = "map" /\ RepoNext
           /\ UNCHANGED <<part, planBatch, ledgerVars, policyVars, contextVars, rainyVars>>
PlanPart == part = "plan" /\ PlanNext
            /\ UNCHANGED <<part, ledgerVars, policyVars, contextVars, rainyVars>>
WorkPart == part = "work" /\ LedgerNext
            /\ UNCHANGED <<part, planVars, policyVars, contextVars, rainyVars>>
PolicyPart == part = "policy" /\ PolicyNext
              /\ UNCHANGED <<part, planVars, ledgerVars, contextVars, rainyVars>>
PromptPart == part = "prompt" /\ ContextNext
              /\ UNCHANGED <<part, planVars, ledgerVars, policyVars, rainyVars>>
StreamPart == part = "stream" /\ RainyNext
              /\ UNCHANGED <<part, planVars, ledgerVars, policyVars, contextVars>>

Next == MapPart \/ PlanPart \/ WorkPart \/ PolicyPart \/ PromptPart \/ StreamPart

Spec == Init /\ [][Next]_vars
=============================================================================
