----------------------------- MODULE MCToolStep -----------------------------
(***************************************************************************)
(* A turn for TLC, in two parts that share nothing: the step of its agent  *)
(* (ToolStep) and the shell around turns (TurnShell).  A behaviour is one  *)
(* of a single part, which Init chooses, while the other stays in an       *)
(* initial state.                                                          *)
(*                                                                         *)
(* Steps have up to four calls, chosen so that scopes repeat, are browser  *)
(* actions, are stopped by the gate, and footprints conflict, nest, are    *)
(* unknown or are independent.                                             *)
(***************************************************************************)
EXTENDS ToolStep, TurnShell

VARIABLE part

Files == <<"workspace", "src">>
File  == <<"workspace", "src", "main">>
Other == <<"workspace", "doc">>
Page  == <<"browser", "page">>

Reads(S)  == [unknown |-> FALSE, reads |-> S, writes |-> {}]
Writes(S) == [unknown |-> FALSE, reads |-> {}, writes |-> S]
Unknown   == [unknown |-> TRUE, reads |-> {}, writes |-> {}]

Call(scope, asks, f) ==
    [scope |-> scope, asks |-> asks, browser |-> scope = "act", allowed |-> TRUE, footprint |-> f]

ReadFile   == Call("read", FALSE, Reads({File}))
ReadOther  == Call("read", FALSE, Reads({Other}))
WriteFile  == Call("write", TRUE, Writes({File}))
WriteAll   == Call("write", TRUE, Writes({Files}))
WriteOther == Call("write", TRUE, Writes({Other}))
Blocked    == [WriteFile EXCEPT !.allowed = FALSE]
Shell1     == Call("shell", TRUE, Unknown)
Act        == Call("act", TRUE, Writes({Page}))

\* Every step of three calls out of four kinds, and some others.
Mixed == {WriteFile, WriteAll, ReadOther, Act}

MCBatches ==
    [1..3 -> Mixed]
    \cup { <<WriteFile, ReadFile, ReadOther, WriteOther>>, <<ReadFile, Blocked, WriteAll, Shell1>>,
           <<Shell1, Blocked, ReadFile>>, <<ReadFile, Shell1, ReadOther>> }

partVars == <<part, vars, shellVars>>

PartsInit ==
    /\ part \in {"step", "shell"} /\ Init /\ ShellInit
    \* One initial state of the part that stays idle.
    /\ part = "step" => ~model /\ session = NoSession
    /\ part = "shell" => batch = <<ReadFile, Shell1, ReadOther>> /\ queue = <<>>

StepPart == part = "step" /\ Next /\ UNCHANGED <<part, shellVars>>
ShellPart == part = "shell" /\ ShellNext /\ UNCHANGED <<part, vars>>

PartsNext == StepPart \/ ShellPart

\* The fairness of ToolStep, for its part; the idle shell has no step that fairness asks for.
StepFairness ==
    /\ WF_vars(part = "step" /\ Agent)
    /\ WF_vars(part = "step" /\ Receive)
    /\ WF_vars(part = "step" /\ DropRequest)

PartsSpec == PartsInit /\ [][PartsNext]_partVars /\ StepFairness /\ ShellFairness

(* Every step ends, when the part is that of the steps. *)
StartedStepsEnd == part = "step" => EveryStepEnds
=============================================================================
