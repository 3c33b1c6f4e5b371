-------------------------- MODULE MCChildProcesses --------------------------
(***************************************************************************)
(* The parts of AETHER that own child processes, for TLC: the process      *)
(* registry, the browser and the credential helper.  They share nothing, so*)
(* a behaviour of the run is a behaviour of one of them, which Init chooses*)
(* while the others stay in their initial states: the union of the state   *)
(* spaces, not their product.                                              *)
(***************************************************************************)
EXTENDS ProcessRegistry, BrowserSession, CredentialHelper

VARIABLE part

vars == <<part, registryVars, browserVars, helperVars>>

Init == /\ part \in {"registry", "browser", "helper"}
        /\ RegistryInit /\ BrowserInit /\ HelperInit

RegistryPart == part = "registry" /\ RegistryNext /\ UNCHANGED <<part, browserVars, helperVars>>
BrowserPart  == part = "browser" /\ BrowserNext /\ UNCHANGED <<part, registryVars, helperVars>>
HelperPart   == part = "helper" /\ HelperNext /\ UNCHANGED <<part, registryVars, browserVars>>

Next == RegistryPart \/ BrowserPart \/ HelperPart

\* In its initial state a part has no step that fairness asks for.
Spec == Init /\ [][Next]_vars /\ RegistryFairness /\ BrowserFairness

(* What AETHER takes from the pipes of a child is what the child wrote: the *)
(* output of a persistent process in order and once, the credential whole. *)
PipesAreReadWhole == OutputIsAccountedFor /\ KeyIsTheWholeAnswer
=============================================================================
