---------------------------------- MODULE SdkMC ----------------------------------
(***************************************************************************)
(* One run of the parts of the SDK around its command path: the CDP cache, *)
(* operations with confirmations, documents and refs, startup, the named   *)
(* controllers and the allowlist.  They share no variable, so a behaviour  *)
(* is one of one part, the others staying where they began; each part has  *)
(* all of its own behaviours.                                              *)
(***************************************************************************)
EXTENDS CdpCache, Operations, Documents, Startup, Registry, Policy

CONSTANTS t1, t2, f1, h1, h2, h3

VARIABLE part

-----------------------------------------------------------------------------
(* Instances *)

\* The first tab has a frame.
MCFrameOf == f1 :> t1

\* Options with a rule of their own, and pairs that do not go together.
MCLaunchSets ==
    {{}, {"executable_path"}, {"profile"}, {"storage_state"}, {"ca_cert"}, {"provider"},
     {"ca_cert", "profile"}, {"provider", "webgpu"}, {"page_args"}, {"ios"}}

\* A domain, a host below it, and another domain.
MCBelow == {<<h2, h1>>}

Entry(wild, host) == [wild |-> wild, host |-> host]

MCAllowlists == {{}, {Entry(FALSE, h1)}, {Entry(TRUE, h1)}, {Entry(FALSE, h2), Entry(TRUE, h3)}}

\* The tab with the frame is the first one: a bound of this run.
MCFramedFirst == tabs[t1] = "new" => tabs[t2] = "new"

\* Who is at work on the documents does not matter; the other parts are small.
MCSymmetry == Permutations(Callers)

-----------------------------------------------------------------------------

sdkVars == <<part, vars, operationVars, documentVars, startupVars, registryVars, policyVars>>

\* Where a part that does not move stays.
AtHome ==
    /\ part # "operations" => op = [i \in Instances |-> "observe"]
    /\ part # "documents" => isAsync
    /\ part # "startup" => /\ made = [how |-> "Browser", launch |-> {}, target |-> {}, session |-> {}]
                           /\ chrome
    /\ part # "policy" => patterns = {}

SdkInit ==
    /\ part \in {"cdp", "operations", "documents", "startup", "registry", "policy"}
    /\ Init /\ OperationsInit /\ DocumentsInit /\ StartupInit /\ RegistryInit /\ PolicyInit
    /\ AtHome

SdkNext ==
    /\ part' = part
    /\ \/ part = "cdp" /\ Next
          /\ UNCHANGED <<operationVars, documentVars, startupVars, registryVars, policyVars>>
       \/ part = "operations" /\ OperationsNext
          /\ UNCHANGED <<vars, documentVars, startupVars, registryVars, policyVars>>
       \/ part = "documents" /\ DocumentsNext /\ MCFramedFirst'
          /\ UNCHANGED <<vars, operationVars, startupVars, registryVars, policyVars>>
       \/ part = "startup" /\ StartupNext
          /\ UNCHANGED <<vars, operationVars, documentVars, registryVars, policyVars>>
       \/ part = "registry" /\ RegistryNext
          /\ UNCHANGED <<vars, operationVars, documentVars, startupVars, policyVars>>
       \/ part = "policy" /\ PolicyNext
          /\ UNCHANGED <<vars, operationVars, documentVars, startupVars, registryVars>>

SdkSpec == SdkInit /\ [][SdkNext]_sdkVars

\* The types of the parts, and that every operation on documents that is under way
\* waits for exactly one answer.
SdkTypeOK ==
    /\ part = "cdp" => TypeOK
    /\ part = "operations" => OperationsTypeOK
    /\ part = "documents" => DocumentsTypeOK
=============================================================================
