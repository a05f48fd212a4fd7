------------------------------ MODULE Runtimes ------------------------------
(***************************************************************************)
(* What decides, before a task runs, where and how it may run: the checks  *)
(* of a sandbox block, the policy on sandboxes and tools, the credentials  *)
(* and the permission flags of an external coding agent, and the plan.     *)
(* Everything here is a function of the manifest, the policy and the       *)
(* environment; module TaskRun applies it to running tasks.                *)
(*                                                                         *)
(* Sources: sandbox/spec.ts, admission.ts, approval.ts, worker-runtime.ts, *)
(* cli-runtimes/, dsh.ts, harness.ts, plugins.ts and hermes.ts of src/src. *)
(* Names, sizes and paths are well formed; argv and prompts are left out.  *)
(***************************************************************************)
EXTENDS Integers, FiniteSets, FiniteSetsExt

KnownTools == {"fs", "shell", "bash", "web", "github", "subagent", "inspect",
               "str_replace_editor", "memory"}

(* Tools a policy may name without any harness having them.                *)
OtherTools == {"deploy"}

CliKinds == {"claude-code", "codex", "copilot", "cursor"}
Kinds == {"dsh"} \cup CliKinds

Policy == [deny : SUBSET (KnownTools \cup OtherTools),
           requireApproval : SUBSET (KnownTools \cup OtherTools),
           allowProviders : SUBSET {"local", "docker"},
           maxSnapshotBytes : Nat]

SandboxSpec == [provider : {"local", "docker"},
                image : {"none", "recipe", "dockerfile", "both"},
                repo : {"none", "clone", "cloneNoUrl", "mount", "mountUrl"},
                resources : BOOLEAN,
                after : {"dispose", "snapshot"},
                warmSnapshot : BOOLEAN,
                keep : Nat]

----------------------------------------------------------------------------
(* The sandbox block of a manifest.                                        *)

validateSandboxSpec(s) ==
  IF s.provider = "local"
    THEN s.image = "none" /\ s.repo = "none" /\ ~s.resources
         /\ s.after = "dispose" /\ ~s.warmSnapshot
    ELSE /\ s.image # "both"
         /\ s.repo \notin {"cloneNoUrl", "mountUrl"}
         /\ s.warmSnapshot => s.repo = "clone"

(* A policy that restricts base images cannot verify a Dockerfile; the     *)
(* allowed bases are those of the recipes.                                 *)
admitSandbox(p, s) ==
  /\ s.provider \in p.allowProviders
  /\ s.provider = "docker" => s.image # "dockerfile"

needsHostWorktree(s) == s.provider = "local" \/ s.repo = "mount"

----------------------------------------------------------------------------
(* Credentials.  host.material is, for each runtime, the methods whose     *)
(* key is set or whose login file exists.                                  *)

authMethods ==
  [k \in CliKinds |-> CASE k = "claude-code" -> {"api-key", "oauth"}
                        [] k = "copilot" -> {"api-key"}
                        [] OTHER -> {"api-key", "oauth-file"}]

strategyMaterial(k, host) == authMethods[k] \cap host.material[k]

(* Without a request there must be exactly one usable method.              *)
selectRuntimeAuth(k, requested, host) ==
  IF requested = "none" THEN Cardinality(strategyMaterial(k, host)) = 1
                        ELSE requested \in strategyMaterial(k, host)

selected(k, requested, host) ==
  IF requested = "none" THEN CHOOSE m \in strategyMaterial(k, host) : TRUE ELSE requested

(* A base URL belongs to a Codex API key and to nothing else.              *)
codexApplyAuth(m, baseUrl) == m = "oauth-file" => ~baseUrl
cursorApplyAuth(baseUrl) == ~baseUrl
envApplyAuth(baseUrl) == ~baseUrl

applyAuth(k, m, baseUrl) ==
  CASE k = "codex" -> codexApplyAuth(m, baseUrl)
    [] k = "cursor" -> cursorApplyAuth(baseUrl)
    [] OTHER -> envApplyAuth(baseUrl)

prepareRuntimeAuth(rt, host) ==
  rt.kind \in CliKinds =>
    /\ selectRuntimeAuth(rt.kind, rt.auth, host)
    /\ applyAuth(rt.kind, selected(rt.kind, rt.auth, host), rt.baseUrl)

(* What `ropex runtimes` reports as ready, for a runtime without requests: *)
(* an ambiguous login counts as present.                                   *)
describeAuth(k, host) == strategyMaterial(k, host) # {}

workerRuntimeScaffold(host) ==
  {"dsh"} \cup {k \in CliKinds : k \in host.binaries /\ describeAuth(k, host)}

----------------------------------------------------------------------------
(* Permissions.  A headless agent cannot pause for an approval, so what    *)
(* requires one is denied; what is no tool of the harness is only told.    *)

classifyPolicy(p) == (p.deny \cup p.requireApproval) \cap KnownTools

workspaceTools == {"fs", "str_replace_editor", "shell", "bash"}

(* The tools an agent has a flag for.                                      *)
flagged ==
  [k \in CliKinds |-> CASE k = "claude-code" -> workspaceTools \cup {"web", "github", "subagent"}
                        [] k = "codex" -> workspaceTools
                        [] k = "copilot" -> workspaceTools \cup {"github"}
                        [] OTHER -> {}]

(* Memory is never shown to an agent, so denying it needs no flag.         *)
mapDenies(k, denies) == denies \ (flagged[k] \cup {"memory"})

codexBlocked(p) == classifyPolicy(p) \cap workspaceTools # {}

(* What Codex can change: a read-only sandbox when anything is denied; in  *)
(* a container its own sandbox is off, unless it is read-only.             *)
codexPermissions(p) == IF codexBlocked(p) THEN {} ELSE workspaceTools

codexContainerArgs(p) == IF codexBlocked(p) THEN codexPermissions(p) ELSE workspaceTools

(* A policy of which nothing is left to the prompt is enforced by flags.   *)
unmappable(k, p) == mapDenies(k, classifyPolicy(p))

cursorPermissions(p) == IF unmappable("cursor", p) = {} THEN KnownTools ELSE {}
cursorContainerArgs(p) == cursorPermissions(p)

(* The tools a session of the agent may use under its flags.               *)
permissionPlan(k, p, container) ==
  CASE k = "codex" -> (KnownTools \ (workspaceTools \cup {"memory"}))
                        \cup (IF container THEN codexContainerArgs(p) ELSE codexPermissions(p))
    [] k = "cursor" -> (IF container THEN cursorContainerArgs(p) ELSE cursorPermissions(p)) \ {"memory"}
    [] OTHER -> KnownTools \ (classifyPolicy(p) \cup {"memory"})

----------------------------------------------------------------------------
(* Booting the brain and the executor: live backends need their package.   *)

bootHermes(host) == host.hermes = "live" => "hermes-agent" \in host.packages

bootLiveDsh(s, host) ==
  s.provider = "local" /\ "dsh" \in host.packages /\ host.key

bootDsh(s, host) == host.dsh = "live" => bootLiveDsh(s, host)

bootCliRuntime(rt, p, host) ==
  rt.kind \in host.binaries /\ prepareRuntimeAuth(rt, host) /\ unmappable(rt.kind, p) = {}

bootWorker(rt, s, p, host) ==
  IF rt.kind = "dsh" THEN bootDsh(s, host) ELSE bootCliRuntime(rt, p, host)

----------------------------------------------------------------------------
(* The plan, its admission, and what is then executed.                     *)

planCalls(kind) ==
  CASE kind = "edits" -> {"fs", "shell"}
    [] kind = "issues" -> {"github"}
    [] kind = "pull_request" -> {"github", "fs"}
    [] kind = "fix" -> {"fs", "shell", "github"}
    [] OTHER -> {"fs"}

(* A live brain answers with one call; when it fails, the embedded planner *)
(* takes over.                                                             *)
plans(kind, host) == IF host.hermes = "live" THEN {planCalls(kind), {"fs"}} ELSE {planCalls(kind)}

admitTool(p, tool, approved) ==
  IF tool \in p.deny THEN "deny"
  ELSE IF tool \in p.requireApproval /\ tool \notin approved THEN "approval" ELSE "allow"

admitCalls(p, calls, approved) ==
  [status \in {"allow", "deny", "approval"} |-> {c \in calls : admitTool(p, c, approved) = status}]

profileTools ==
  [standard |-> {"fs", "shell", "web", "github", "subagent"}, code |-> {"fs", "shell", "github"},
   minimal |-> {"bash", "str_replace_editor"},
   creator |-> {"fs", "shell", "web", "github", "subagent", "inspect"}]

(* The plugins of a manifest replace the tools of its profile; the memory  *)
(* of the brain comes with either.                                         *)
toolsFor(rt) == (IF rt.plugins # {} THEN rt.plugins ELSE profileTools[rt.profile]) \cup {"memory"}

(* The loop skips what the kernel has not registered; a registered tool    *)
(* answers `denied` without an effect.                                     *)
toolsPlugin(p, rt) == toolsFor(rt) \ p.deny
loopPlugin(calls, p, rt) == calls \cap toolsPlugin(p, rt)

(* With a key and no ROPEX_LLM=embedded the model answers, and no tool is  *)
(* called.  No timer runs for that request.                                *)
answerWithLlm(host) == host.dsh = "embedded" /\ host.key
asksModel(rt, host) == rt.kind = "dsh" /\ answerWithLlm(host)

(* A live brain plans in a turn of its own, in the worktree and before any *)
(* call is admitted; the live harness reads the admitted calls in a prompt *)
(* and nothing holds it to them.                                           *)
runLiveHermesTask(host) == IF host.hermes = "live" THEN KnownTools ELSE {}
runHeadlessDsh == KnownTools

(* The kernel of the embedded harness and the flags of a coding agent are  *)
(* what admission is enforced by.                                          *)
enforced(rt, host) == host.hermes # "live" /\ (rt.kind = "dsh" => host.dsh # "live")

executedTools(rt, s, p, host, allowed) ==
  runLiveHermesTask(host) \cup
    CASE rt.kind # "dsh" -> permissionPlan(rt.kind, p, s.provider = "docker")
      [] asksModel(rt, host) -> {}
      [] rt.kind = "dsh" /\ host.dsh = "live" -> runHeadlessDsh
      [] OTHER -> loopPlugin(allowed, p, rt)
============================================================================
