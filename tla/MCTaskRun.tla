----------------------------- MODULE MCTaskRun -----------------------------
(* Small instances of TaskRun: two tasks of one agent on one worker id,    *)
(* under each of a few sandbox blocks, runtimes, policies and hosts.       *)
EXTENDS TaskRun, TLC

CONSTANTS t1, t2, a1, w1, w2, r1, r2, op

MCKindOf == (t1 :> "fix") @@ (t2 :> "read")
MCAgentOf == (t1 :> a1) @@ (t2 :> a1)
MCSizeOf == [warm |-> 2, task |-> 1]

docker(repo, after, warm, keep) ==
  [provider |-> "docker", image |-> "recipe", repo |-> repo, resources |-> TRUE, after |-> after,
   warmSnapshot |-> warm, keep |-> keep]
local(repo) ==
  [provider |-> "local", image |-> "none", repo |-> repo, resources |-> FALSE, after |-> "dispose",
   warmSnapshot |-> FALSE, keep |-> 9]

MCRuntime(kind, auth) ==
  [kind |-> kind, auth |-> auth, baseUrl |-> FALSE, profile |-> "standard", plugins |-> {}]

MCPolicy(deny, gated, providers, cap) ==
  [deny |-> deny, requireApproval |-> gated, allowProviders |-> providers, maxSnapshotBytes |-> cap]

MCHost(material, backend, packages, key) ==
  [material |-> [k \in CliKinds |-> material], binaries |-> CliKinds, dsh |-> backend,
   hermes |-> backend, packages |-> packages, key |-> key]
plain == MCHost({"api-key"}, "embedded", {}, FALSE)
live == MCHost({"api-key", "oauth"}, "live", {"hermes-agent", "dsh"}, TRUE)
keyed == MCHost({"api-key"}, "embedded", {}, TRUE)
loggedIn == MCHost({"api-key", "oauth"}, "embedded", {}, FALSE)

setupOf(s, rt, p, h) == [spec |-> (a1 :> s), runtime |-> (a1 :> rt), policy |-> p, host |-> h]

both == {"local", "docker"}

MCSetups ==
  {setupOf(docker("clone", "snapshot", TRUE, 9), MCRuntime("dsh", "none"), MCPolicy({}, {}, both, 2), plain),
   setupOf(docker("mount", "dispose", FALSE, 9), MCRuntime("codex", "api-key"),
           MCPolicy({"shell", "deploy"}, {}, both, 3), plain),
   setupOf(docker("mount", "snapshot", TRUE, 9), MCRuntime("dsh", "none"), MCPolicy({}, {}, both, 2), plain),
   setupOf(docker("none", "dispose", FALSE, 9), MCRuntime("dsh", "none"),
           MCPolicy({"fs"}, {"shell"}, {"local"}, 2), plain),
   setupOf(local("none"), [MCRuntime("dsh", "none") EXCEPT !.plugins = {"fs", "shell", "web"}],
           MCPolicy({"web"}, {"shell"}, both, 2), plain),
   setupOf(local("none"), MCRuntime("dsh", "none"), MCPolicy({}, {"shell"}, both, 2), live),
   setupOf(local("none"), MCRuntime("dsh", "none"), MCPolicy({}, {"shell"}, both, 2), keyed),
   setupOf(local("none"), MCRuntime("claude-code", "none"), MCPolicy({}, {"shell"}, both, 2), loggedIn),
   setupOf(local("none"), MCRuntime("claude-code", "oauth"), MCPolicy({"web"}, {"fs"}, both, 2), loggedIn),
   setupOf(local("none"), MCRuntime("claude-code", "oauth"), MCPolicy({}, {"shell"}, both, 2), live),
   setupOf(local("none"), MCRuntime("cursor", "none"), MCPolicy({"memory"}, {}, both, 2), plain),
   setupOf(local("clone"), MCRuntime("dsh", "none"), MCPolicy({}, {}, both, 2), plain)}
============================================================================
