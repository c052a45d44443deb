------------------------------- MODULE ToolCalls -------------------------------
(***************************************************************************)
(* Tool calls and their replay (core/tool_registry.py, tool_contracts.py,  *)
(* action_policy.py, result_cache.py, replay.py and the commands tools of  *)
(* cli.py).  A call synchronises the manifests, takes the snapshot of the  *)
(* contracts once per run, is refused, answered from the cache or          *)
(* executed, and is recorded.  All of it is one transaction, but the       *)
(* configuration file and the contracts of MCP servers and of new releases *)
(* change outside, also while a tool executes.  A replay repeats nothing:  *)
(* it reuses what the run recorded or is blocked.                          *)
(***************************************************************************)
EXTENDS Naturals, Sequences

CONSTANTS
  ToolRuns,       \* runs
  MaxCalls,       \* bound: calls of a run
  MaxChanges      \* bound: changes of configuration, contract or manifest

ASSUME ToolAssumption == MaxCalls \in Nat /\ MaxChanges \in Nat

\* A request is a tool with its input, and the input says whether the
\* target is written to: POST or GET, send or dry run.
SideEffects == {"none", "local_read", "local_write", "local_execute", "network_read",
                "network_write", "external_write"}
BuiltinTools == {"fs.read_text", "fs.write_text", "shell.run", "http.request", "web.search",
                 "im.telegram.send_message"}
BuiltinSideEffects(tool) ==
  CASE tool = "fs.read_text" -> "local_read"
    [] tool = "fs.write_text" -> "local_write"
    [] tool = "shell.run" -> "local_execute"
    [] tool \in {"http.request", "web.search"} -> "network_read"
    [] tool = "im.telegram.send_message" -> "external_write"

Requests == {[tool |-> "fs.read_text", writes |-> FALSE],
             [tool |-> "fs.write_text", writes |-> TRUE],
             [tool |-> "shell.run", writes |-> TRUE],
             [tool |-> "http.request", writes |-> FALSE],
             [tool |-> "http.request", writes |-> TRUE],
             [tool |-> "web.search", writes |-> FALSE],
             [tool |-> "im.telegram.send_message", writes |-> FALSE],
             [tool |-> "im.telegram.send_message", writes |-> TRUE]}
CacheableTools == {"http.request", "web.search"}   \* web.fetch is like web.search
BlockedReplaySideEffects == {"local_write", "local_execute", "network_write", "external_write"}

Configs == 0..MaxChanges   \* versions of the configuration file
Contracts == 0..MaxChanges \* versions of a tool's contract
RunModes == {"normal", "scheduler"}

VARIABLES
  mode,      \* who started a run
  enabled,   \* tool_manifests.enabled
  contract,  \* the contract of each tool in the registry
  config,    \* the configuration file
  snapshot,  \* tool_contract_snapshots of a run, or NoSnapshot
  calls,     \* tool_calls of a run
  cache,     \* result_cache by key: what the result was made with, and whether it expired
  ongoing,   \* the call that executes, or NoCall
  report,    \* history: what the last replay reported
  written,   \* history: runs and the tools with which they wrote to a target
  drifted,   \* history: runs with a call under another contract than their snapshot's
  slipped,   \* history: a result was stored under a configuration that came after its call
  changes    \* bound

toolVars == <<mode, enabled, contract, config, snapshot, calls, cache, ongoing, report, written,
              drifted, slipped, changes>>

NoSnapshot == [taken |-> FALSE]
NoCall == [executing |-> FALSE]
NoEntry == [stored |-> FALSE]
NoReport == [ready |-> FALSE]
CacheKeys == {q \in Requests : q.tool \in CacheableTools} \X Configs

(***************************************************************************)
(* Contracts and the action policy.                                        *)
(***************************************************************************)
FaultyEffectiveSideEffect(request) == BuiltinSideEffects(request.tool)   \* ignores the method

\* effective_side_effect: the method of an HTTP request decides.
EffectiveSideEffect(request) ==
  IF request.tool = "http.request"
  THEN IF request.writes THEN "network_write" ELSE "network_read"
  ELSE BuiltinSideEffects(request.tool)

\* decide_action, for internal data (no caller passes another class): the
\* first rule that matches.
Decide(runMode, effect, dryRun) ==
  IF runMode = "replay" /\ effect \in BlockedReplaySideEffects THEN "block"
  ELSE IF runMode = "scheduler" /\ effect \in BlockedReplaySideEffects \ {"local_write"} THEN "block"
  ELSE IF effect = "external_write" /\ ~dryRun THEN "require_clarification"
  ELSE "allow"

Allowed(run, request) == Decide(mode[run], EffectiveSideEffect(request), ~request.writes) = "allow"

(***************************************************************************)
(* The result cache.                                                       *)
(***************************************************************************)
FaultyCacheKey(request) == <<request, 0>>   \* without the configuration

\* cache_key_for_tool: the input, without the ttl, and the configuration as
\* it is now, at the lookup and again when the result is stored.
CacheKey(request) == <<request, config>>

Cacheable(request) ==
  request.tool \in CacheableTools /\ EffectiveSideEffect(request) = "network_read"

CacheHit(request) ==
  /\ Cacheable(request)
  /\ cache[CacheKey(request)] # NoEntry
  /\ ~cache[CacheKey(request)].expired

Stored(request, madeWith) ==
  IF Cacheable(request)
  THEN [cache EXCEPT ![CacheKey(request)] =
          [stored |-> TRUE, madeWith |-> madeWith, expired |-> FALSE]]
  ELSE cache

ToolsInit ==
  /\ mode \in [ToolRuns -> RunModes]
  /\ enabled = [t \in BuiltinTools |-> TRUE]
  /\ contract = [t \in BuiltinTools |-> 0]
  /\ config = 0
  /\ snapshot = [r \in ToolRuns |-> NoSnapshot]
  /\ calls = [r \in ToolRuns |-> <<>>]
  /\ cache = [k \in CacheKeys |-> NoEntry]
  /\ ongoing = NoCall
  /\ report = NoReport /\ written = {} /\ drifted = {} /\ slipped = FALSE /\ changes = 0

(***************************************************************************)
(* ToolRegistry.call                                                       *)
(***************************************************************************)
\* The snapshot is taken by the first call of the run, also one that is refused.
SnapshotTaken(run) ==
  snapshot' = IF snapshot[run] # NoSnapshot THEN snapshot
              ELSE [snapshot EXCEPT ![run] = [taken |-> TRUE, of |-> contract]]

RecordCall(run, request, status, madeWith, under) ==
  /\ calls' = [calls EXCEPT ![run] = Append(@, [request |-> request, status |-> status,
                                                contract |-> contract[request.tool],
                                                madeWith |-> madeWith, under |-> under])]
  /\ drifted' = IF snapshot'[run].of[request.tool] # contract[request.tool]
                THEN drifted \cup {run} ELSE drifted

\* A disabled tool raises before there is a row.
CallDisabled(run, request) ==
  /\ ongoing = NoCall /\ ~enabled[request.tool] /\ Len(calls[run]) < MaxCalls
  /\ SnapshotTaken(run)
  /\ UNCHANGED <<mode, enabled, contract, config, calls, cache, ongoing, report, written,
                 drifted, slipped, changes>>

\* The policy blocks the call or asks for a confirmation: it has failed.
CallRefused(run, request) ==
  /\ ongoing = NoCall /\ enabled[request.tool] /\ Len(calls[run]) < MaxCalls
  /\ ~Allowed(run, request)
  /\ SnapshotTaken(run)
  /\ RecordCall(run, request, "failed", config, config)
  /\ UNCHANGED <<mode, enabled, contract, config, cache, ongoing, report, written, slipped,
                 changes>>

CallCached(run, request) ==
  /\ ongoing = NoCall /\ enabled[request.tool] /\ Len(calls[run]) < MaxCalls
  /\ Allowed(run, request) /\ CacheHit(request)
  /\ SnapshotTaken(run)
  /\ RecordCall(run, request, "completed", cache[CacheKey(request)].madeWith, config)
  /\ UNCHANGED <<mode, enabled, contract, config, cache, ongoing, report, written, slipped,
                 changes>>

StartCall(run, request) ==
  /\ ongoing = NoCall /\ enabled[request.tool] /\ Len(calls[run]) < MaxCalls
  /\ Allowed(run, request) /\ ~CacheHit(request)
  /\ SnapshotTaken(run)
  /\ ongoing' = [executing |-> TRUE, run |-> run, request |-> request, config |-> config]
  /\ UNCHANGED <<mode, enabled, contract, config, calls, cache, report, written, drifted, slipped, changes>>

\* The tool returns or raises; either way it may have written.
EndCall(status) ==
  /\ ongoing # NoCall
  /\ UNCHANGED <<mode, enabled, contract, config, snapshot, report, changes>>
  /\ LET request == ongoing.request
         run == ongoing.run
     IN /\ RecordCall(run, request, status, ongoing.config, ongoing.config)
        /\ cache' = IF status = "completed" THEN Stored(request, ongoing.config) ELSE cache
        /\ slipped' = (slipped \/ (cache' # cache /\ ongoing.config # config))
        /\ written' = IF request.writes THEN written \cup {<<run, request.tool>>} ELSE written
  /\ ongoing' = NoCall

(***************************************************************************)
(* What changes from outside.                                              *)
(***************************************************************************)
Bounded == changes < MaxChanges /\ changes' = changes + 1

\* The time to live of a result ends.
Expire(key) ==
  /\ cache[key] # NoEntry /\ ~cache[key].expired
  /\ cache' = [cache EXCEPT ![key] = [@ EXCEPT !.expired = TRUE]]
  /\ UNCHANGED <<mode, enabled, contract, config, snapshot, calls, ongoing, report, written,
                 drifted, slipped, changes>>

EditConfig(version) ==
  /\ Bounded /\ config' = version /\ config' # config
  /\ UNCHANGED <<mode, enabled, contract, snapshot, calls, cache, ongoing, report, written, drifted,
                 slipped>>

\* A release, or an MCP server, changes a contract or changes it back.
ChangeContract(tool, version) ==
  /\ Bounded /\ ongoing = NoCall
  /\ contract' = [contract EXCEPT ![tool] = version] /\ contract' # contract
  /\ UNCHANGED <<mode, enabled, config, snapshot, calls, cache, ongoing, report, written, drifted,
                 slipped>>

\* tools enable, tools disable: the transaction waits for the call's.
SetToolEnabled(tool, on) ==
  /\ Bounded /\ ongoing = NoCall
  /\ enabled[tool] # on
  /\ enabled' = [enabled EXCEPT ![tool] = on]
  /\ UNCHANGED <<mode, contract, config, snapshot, calls, cache, ongoing, report, written, drifted,
                 slipped>>

(***************************************************************************)
(* runs replay.  A manifest's enabled is not part of the contract that is  *)
(* compared, so a disabled tool is no drift.                               *)
(***************************************************************************)
ContractDrift(run, tool) == snapshot[run].of[tool] # contract[tool]

FaultyPlanToolStep(run, call) ==   \* does not compare the contracts
  IF call.status # "completed" THEN "skip"
  ELSE IF EffectiveSideEffect(call.request) \in BlockedReplaySideEffects THEN "block"
  ELSE "reuse_output"

\* _plan_tool_step; each step has one call.
PlanToolStep(run, call) ==
  IF call.status # "completed" \/ ContractDrift(run, call.request.tool) THEN "skip"
  ELSE IF EffectiveSideEffect(call.request) \in BlockedReplaySideEffects THEN "block"
  ELSE "reuse_output"

\* build_replay_plan.
ReplayReady(run) == \A i \in 1..Len(calls[run]) : PlanToolStep(run, calls[run][i]) = "reuse_output"

Replay(run) ==
  /\ ongoing = NoCall /\ calls[run] # <<>>
  /\ report' = [ready |-> ReplayReady(run),
                wrote |-> \E t \in BuiltinTools : <<run, t>> \in written,
                stale |-> run \notin drifted
                          /\ \E i \in 1..Len(calls[run]) :
                               calls[run][i].contract # contract[calls[run][i].request.tool]]
  /\ UNCHANGED <<mode, enabled, contract, config, snapshot, calls, cache, ongoing, written,
                 drifted, slipped, changes>>

ToolsNext ==
  \/ \E run \in ToolRuns :
       \/ Replay(run)
       \/ \E q \in Requests : CallDisabled(run, q) \/ CallRefused(run, q) \/ CallCached(run, q)
                              \/ StartCall(run, q)
  \/ \E status \in {"completed", "failed"} : EndCall(status)
  \/ \E key \in CacheKeys : Expire(key)
  \/ \E v \in Configs : EditConfig(v) \/ \E t \in BuiltinTools : ChangeContract(t, v)
  \/ \E t \in BuiltinTools, on \in BOOLEAN : SetToolEnabled(t, on)

ToolsSpec == ToolsInit /\ [][ToolsNext]_toolVars
(***************************************************************************)
(* Properties                                                              *)
(***************************************************************************)
CallRow == [request : Requests, status : {"completed", "failed"}, contract : Contracts,
            madeWith : Configs, under : Configs]

\* Rows and the call that executes have the values the code gives them.
ToolsTypeOK ==
  /\ mode \in [ToolRuns -> RunModes]
  /\ enabled \in [BuiltinTools -> BOOLEAN]
  /\ contract \in [BuiltinTools -> Contracts]
  /\ config \in Configs
  /\ snapshot \in [ToolRuns -> {NoSnapshot}
                      \cup [taken : {TRUE}, of : [BuiltinTools -> Contracts]]]
  /\ calls \in [ToolRuns -> Seq(CallRow)]
  /\ cache \in [CacheKeys -> {NoEntry}
                   \cup [stored : {TRUE}, madeWith : Configs, expired : BOOLEAN]]
  /\ ongoing \in {NoCall}
       \cup [executing : {TRUE}, run : ToolRuns, request : Requests, config : Configs]
  /\ report \in {NoReport} \cup [ready : BOOLEAN, wrote : BOOLEAN, stale : BOOLEAN]
  /\ written \subseteq ToolRuns \X BuiltinTools
  /\ drifted \subseteq ToolRuns
  /\ slipped \in BOOLEAN
  /\ changes \in 0..MaxChanges

\* A result comes from the configuration under which it is used, however
\* often the configuration changes to and fro, unless it was edited while a
\* tool executed: then the result is stored under the later one.
CachedResultsAreCurrent ==
  slipped \/ \A r \in ToolRuns : \A i \in 1..Len(calls[r]) :
               calls[r][i].status = "completed" => calls[r][i].madeWith = calls[r][i].under

\* Nothing is ever sent to somebody else, and a scheduled run writes to
\* local files only: not with a command, not with the method of a request.
UnattendedRunsWriteLocally ==
  \A w \in written : w[2] # "im.telegram.send_message" /\ (mode[w[1]] = "scheduler" => w[2] = "fs.write_text")

\* A replay that completes reuses a run that wrote nothing and whose calls
\* were made under the contracts of today; only a contract that changed
\* within the run, after its snapshot, and changed back goes unnoticed.
ReplaysReuseReads == report.ready => ~report.wrote /\ ~report.stale

\* A policy that changes to and fro, a cache and a replay: a result is only used under the
\* configuration and the contracts it was made with, and what may not be done unattended
\* is not done by way of another mode, a command or a stored result.
CallsAreGoverned == CachedResultsAreCurrent /\ ReplaysReuseReads /\ UnattendedRunsWriteLocally
================================================================================
