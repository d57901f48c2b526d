----------------------------- MODULE ResponseGate -----------------------------
(***************************************************************************)
(* The evidence gate of an agent run: the five hooks the plugin registers  *)
(* (src/src/index.ts), the decisions they take                             *)
(* (src/src/hooks/response-gate.ts) and the ledger of successful tools     *)
(* they keep (src/src/validators/require-tools.ts).                        *)
(*                                                                         *)
(* The ledger of a run lives in the host's run context or, when the host   *)
(* rejects the write, in a bounded map of the process.  Every hook runs to *)
(* completion before another one starts; hooks of different runs, and of   *)
(* the parallel tool calls of one run, interleave.  A run can be cancelled *)
(* while its tools are still working: their results come after agent_end.  *)
(*                                                                         *)
(* A ledger is the set of its successful tools.  The attempted tools, the  *)
(* warnings and the audit events are logged and decide nothing.            *)
(***************************************************************************)
EXTENDS Integers, FiniteSets

CONSTANTS
    Runs,               \* agent runs
    GuardianTools,      \* tools whose name starts with guardian_
    OtherTools,         \* any other tool
    RequiredTools,      \* GUARDIAN_REQUIRE_TOOLS.tools
    ProposalTool,       \* guardian_propose_remediation
    MaxAttempts,        \* GUARDIAN_REQUIRE_TOOLS.maxAttempts (1 in the code)
    MaxFallback,        \* entries of the fallback map (512 in the code)
    MayBeAnonymous,     \* runs whose hooks may carry no run id
    MaxCalls            \* bound: tool calls of each run

ASSUME ResponseGateAssumption ==
    /\ RequiredTools \subseteq GuardianTools
    /\ ProposalTool \in GuardianTools \ RequiredTools
    /\ GuardianTools \cap OtherTools = {}
    /\ MaxAttempts \in Nat \ {0}
    /\ MaxFallback \in Nat \ {0}
    /\ MayBeAnonymous \subseteq Runs
    /\ MaxCalls \in [Runs -> Nat]

VARIABLES
    mode,           \* requireToolsGateMode
    host,           \* how the host answers setRunContext
    anonymous,      \* runs whose hooks carry no run id
    runContext,     \* the host's run context: run -> ledger
    fallback,       \* fallbackRunEvidence: run -> ledger
    older,          \* its insertion order: <<s, r>> when s comes before r
    phase,          \* where each run is
    pending,        \* tool calls under way
    calls,          \* tool calls made by each run
    revisions,      \* revisions the host made, by run and idempotency key
    succeeded,      \* history: tools that succeeded in each run
    touched,        \* history: runs that called a Guardian tool
    evicted,        \* history: runs that lost their ledger to a full map
    proposed        \* history: runs whose proposal the gate let pass

stores == <<runContext, fallback, older, evicted>>
setting == <<mode, host, anonymous>>
vars == <<setting, stores, phase, pending, calls, revisions, succeeded,
          touched, proposed>>

Modes == {"disabled", "on_guardian_tool", "all_agent_runs"}
Hosts == {"accepts", "rejects", "varies"}
Phases == {"idle", "thinking", "concluded", "ended"}
Tools == GuardianTools \cup OtherTools
Ledgers == SUBSET GuardianTools

\* The idempotency key of a revision names the missing tools.
RevisionKeys == SUBSET RequiredTools

-----------------------------------------------------------------------------
(* The two stores *)

Identified == Runs \ anonymous

\* readRunEvidence is not undefined.
HasEvidence(r) == r \in DOMAIN runContext \cup DOMAIN fallback

\* The host's context goes first, whichever of the two is newer.
LedgerOf(r) ==
    IF r \in DOMAIN runContext THEN runContext[r]
    ELSE IF r \in DOMAIN fallback THEN fallback[r] ELSE {}

Among(rs) == {p \in older : p[1] \in rs /\ p[2] \in rs}

ForgetFallback(r) ==
    /\ fallback' = [s \in DOMAIN fallback \ {r} |-> fallback[s]]
    /\ older' = Among(DOMAIN fallback \ {r})

\* Map.delete and Map.set: r becomes the newest entry.
Reordered(r) ==
    Among(DOMAIN fallback \ {r}) \cup ((DOMAIN fallback \ {r}) \X {r})

\* Mutant: nothing makes room.
KeptAll(r) == DOMAIN fallback \cup {r}

\* The runs left in the map once r is written: the oldest makes room.
Kept(r) ==
    LET all == DOMAIN fallback \cup {r}
    IN  IF Cardinality(all) > MaxFallback
        THEN {s \in all : \E t \in all : <<t, s>> \in Reordered(r)}
        ELSE all

\* storeRunEvidence
StoreRunEvidence(r, ledger) ==
    \/ /\ host \in {"accepts", "varies"}
       /\ runContext' = [s \in DOMAIN runContext \cup {r} |->
                            IF s = r THEN ledger ELSE runContext[s]]
       /\ ForgetFallback(r)
       /\ UNCHANGED evicted
    \/ /\ host \in {"rejects", "varies"}
       /\ fallback' = [s \in Kept(r) |-> IF s = r THEN ledger ELSE fallback[s]]
       /\ older' = {p \in Reordered(r) : p[1] \in Kept(r) /\ p[2] \in Kept(r)}
       /\ evicted' = evicted \cup ((DOMAIN fallback \cup {r}) \ Kept(r))
       /\ UNCHANGED runContext

-----------------------------------------------------------------------------
(* The decisions *)

\* shouldEnforceGuardianRequireTools
Enforced == mode = "all_agent_runs"

Missing(ledger) == RequiredTools \ ledger

\* Mutant: an attempted tool is entered as well.
WithToolAttempted(ledger, tool, success) == ledger \cup {tool}

\* recordGuardianToolObservation: a failed call takes nothing back.
WithTool(ledger, tool, success) ==
    IF success THEN ledger \cup {tool} ELSE ledger

\* Mutant: activation starts from an empty ledger.
ActivatedFresh(r) == {}

\* activateGuardianRunEvidence keeps what the run has done so far.
Activated(r) == LedgerOf(r)

\* Mutant: a run with any evidence may propose.
ProposalPassesWithAny(r) == mode = "disabled" \/ r \in anonymous
                               \/ LedgerOf(r) # {}

\* buildProposalToolGateDecision, as before_tool_call applies it: a call
\* without a run id is the operator's and is not gated by a ledger.
ProposalPasses(r) ==
    \/ mode = "disabled"
    \/ r \in anonymous
    \/ Missing(LedgerOf(r)) = {}

\* Mutant: a run that has lost its ledger is not judged.
JudgedWithEvidence(r) ==
    mode # "disabled" /\ r \in Identified /\ HasEvidence(r)

\* before_agent_finalize judges the answers of the runs it holds a ledger of,
\* and every answer in the dedicated profile.
Judged(r) ==
    mode # "disabled" /\ r \in Identified /\ (HasEvidence(r) \/ Enforced)

\* The host's side of a revision: it counts by run and idempotency key and
\* goes on with the answer once maxAttempts are used up.
MayRevise(r, missing) == revisions[r][missing] < MaxAttempts

\* Mutant: every revision has a key of its own, and a budget of its own.
RevisedUncounted(r, missing) == revisions

Revised(r, missing) == [revisions EXCEPT ![r][missing] = @ + 1]

-----------------------------------------------------------------------------
(* The hooks, and the run that fires them *)

Init ==
    /\ mode \in Modes
    /\ host \in Hosts
    /\ anonymous \in SUBSET MayBeAnonymous
    /\ runContext = <<>>
    /\ fallback = <<>>
    /\ older = {}
    /\ phase = [r \in Runs |-> "idle"]
    /\ pending = {}
    /\ calls = [r \in Runs |-> 0]
    /\ revisions = [r \in Runs |-> [k \in RevisionKeys |-> 0]]
    /\ succeeded = [r \in Runs |-> {}]
    /\ touched = {}
    /\ evicted = {}
    /\ proposed = {}

\* before_agent_run, before every pass of the model.  In the dedicated profile
\* a run without an id does not start.
BeforeAgentRun(r) ==
    /\ phase[r] = "idle"
    /\ IF Enforced /\ r \in anonymous
       THEN phase' = [phase EXCEPT ![r] = "ended"]
       ELSE phase' = [phase EXCEPT ![r] = "thinking"]
    /\ IF Enforced /\ r \in Identified
       THEN StoreRunEvidence(r, Activated(r))
       ELSE UNCHANGED stores
    /\ UNCHANGED <<setting, pending, calls, revisions, succeeded, touched,
                   proposed>>

\* before_tool_call.  incident: what the evidence policy says of the session's
\* record, if there is one.
BeforeToolCall(r, tool, incident) ==
    /\ phase[r] = "thinking"
    /\ calls[r] < MaxCalls[r]
    /\ <<r, tool>> \notin pending
    /\ calls' = [calls EXCEPT ![r] = @ + 1]
    /\ IF mode # "disabled" /\ r \in Identified /\ tool \in GuardianTools
       THEN /\ StoreRunEvidence(r, WithTool(LedgerOf(r), tool, FALSE))
            /\ touched' = touched \cup {r}
       ELSE UNCHANGED <<stores, touched>>
    /\ LET blocked == /\ tool = ProposalTool
                      /\ ~ProposalPasses(r) \/ incident = "rejected"
       IN  /\ pending' = IF blocked THEN pending ELSE pending \cup {<<r, tool>>}
           /\ proposed' = IF tool = ProposalTool /\ ~blocked
                          THEN proposed \cup {r} ELSE proposed
    /\ UNCHANGED <<setting, phase, revisions, succeeded>>

\* after_tool_call, in whatever order parallel calls return, even after the
\* run has ended.
AfterToolCall(r, tool, success) ==
    /\ <<r, tool>> \in pending
    /\ pending' = pending \ {<<r, tool>>}
    /\ succeeded' = [succeeded EXCEPT ![r] = IF success THEN @ \cup {tool}
                                                        ELSE @]
    /\ IF mode # "disabled" /\ r \in Identified /\ tool \in GuardianTools
       THEN StoreRunEvidence(r, WithTool(LedgerOf(r), tool, success))
       ELSE UNCHANGED stores
    /\ UNCHANGED <<setting, phase, calls, revisions, touched, proposed>>

\* before_agent_finalize, and what the host makes of its decision.
Finalize(r) ==
    /\ phase[r] = "thinking"
    /\ \A tool \in Tools : <<r, tool>> \notin pending
    /\ LET missing == Missing(LedgerOf(r))
       IN  /\ IF Judged(r) /\ ~HasEvidence(r)
              THEN StoreRunEvidence(r, {})
              ELSE UNCHANGED stores
           /\ IF Judged(r) /\ missing # {} /\ MayRevise(r, missing)
              THEN /\ revisions' = Revised(r, missing)
                   /\ phase' = [phase EXCEPT ![r] = "idle"]
              ELSE /\ phase' = [phase EXCEPT ![r] = "concluded"]
                   /\ UNCHANGED revisions
    /\ UNCHANGED <<setting, pending, calls, succeeded, touched, proposed>>

\* agent_end, of a run that has concluded or of one that is cancelled
AgentEnd(r) ==
    /\ phase[r] \in {"thinking", "concluded"}
    /\ phase' = [phase EXCEPT ![r] = "ended"]
    /\ IF r \in Identified
       THEN /\ ForgetFallback(r)
            /\ runContext' = [s \in DOMAIN runContext \ {r} |-> runContext[s]]
            /\ UNCHANGED evicted
       ELSE UNCHANGED stores
    /\ UNCHANGED <<setting, pending, calls, revisions, succeeded, touched,
                   proposed>>

RunStep(r) ==
    \/ BeforeAgentRun(r)
    \/ Finalize(r)
    \/ AgentEnd(r)
    \/ \E tool \in Tools :
          \/ \E incident \in {"absent", "accepted", "rejected"} :
                BeforeToolCall(r, tool, incident)
          \/ \E success \in BOOLEAN : AfterToolCall(r, tool, success)

Next == \E r \in Runs : RunStep(r)

\* The steps that bring a run to its end: the host goes through its hooks in
\* order, and a tool under way returns.
Progress(r) ==
    \/ BeforeAgentRun(r)
    \/ \E tool \in Tools, success \in BOOLEAN : AfterToolCall(r, tool, success)
    \/ Finalize(r)
    \/ phase[r] = "concluded" /\ AgentEnd(r)

\* The model's passes come to an end and the tools have time limits, so a run
\* keeps going; no run is kept from it by another.
Fairness == \A r \in Runs : WF_vars(Progress(r))

Spec == Init /\ [][Next]_vars /\ Fairness

-----------------------------------------------------------------------------
(* Properties *)

\* Both stores hold ledgers of identified runs, and the map of the process
\* never holds more than its limit.
TypeOK ==
    /\ mode \in Modes /\ host \in Hosts /\ anonymous \subseteq Runs
    /\ DOMAIN runContext \subseteq Identified
    /\ \A r \in DOMAIN runContext : runContext[r] \in Ledgers
    /\ DOMAIN fallback \subseteq Identified
    /\ \A r \in DOMAIN fallback : fallback[r] \in Ledgers
    /\ Cardinality(DOMAIN fallback) <= MaxFallback
    /\ older \subseteq Runs \X Runs
    /\ phase \in [Runs -> Phases]
    /\ pending \subseteq Runs \X Tools
    /\ calls \in [Runs -> Nat] /\ \A r \in Runs : calls[r] <= MaxCalls[r]
    /\ revisions \in [Runs -> [RevisionKeys -> 0..MaxAttempts]]
    /\ succeeded \in [Runs -> SUBSET Tools]
    /\ touched \subseteq Runs /\ evicted \subseteq Runs /\ proposed \subseteq Runs

\* Whatever the host rejects, in whatever order tools return and whoever is
\* evicted, no store credits a run with a tool that did not succeed in it.
LedgersAreTruthful ==
    /\ \A r \in DOMAIN runContext : runContext[r] \subseteq succeeded[r]
    /\ \A r \in DOMAIN fallback : fallback[r] \subseteq succeeded[r]

\* An agent's proposal passes only in a run that has obtained every required
\* piece of evidence itself.
ProposalsAreBacked ==
    \A r \in proposed : mode = "disabled" \/ r \in anonymous
                           \/ RequiredTools \subseteq succeeded[r]

\* A run in progress loses nothing it has obtained: neither activation before
\* a later pass, nor a parallel call, nor a rejected write, as long as the
\* host answers alike throughout and the map has not been too small.
EvidenceIsKept ==
    \A r \in Identified \ evicted :
        phase[r] \in {"idle", "thinking"} /\ mode # "disabled" /\ host # "varies"
            => succeeded[r] \cap GuardianTools = LedgerOf(r)

\* An answer without its evidence is challenged before it is accepted: always
\* in the dedicated profile, even if the ledger was evicted; otherwise when
\* the run used a Guardian tool and its ledger is still there.
UnsupportedAnswersAreChallenged ==
    \A r \in Identified :
        /\ phase[r] = "concluded"
        /\ ~(RequiredTools \subseteq succeeded[r])
        /\ Enforced \/ (mode = "on_guardian_tool" /\ r \in touched \ evicted)
        => \E key \in RevisionKeys : revisions[r][key] > 0

\* The gate stops asking: every run that started comes to an end, with or
\* without its evidence.
RunsConclude == \A r \in Runs : phase[r] # "idle" ~> phase[r] = "ended"
=============================================================================
