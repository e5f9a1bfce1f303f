------------------------------- MODULE Routing -------------------------------
(***************************************************************************)
(* The choice of a runtime: crates/awo-core/src/routing.rs, and the two     *)
(* uses app/team_ops.rs makes of it for a member of a team and his card,   *)
(* the recommendation and the start.  Pure operators; what they promise,   *)
(* and how far the two uses agree, is proved in module Advice_proofs.      *)
(***************************************************************************)
EXTENDS Naturals

CONSTANT Models \* names of models

\* An option left open: a name, and a record.
None == "none"
NotGiven == [given |-> FALSE]

Name(a, b) == IF a # None THEN a ELSE b
OrElse(a, b) == IF a # NotGiven THEN a ELSE b

Runtimes == {"codex", "claude", "gemini", "shell"}
Pressures == {"none", "soft_limit", "hard_limit", "unavailable"}
CostTiers == {"local", "cheap", "standard", "premium", "unknown"}

Target == [runtime: Runtimes, model: Models \cup {None}]

Preferences == [allow_fallback: BOOLEAN, prefer_local: BOOLEAN, avoid_metered: BOOLEAN,
                max_cost_tier: CostTiers \cup {None}]

DefaultPreferences == [allow_fallback |-> TRUE, prefer_local |-> FALSE,
                       avoid_metered |-> FALSE, max_cost_tier |-> None]

\* The pressure of each runtime; "none" where the profile says nothing.
Context == [Runtimes -> Pressures]

\* runtime_capabilities
CostTier(runtime) ==
    CASE runtime = "claude" -> "premium"
      [] runtime = "codex" -> "standard"
      [] runtime = "gemini" -> "cheap"
      [] runtime = "shell" -> "local"

ApiMetered(runtime) == runtime # "shell"

-----------------------------------------------------------------------------
(* Rating a target, and choosing between two *)

CostRank(tier) ==
    CASE tier = "local" -> 0
      [] tier = "cheap" -> 1
      [] tier = "standard" -> 2
      [] tier = "premium" -> 3

\* A tier without a rank is under no ceiling, and under it is nothing.
CostWithinLimit(tier, ceiling) ==
    /\ tier # "unknown" /\ ceiling # "unknown"
    /\ CostRank(tier) <= CostRank(ceiling)

\* evaluate_target: the reason is for the operator only.
Accepted(target, preferences, context) ==
    LET runtime == target.runtime
    IN  /\ context[runtime] \notin {"hard_limit", "unavailable"}
        /\ preferences.prefer_local => CostTier(runtime) = "local"
        /\ preferences.avoid_metered => ~ApiMetered(runtime)
        /\ preferences.max_cost_tier # None =>
              CostWithinLimit(CostTier(runtime), preferences.max_cost_tier)

Primary(target) == [selected |-> target, source |-> "primary"]
Fallback(target) == [selected |-> target, source |-> "fallback"]

\* route_runtime; the fallback need not be given.  When neither will do it is
\* the primary target all the same.
Route(primary, fallback, preferences, context) ==
    IF /\ ~Accepted(primary, preferences, context)
       /\ preferences.allow_fallback
       /\ fallback # NotGiven
       /\ Accepted(fallback, preferences, context)
    THEN Fallback(fallback)
    ELSE Primary(primary)

-----------------------------------------------------------------------------
(* What the manifest says *)

\* A member, and a card of his.
Member == [runtime: Runtimes \cup {None}, model: Models \cup {None},
           fallback_runtime: Runtimes \cup {None}, fallback_model: Models \cup {None},
           preferences: Preferences \cup {NotGiven}]

Card == [runtime: Runtimes \cup {None}, model: Models \cup {None}]

\* The card's runtime, else its owner's; t is not given when
\* a member is asked about.
PrimaryRuntime(w, t) == IF t = NotGiven THEN w.runtime ELSE Name(t.runtime, w.runtime)

\* There is an error when no runtime is named at all.
Routable(w, t) == PrimaryRuntime(w, t) # None

FallbackTarget(w) ==
    IF w.fallback_runtime = None THEN NotGiven
    ELSE [runtime |-> w.fallback_runtime, model |-> w.fallback_model]

\* resolve_effective_routing_preferences: those given with the command, those
\* of the member, those of the team.
EffectivePreferences(given, w, team) ==
    OrElse(given, OrElse(w.preferences, OrElse(team, DefaultPreferences)))

\* recommend_team_routing: the model the card asks for is not looked at.
Recommended(w, t, team, context) ==
    Route([runtime |-> PrimaryRuntime(w, t), model |-> w.model],
          FallbackTarget(w), EffectivePreferences(NotGiven, w, team), context)

NoPressure == [runtime \in Runtimes |-> "none"]

\* execute_team_task: the pressure profile is not looked at.
Launched(given, w, t, team) ==
    Route([runtime |-> PrimaryRuntime(w, t), model |-> Name(t.model, w.model)],
          FallbackTarget(w), EffectivePreferences(given, w, team), NoPressure)

\* runtime_pressure_profile of the settings: set, and cleared.
PressureSet(context, runtime, level) == [context EXCEPT ![runtime] = level]
PressureCleared(context, runtime) == [context EXCEPT ![runtime] = "none"]

\* The pressure on the command line replaces the profile, if there is any.
ResolvedContext(profile, given) == OrElse(given, profile)

=============================================================================
