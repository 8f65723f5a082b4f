------------------------------- MODULE Startup -------------------------------
(***************************************************************************)
(* From the environment to a serving process: config.Load and validate,    *)
(* NewTracerProvider, Registry.Build, NewDispatcher, NewAdminMux, and the  *)
(* handler that buildPublicHandler mounts.  A setting is unset, bad (it    *)
(* does not parse) or ok with a value; numbers are reduced to the classes  *)
(* that validate and samplerFor tell apart.                                *)
(***************************************************************************)
EXTENDS Integers, Sequences, Functions

CONSTANTS
    Environments,   \* the environments considered
    Normalized,     \* raw entry of WEBHOOK_PROVIDERS -> trimmed, lower case
    Registered      \* providers whose init() called RegisterProvider

\* The variables that Load reads through its loader and that validate or the
\* wiring depends on, in the order of the composite literal.  The other five
\* durations (four timeouts of the server and the skew) go through dur like
\* these two, and fail to parse like them.
Order == <<"SHUTDOWN_TIMEOUT", "MAX_BODY_BYTES", "RATE_LIMIT_RPS",
           "RATE_LIMIT_BURST", "LOG_FORMAT", "LOG_LEVEL", "TRACING_ENABLED",
           "TRACING_SAMPLE_RATIO", "PPROF_ENABLED", "PROVIDERS",
           "JSM_FIELD_PROVIDER_GROUP_ID", "JSM_FIELD_ROLE", "JSM_FIELD_PROJECT", "JSM_IDENTITY_PROVIDER_ID",
           "CR_API_GROUP", "CR_SYNC_TIMEOUT">>

\* A float64 as the comparisons of the code see it.  NaN compares false.
Floats == {"NaN", "negative", "zero", "in (0,1)", "one", "above 1"}
Below0(f) == f = "negative"
AtMost0(f) == f \in {"negative", "zero"}
AtLeast1(f) == f \in {"one", "above 1"}
Above1(f) == f = "above 1"

Default == [SHUTDOWN_TIMEOUT |-> 25, MAX_BODY_BYTES |-> 1, RATE_LIMIT_RPS |-> "above 1",
            RATE_LIMIT_BURST |-> 1, LOG_FORMAT |-> "json", LOG_LEVEL |-> "info",
            TRACING_ENABLED |-> TRUE, TRACING_SAMPLE_RATIO |-> "one",
            PPROF_ENABLED |-> TRUE, PROVIDERS |-> <<"jsm">>, JSM_FIELD_PROVIDER_GROUP_ID |-> "",
            JSM_FIELD_ROLE |-> "", JSM_FIELD_PROJECT |-> "",
            JSM_IDENTITY_PROVIDER_ID |-> "", CR_API_GROUP |-> "wiz.webhookd.io",
            CR_SYNC_TIMEOUT |-> 20]

\* What dur and i64 parse.
IntVars == {"SHUTDOWN_TIMEOUT", "MAX_BODY_BYTES", "RATE_LIMIT_BURST", "CR_SYNC_TIMEOUT"}

ASSUME EnvironmentsAssumption ==
    \A e \in Environments :
      /\ DOMAIN e = DOMAIN Default \cup {"SIGNING_SECRET"}
      /\ \A v \in IntVars : e[v].value \in Int
      /\ \A v \in {"TRACING_ENABLED", "PPROF_ENABLED"} : e[v].value \in BOOLEAN
      /\ e["PROVIDERS"].value \in Seq(DOMAIN Normalized)

\* Normalizing leaves the one name that is a default alone.
ASSUME NormalizedAssumption ==
    /\ Normalized \in [DOMAIN Normalized -> STRING]
    /\ "jsm" \in DOMAIN Normalized /\ Normalized["jsm"] = "jsm"

\* What NewAdminMux serves in any case.
Probes == {"/healthz", "/readyz", "/metrics"}

\* What run() may return: nil, a setting that does not parse or is out of
\* range, an error of validate, or one of the steps after Load.
Errors ==
    {"nil"} \cup DOMAIN Default
    \cup {"ErrSigningSecretRequired", "ErrSyncTimeoutTooLong", "ErrJSMFieldsRequired",
          "ErrIdentityProviderIDRequired", "build resource", "otlp http exporter",
          "k8s config", "k8s client", "k8s clientset", "not registered"}

VARIABLES
    env,        \* the environment; env.SIGNING_SECRET is read without the loader
    pc,         \* where run() is
    pos,        \* the next variable of Order
    cfg,        \* the Config under construction
    err,        \* l.err, and later the error run() returns
    sampler,    \* what decides which traces are exported
    providers,  \* what Registry.Build has constructed so far
    routes,     \* the dispatcher's map, by name
    adminRoutes \* what the admin listener serves

vars == <<env, pc, pos, cfg, err, sampler, providers, routes, adminRoutes>>

TypeOK ==
    /\ DOMAIN env = DOMAIN Default \cup {"SIGNING_SECRET"}
    /\ pc \in {"load", "trace", "build", "mux", "serve", "exit", "panic"}
    /\ pos \in 1..(Len(Order) + 1)
    /\ DOMAIN cfg = DOMAIN Default
    /\ err \in Errors
    /\ sampler \in {"none", "off", "never", "ratio", "always"}
    /\ providers \in Seq(Registered)
    /\ routes \subseteq Registered
    /\ adminRoutes \subseteq Probes \cup {"/debug/pprof/"}

Init ==
    /\ env \in Environments
    /\ pc = "load"
    /\ pos = 1
    /\ cfg = Default
    /\ err = "nil"
    /\ sampler = "none"
    /\ providers = <<>>
    /\ routes = {}
    /\ adminRoutes = {}

(***************************************************************************)
(* config.Load                                                             *)
(***************************************************************************)
\* Mutant: entries are compared before they are folded to lower case.
csvRawDedup(raw) ==
    LET out[i \in 0..Len(raw)] ==
          IF i = 0 THEN <<>>
          ELSE LET name == Normalized[raw[i]]
               IN  IF name = "" \/ \E j \in 1..(i - 1) : raw[j] = raw[i] THEN out[i - 1]
                   ELSE Append(out[i - 1], name)
    IN  out[Len(raw)]

\* The list after each entry: empty and repeated names are dropped.
csv(raw) ==
    LET out[i \in 0..Len(raw)] ==
          IF i = 0 THEN <<>>
          ELSE LET name == Normalized[raw[i]]
               IN  IF name = "" \/ name \in Range(out[i - 1]) THEN out[i - 1]
                   ELSE Append(out[i - 1], name)
    IN  out[Len(raw)]

\* Mutant: a later parse error replaces the first one.
ReadSettingLastError ==
    /\ pc = "load" /\ pos <= Len(Order)
    /\ LET v == Order[pos]
           s == env[v]
       IN  /\ err' = IF s.form = "bad" THEN v ELSE err
           /\ cfg' = IF s.form = "ok"
                     THEN [cfg EXCEPT ![v] = IF v = "PROVIDERS" THEN csv(s.value) ELSE s.value]
                     ELSE cfg
    /\ pos' = pos + 1
    /\ UNCHANGED <<env, pc, sampler, providers, routes, adminRoutes>>

\* One lookup of the loader: str, dur, i64, f64, csv, boolean or level.
ReadSetting ==
    /\ pc = "load" /\ pos <= Len(Order)
    /\ LET v == Order[pos]
           s == env[v]
       IN  /\ err' = IF err = "nil" /\ s.form = "bad" THEN v ELSE err
           /\ cfg' = IF err = "nil" /\ s.form = "ok"
                     THEN [cfg EXCEPT ![v] = IF v = "PROVIDERS" THEN csv(s.value) ELSE s.value]
                     ELSE cfg
    /\ pos' = pos + 1
    /\ UNCHANGED <<env, pc, sampler, providers, routes, adminRoutes>>

ProviderEnabled(c, name) == name \in Range(c.PROVIDERS)

\* Mutant: a sync may take as long as the drain.
SyncTooLongStrict(c) == c.CR_SYNC_TIMEOUT > c.SHUTDOWN_TIMEOUT

SyncTooLong(c) == c.CR_SYNC_TIMEOUT >= c.SHUTDOWN_TIMEOUT

\* The first constraint that c violates.
validate(c) ==
    IF Below0(c.TRACING_SAMPLE_RATIO) \/ Above1(c.TRACING_SAMPLE_RATIO)
    THEN "TRACING_SAMPLE_RATIO"
    ELSE IF c.LOG_FORMAT \notin {"json", "text"} THEN "LOG_FORMAT"
    ELSE IF c.MAX_BODY_BYTES <= 0 THEN "MAX_BODY_BYTES"
    ELSE IF AtMost0(c.RATE_LIMIT_RPS) THEN "RATE_LIMIT_RPS"
    ELSE IF c.RATE_LIMIT_BURST <= 0 THEN "RATE_LIMIT_BURST"
    ELSE IF c.CR_SYNC_TIMEOUT <= 0 THEN "CR_SYNC_TIMEOUT"
    ELSE IF SyncTooLong(c) THEN "ErrSyncTimeoutTooLong"
    ELSE IF ~ProviderEnabled(c, "jsm") THEN "nil"
    ELSE IF "" \in {c.JSM_FIELD_PROVIDER_GROUP_ID, c.JSM_FIELD_ROLE, c.JSM_FIELD_PROJECT}
    THEN "ErrJSMFieldsRequired"
    ELSE IF c.JSM_IDENTITY_PROVIDER_ID = "" THEN "ErrIdentityProviderIDRequired"
    ELSE "nil"

\* The end of Load.
FinishLoad ==
    /\ pc = "load" /\ pos > Len(Order)
    /\ err' = IF err # "nil" THEN err
              ELSE IF env.SIGNING_SECRET = "" THEN "ErrSigningSecretRequired"
              ELSE validate(cfg)
    /\ pc' = IF err' # "nil" THEN "exit" ELSE "trace"
    /\ UNCHANGED <<env, pos, cfg, sampler, providers, routes, adminRoutes>>

Fail(e) ==
    /\ pc' = "exit" /\ err' = e
    /\ UNCHANGED <<env, pos, cfg, sampler, providers, routes, adminRoutes>>

(***************************************************************************)
(* NewTracerProvider                                                       *)
(***************************************************************************)
\* What is sampled of the traces that do not continue a caller's.
samplerFor(ratio) ==
    IF AtLeast1(ratio) THEN "always" ELSE IF AtMost0(ratio) THEN "never" ELSE "ratio"

tracerSampler(c) ==
    IF c.TRACING_ENABLED THEN samplerFor(c.TRACING_SAMPLE_RATIO) ELSE "off"

\* The resource or, if there is to be one, the exporter may fail.  run() then
\* builds a dispatcher if a provider is enabled.
NewTracerProvider ==
    /\ pc = "trace"
    /\ \/ Fail("build resource")
       \/ cfg.TRACING_ENABLED /\ Fail("otlp http exporter")
       \/ /\ sampler' = tracerSampler(cfg)
          /\ pc' = IF cfg.PROVIDERS = <<>> THEN "mux" ELSE "build"
          /\ UNCHANGED <<env, pos, cfg, err, providers, routes, adminRoutes>>

(***************************************************************************)
(* buildDispatcher                                                         *)
(***************************************************************************)

\* k8s.NewClients: the group check; then a kubeconfig that may not load, and
\* two clients that may refuse it.
NewClientsFails ==
    /\ pc = "build" /\ providers = <<>>
    /\ \/ cfg.CR_API_GROUP # "wiz.webhookd.io" /\ Fail("CR_API_GROUP")
       \/ /\ cfg.CR_API_GROUP = "wiz.webhookd.io"
          /\ \E e \in {"k8s config", "k8s client", "k8s clientset"} : Fail(e)

\* Mutant: an unregistered name is passed on.
BuildProviderUnchecked ==
    /\ pc = "build"
    /\ Len(providers) < Len(cfg.PROVIDERS)
    /\ providers' = Append(providers, cfg.PROVIDERS[Len(providers) + 1])
    /\ UNCHANGED <<env, pc, pos, cfg, err, sampler, routes, adminRoutes>>

\* Registry.Build: one provider of the allow-list after the other.
BuildProvider ==
    /\ pc = "build"
    /\ cfg.CR_API_GROUP = "wiz.webhookd.io"
    /\ Len(providers) < Len(cfg.PROVIDERS)
    /\ LET name == cfg.PROVIDERS[Len(providers) + 1]
       IN  \/ name \notin Registered /\ Fail("not registered")
           \/ /\ name \in Registered
              /\ providers' = Append(providers, name)
              /\ UNCHANGED <<env, pc, pos, cfg, err, sampler, routes, adminRoutes>>

NewDispatcher ==
    /\ pc = "build"
    /\ Len(providers) = Len(cfg.PROVIDERS)
    /\ pc' = IF IsInjective(providers) THEN "mux" ELSE "panic"
    /\ routes' = Range(providers)
    /\ UNCHANGED <<env, pos, cfg, err, sampler, providers, adminRoutes>>

(***************************************************************************)
(* The two handlers, and the listeners.                                    *)
(***************************************************************************)
NewAdminMux ==
    /\ pc = "mux"
    /\ adminRoutes' = Probes \cup (IF cfg.PPROF_ENABLED THEN {"/debug/pprof/"} ELSE {})
    /\ pc' = "serve"
    /\ UNCHANGED <<env, pos, cfg, err, sampler, providers, routes>>

Next ==
    \/ ReadSetting \/ FinishLoad \/ NewTracerProvider
    \/ NewClientsFails \/ BuildProvider \/ NewDispatcher \/ NewAdminMux

Spec == Init /\ [][Next]_vars

\* What POST /webhook/{provider} leads to: ServeHTTP of a provider, its 404,
\* or the 503 that stands in for a dispatcher.
Respond(name) ==
    IF cfg.PROVIDERS = <<>> THEN "503 disabled"
    ELSE IF name \in routes THEN "dispatched" ELSE "404"

(***************************************************************************)
(* Properties                                                              *)
(***************************************************************************)
Position(v) == CHOOSE i \in DOMAIN Order : Order[i] = v

(* Load "returns the first error encountered" (its comment): a process that *)
(* refuses to start over a setting that does not parse names the one that   *)
(* comes first in Load, although the loader goes on reading after it, and   *)
(* no parse error is lost behind a later check or a default.                *)
FirstErrorReported ==
    LET Bad == {i \in DOMAIN Order : env[Order[i]].form = "bad"}
    IN  pc \notin {"load"} /\ Bad # {} =>
          /\ pc = "exit"
          /\ \E i \in Bad : err = Order[i] /\ \A j \in Bad : i <= j

(* A process that serves can finish a sync inside its drain budget, knows   *)
(* every field of the provider it serves, and has a secret: what validate   *)
(* promised is true of the configuration that the rest of the program uses. *)
(* Of the rate and of the ratio it only excludes what compares as too small *)
(* or too large: NaN passes both checks.                                    *)
ServesOnlyValid ==
    pc = "serve" =>
      /\ 0 < cfg.CR_SYNC_TIMEOUT /\ cfg.CR_SYNC_TIMEOUT < cfg.SHUTDOWN_TIMEOUT
      /\ cfg.MAX_BODY_BYTES > 0 /\ cfg.RATE_LIMIT_BURST > 0
      /\ cfg.RATE_LIMIT_RPS \notin {"negative", "zero"}
      /\ cfg.TRACING_SAMPLE_RATIO \notin {"negative", "above 1"}
      /\ "jsm" \in routes =>
           "" \notin {cfg.JSM_FIELD_PROVIDER_GROUP_ID, cfg.JSM_FIELD_ROLE,
                      cfg.JSM_FIELD_PROJECT, cfg.JSM_IDENTITY_PROVIDER_ID}
      /\ env.SIGNING_SECRET # ""

Given(v) == IF env[v].form = "ok" THEN env[v].value ELSE Default[v]

(* A serving process does what the environment says.  It dispatches exactly *)
(* the providers that WEBHOOK_PROVIDERS names, however they are spelled or  *)
(* repeated, answers 503 only if it names none, and NewDispatcher never     *)
(* panics over a duplicate.  It samples nothing if tracing is disabled, no  *)
(* trace of its own at ratio 0 and every one at ratio 1, and serves         *)
(* profiles only if they are enabled.                                       *)
ServesAsConfigured ==
    LET Named == {Normalized[x] : x \in Range(Given("PROVIDERS"))} \ {""}
        ratio == Given("TRACING_SAMPLE_RATIO")
    IN  /\ pc # "panic"
        /\ pc = "serve" =>
             /\ \A name \in Registered :
                  Respond(name) = IF Named = {} THEN "503 disabled"
                                  ELSE IF name \in Named THEN "dispatched" ELSE "404"
             /\ sampler = "off" <=> ~Given("TRACING_ENABLED")
             /\ sampler = "never" <=> Given("TRACING_ENABLED") /\ ratio = "zero"
             /\ sampler = "always" <=> Given("TRACING_ENABLED") /\ ratio = "one"
             /\ "/debug/pprof/" \in adminRoutes <=> Given("PPROF_ENABLED")

=============================================================================
