------------------------------ MODULE MCStartup ------------------------------
(***************************************************************************)
(* Instances of Startup for TLC: every environment that differs from a     *)
(* good one in at most two settings.                                       *)
(***************************************************************************)
EXTENDS Startup, SequencesExt, TLC

Unset(v) == [form |-> "unset", value |-> Default[v]]
Bad(v) == [form |-> "bad", value |-> Default[v]]
Ok(x) == [form |-> "ok", value |-> x]

Raw == {"jsm", " JSM", "other", "absent", ""}
MCNormalized == [x \in Raw |-> IF x = " JSM" THEN "jsm" ELSE x]

JSMVars == {"JSM_FIELD_PROVIDER_GROUP_ID", "JSM_FIELD_ROLE", "JSM_FIELD_PROJECT",
            "JSM_IDENTITY_PROVIDER_ID"}

Good == [v \in DOMAIN Default |-> IF v \in JSMVars THEN Ok("field") ELSE Unset(v)]
        @@ "SIGNING_SECRET" :> "secret"

Settings(v) ==
    CASE v \in {"SHUTDOWN_TIMEOUT", "CR_SYNC_TIMEOUT"} ->
           {Unset(v), Bad(v)} \cup {Ok(x) : x \in {-1, 0, 20, 25, 30}}
      [] v \in {"MAX_BODY_BYTES", "RATE_LIMIT_BURST"} ->
           {Unset(v), Bad(v)} \cup {Ok(x) : x \in {-1, 0, 1}}
      [] v \in {"RATE_LIMIT_RPS", "TRACING_SAMPLE_RATIO"} ->
           {Unset(v), Bad(v)} \cup {Ok(x) : x \in Floats}
      [] v = "LOG_FORMAT" -> {Unset(v), Ok("text"), Ok("xml")}
      [] v = "LOG_LEVEL" -> {Unset(v), Bad(v), Ok("debug")}
      [] v \in {"TRACING_ENABLED", "PPROF_ENABLED"} -> {Unset(v), Bad(v), Ok(FALSE)}
      [] v = "PROVIDERS" -> {Unset(v)} \cup {Ok(x) : x \in BoundedSeq(Raw, 3) \ {<<>>}}
      [] v \in JSMVars -> {Unset(v), Ok(""), Ok("field")}
      [] v = "CR_API_GROUP" -> {Unset(v), Ok("moved.io")}
      [] v = "SIGNING_SECRET" -> {"", "secret"}

\* Pairs of settings other than the list of providers, and the list of
\* providers with one other setting.
MCEnvironments ==
    LET Vars == DOMAIN Good
    IN  UNION {{[[Good EXCEPT ![v] = x] EXCEPT ![w] = y] :
                  x \in Settings(v), y \in Settings(w)} :
                 <<v, w>> \in {p \in Vars \X Vars : p[1] # p[2] /\
                                 p[1] # "PROVIDERS" /\ p[2] # "PROVIDERS"}}
        \cup {[Good EXCEPT !["PROVIDERS"] = x] : x \in Settings("PROVIDERS")}
        \cup UNION {{[[Good EXCEPT !["PROVIDERS"] = x] EXCEPT ![v] = y] :
                  x \in {Unset("PROVIDERS"), Ok(<<"">>), Ok(<<"other">>)},
                  y \in Settings(v)} : v \in Vars \ {"PROVIDERS"}}

=============================================================================
